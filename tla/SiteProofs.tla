------------------------------ MODULE SiteProofs ------------------------------
(***************************************************************************)
(* Theorems about the components of the demo site, for every value of the  *)
(* constants.  Each component has an inductive invariant in its module; a  *)
(* behaviour of Site is one of each component, which the theorems at the   *)
(* end use.                                                                *)
(***************************************************************************)
EXTENDS Site, FiniteSetTheorems, SequenceTheorems, WellFoundedInduction, TLAPS

-----------------------------------------------------------------------------
(***************************************************************************)
(* InteractiveDemo                                                         *)
(***************************************************************************)

\* Every part of a run is at one of the steps 1 to 5 and adds a line or two.
LEMMA ScriptParts ==
  /\ Len(Dashboard!Script) = 9 /\ Dashboard!Parts = 1..9
  /\ \A p \in 1..9 : Dashboard!Script[p][1] \in 1..5 /\ Dashboard!Script[p][2] \in 1..2
BY DEF Dashboard!Script, Dashboard!Parts

\* Appending a line once or twice and dropping old ones leaves the line at the
\* end and no other new one.
LEMMA LinesAppended ==
  ASSUME NEW T, NEW old \in Seq(T), NEW line \in T, NEW k \in 1..2,
         NEW m \in 1..(Len(old) + k)
  PROVE  LET new == SubSeq(old \o [i \in 1..k |-> line], m, Len(old \o [i \in 1..k |-> line]))
         IN  /\ new \in Seq(T) /\ new # <<>> /\ new[Len(new)] = line
             /\ \A i \in DOMAIN new :
                    new[i] = line \/ \E j \in DOMAIN old : new[i] = old[j]
<1> DEFINE lines == [i \in 1..k |-> line]
           all == old \o lines
           new == SubSeq(all, m, Len(all))
<1>1. lines \in Seq(T) /\ Len(lines) = k /\ \A i \in 1..k : lines[i] = line
  OBVIOUS
<1>2. /\ all \in Seq(T) /\ Len(all) = Len(old) + k
      /\ \A i \in 1..(Len(old) + k) :
             all[i] = IF i <= Len(old) THEN old[i] ELSE lines[i - Len(old)]
  BY <1>1, ConcatProperties
<1> HIDE DEF lines, all
<1>3. /\ new \in Seq(T) /\ Len(new) = Len(all) - m + 1
      /\ \A i \in 1..(Len(all) - m + 1) : new[i] = all[m + i - 1]
  BY <1>2, SubSeqProperties
<1> HIDE DEF new
<1>4. new # <<>> /\ DOMAIN new = 1..Len(new) /\ Len(new) \in 1..(Len(old) + k)
  BY <1>2, <1>3, LenProperties
<1>5. new[Len(new)] = line
  BY <1>1, <1>2, <1>3, <1>4
<1>6. ASSUME NEW i \in DOMAIN new
      PROVE  new[i] = line \/ \E j \in DOMAIN old : new[i] = old[j]
  <2>1. new[i] = all[m + i - 1] /\ m + i - 1 \in 1..(Len(old) + k)
    BY <1>2, <1>3, <1>4
  <2> QED BY <2>1, <1>1, <1>2
<1> QED BY <1>3, <1>4, <1>5, <1>6 DEF new, all, lines

\* The log of a component's part: its last line tells of this part.
LEMMA LogOfPart ==
  ASSUME Dashboard!TypeOK, Dashboard!LogInv, NEW n \in Nat, NEW p \in 1..9,
         NEW run, run.level = kemLevel, run.payload \in Dashboard!Typed,
         Dashboard!AddLog(n, run, p)
  PROVE  /\ logs' \in Seq(Dashboard!Lines)
         /\ logs' # <<>> /\ \A i \in DOMAIN logs' : logs'[i].level = kemLevel
         /\ logs'[Len(logs')] = [run |-> n, part |-> p, level |-> run.level, payload |-> run.payload]
<1> DEFINE line == [run |-> n, part |-> p, level |-> run.level, payload |-> run.payload]
           k == Dashboard!Script[p][2]
           all == logs \o [i \in 1..k |-> line]
           m == IF Len(all) > 6 THEN Len(all) - 6 + 1 ELSE 1
<1>1. line \in Dashboard!Lines /\ k \in 1..2
  BY ScriptParts DEF Dashboard!TypeOK, Dashboard!Lines
<1>2. logs \in Seq(Dashboard!Lines) /\ logs # <<>> /\ \A i \in DOMAIN logs : logs[i].level = kemLevel
  BY DEF Dashboard!TypeOK, Dashboard!LogInv
<1>3. logs' = SubSeq(all, m, Len(all))
  BY DEF Dashboard!AddLog, Dashboard!KeptLines
<1>4. line = [run |-> n, part |-> p, level |-> run.level, payload |-> run.payload]
      /\ line.level = kemLevel
  OBVIOUS
<1> HIDE DEF line, k
<1>5. m \in 1..(Len(logs) + k)
  <2>1. [i \in 1..k |-> line] \in Seq(Dashboard!Lines) /\ Len([i \in 1..k |-> line]) = k
    BY <1>1
  <2>2. Len(all) = Len(logs) + k /\ Len(logs) \in Nat
    BY <2>1, <1>2, ConcatProperties, LenProperties
  <2> QED BY <2>2, <1>1
<1>6. /\ logs' \in Seq(Dashboard!Lines) /\ logs' # <<>> /\ logs'[Len(logs')] = line
      /\ \A i \in DOMAIN logs' : logs'[i] = line \/ \E j \in DOMAIN logs : logs'[i] = logs[j]
  <2> DEFINE new == SubSeq(all, m, Len(all))
  <2>1. /\ new \in Seq(Dashboard!Lines) /\ new # <<>> /\ new[Len(new)] = line
        /\ \A i \in DOMAIN new : new[i] = line \/ \E j \in DOMAIN logs : new[i] = logs[j]
    <3> HIDE DEF m
    <3> QED BY <1>1, <1>2, <1>5, LinesAppended, SMTT(30)
  <2> QED BY <2>1, <1>3
<1> QED BY <1>2, <1>4, <1>6

\* At first nothing plays, and the log has the line of the level.
LEMMA DashboardStarts == Dashboard!Init => Dashboard!DashboardInv
<1> SUFFICES ASSUME Dashboard!Init PROVE Dashboard!DashboardInv
  OBVIOUS
<1> USE DEF Dashboard!Init, Dashboard!SystemLine
<1>1. Dashboard!TypeOK
  <2>1. plays \in Seq(Dashboard!Runs)
    BY EmptySeq
  <2>2. Dashboard!SystemLine(kemLevel) \in Dashboard!Lines
    BY DEF Dashboard!Levels, Dashboard!Lines
  <2>3. logs \in Seq(Dashboard!Lines)
    BY <2>2
  <2>4. step \in 0..5 /\ isPlaying \in BOOLEAN /\ kemLevel \in Dashboard!Levels
        /\ customPayload \in Dashboard!Typed
    <3>1. step = 0 /\ isPlaying = FALSE /\ kemLevel = "768" /\ customPayload = Default
      OBVIOUS
    <3> HIDE DEF Dashboard!Init
    <3>2. step \in 0..5
      BY <3>1
    <3>3. isPlaying \in BOOLEAN
      BY <3>1
    <3>4. kemLevel \in Dashboard!Levels
      BY <3>1, Zenon DEF Dashboard!Levels
    <3> QED BY <3>1, <3>2, <3>3, <3>4 DEF Dashboard!Typed
  <2> HIDE DEF Dashboard!Init
  <2> QED BY <2>1, <2>3, <2>4 DEF Dashboard!TypeOK
<1>2. Dashboard!LogInv
  BY DEF Dashboard!LogInv
<1>3. Dashboard!RunInv
  BY DEF Dashboard!RunInv
<1> QED BY <1>1, <1>2, <1>3 DEF Dashboard!DashboardInv

\* A part of the last run is played, with what the visitor has chosen.
LEMMA DashboardPlays ==
  ASSUME Dashboard!TypeOK, Dashboard!LogInv, NEW p \in 1..9,
         plays' \in Seq(Dashboard!Runs),
         plays' # <<>>,
         \A n \in DOMAIN plays' : n < Len(plays') => plays'[n].part = 9,
         plays'[Len(plays')] = [level |-> kemLevel, payload |-> customPayload, part |-> p],
         NEW run, run.level = kemLevel, run.payload = customPayload,
         Dashboard!Plays(Len(plays'), run, p),
         UNCHANGED <<customPayload, kemLevel>>
  PROVE  Dashboard!DashboardInv'
<1> USE ScriptParts
<1>1. Len(plays') \in Nat /\ run.payload \in Dashboard!Typed
  BY DEF Dashboard!TypeOK
<1>2. /\ step' = Dashboard!Script[p][1] /\ isPlaying' = (p < 9)
      /\ Dashboard!AddLog(Len(plays'), run, p)
  BY DEF Dashboard!Plays
<1>3. /\ logs' \in Seq(Dashboard!Lines)
      /\ logs' # <<>> /\ \A i \in DOMAIN logs' : logs'[i].level = kemLevel
      /\ logs'[Len(logs')] = [run |-> Len(plays'), part |-> p,
                              level |-> kemLevel, payload |-> customPayload]
  BY <1>1, <1>2, LogOfPart
<1>4. Dashboard!TypeOK'
  <2>1. step' \in 0..5 /\ isPlaying' \in BOOLEAN
    BY <1>2
  <2> QED BY <2>1, <1>3 DEF Dashboard!TypeOK
<1>5. Dashboard!LogInv'
  BY <1>3 DEF Dashboard!LogInv
<1>6. Dashboard!RunInv'
  <2>1. Len(plays') \in DOMAIN plays'
    BY LenProperties, EmptySeq
  <2>2. isPlaying' <=> p < 9
    BY <1>2
  <2> HIDE DEF Dashboard!Parts, Dashboard!Script
  <2> QED BY <2>2, <2>1, <1>2, <1>3 DEF Dashboard!RunInv
<1> QED BY <1>4, <1>5, <1>6 DEF Dashboard!DashboardInv

\* Every step keeps the invariant.
LEMMA DashboardKeeps ==
  Dashboard!DashboardInv /\ [Dashboard!Next]_dashboard => Dashboard!DashboardInv'
<1> SUFFICES ASSUME Dashboard!DashboardInv, [Dashboard!Next]_dashboard
             PROVE  Dashboard!DashboardInv'
  OBVIOUS
<1> USE DEF Dashboard!DashboardInv
<1>1. CASE Dashboard!RunHandshake
  <2> DEFINE new == [level |-> kemLevel, payload |-> customPayload, part |-> 1]
  <2>1. ~isPlaying /\ plays' = Append(plays, new) /\ Dashboard!Plays(Len(plays) + 1, new, 1)
        /\ UNCHANGED <<customPayload, kemLevel>>
    BY <1>1 DEF Dashboard!RunHandshake
  <2>2. new \in Dashboard!Runs
    BY ScriptParts DEF Dashboard!TypeOK, Dashboard!Runs
  <2> HIDE DEF new
  <2>3. /\ plays' \in Seq(Dashboard!Runs)
        /\ Len(plays') = Len(plays) + 1 /\ plays'[Len(plays')] = new /\ Len(plays) \in Nat
        /\ \A n \in 1..Len(plays) : plays'[n] = plays[n]
    BY <2>1, <2>2 DEF Dashboard!TypeOK
  <2>4. \A n \in DOMAIN plays' : n < Len(plays') => plays'[n].part = 9
    BY <2>1, <2>3, ScriptParts DEF Dashboard!RunInv
  <2>5. Dashboard!Plays(Len(plays'), new, 1) /\ plays' # <<>>
    BY <2>1, <2>3, EmptySeq
  <2>6. new.level = kemLevel /\ new.payload = customPayload
        /\ new = [level |-> kemLevel, payload |-> customPayload, part |-> 1]
    BY DEF new
  <2> QED BY <2>1, <2>3, <2>4, <2>5, <2>6, DashboardPlays
<1>2. ASSUME NEW n \in DOMAIN plays, Dashboard!Continue(n)
      PROVE  Dashboard!DashboardInv'
  <2> DEFINE p == plays[n].part + 1
  <2>1. /\ plays[n].part < 9 /\ plays' = [plays EXCEPT ![n].part = @ + 1]
        /\ Dashboard!Plays(n, plays[n], p) /\ UNCHANGED <<customPayload, kemLevel>>
    BY <1>2, ScriptParts DEF Dashboard!Continue
  <2>2. isPlaying /\ n = Len(plays)
    <3>1. n \in Nat /\ Len(plays) \in Nat /\ n <= Len(plays)
      BY DEF Dashboard!TypeOK
    <3>2. ~(n < Len(plays) \/ ~isPlaying)
      BY <2>1, ScriptParts DEF Dashboard!RunInv
    <3> QED BY <3>1, <3>2
  <2>5. /\ plays[n].level = kemLevel /\ plays[n].payload = customPayload
        /\ plays[n] \in Dashboard!Runs /\ n = Len(plays)
    BY <2>2 DEF Dashboard!RunInv, Dashboard!TypeOK
  <2>6. p \in 1..9 /\ plays[n] = [level |-> kemLevel, payload |-> customPayload, part |-> p - 1]
    BY <2>1, <2>5, ScriptParts DEF Dashboard!Runs
  <2>3. /\ plays' \in Seq(Dashboard!Runs)
        /\ Len(plays') = Len(plays) /\ Len(plays) \in Nat \ {0}
        /\ plays'[n] = [level |-> kemLevel, payload |-> customPayload, part |-> p]
        /\ \A l \in 1..Len(plays) : l # n => plays'[l] = plays[l]
    <3>1. [plays[n] EXCEPT !.part = @ + 1] = [level |-> kemLevel, payload |-> customPayload, part |-> p]
      BY <2>6
    <3>2. [plays[n] EXCEPT !.part = @ + 1] \in Dashboard!Runs
      BY <2>5, <2>6, <3>1, ScriptParts DEF Dashboard!Runs
    <3>3. plays' = [plays EXCEPT ![n] = [plays[n] EXCEPT !.part = @ + 1]]
      BY <2>1
    <3>4. plays \in Seq(Dashboard!Runs) /\ n \in 1..Len(plays)
      BY DEF Dashboard!TypeOK
    <3> QED BY <3>1, <3>2, <3>3, <3>4, ExceptSeq
  <2>4. \A l \in DOMAIN plays' : l < Len(plays') => plays'[l].part = 9
    BY <2>2, <2>3, ScriptParts DEF Dashboard!RunInv
  <2>7. /\ Dashboard!Plays(Len(plays'), plays[n], p) /\ plays' # <<>>
        /\ plays'[Len(plays')] = [level |-> kemLevel, payload |-> customPayload, part |-> p]
    BY <2>1, <2>2, <2>3, EmptySeq
  <2> HIDE DEF p
  <2> QED BY <2>1, <2>2, <2>3, <2>4, <2>5, <2>6, <2>7, DashboardPlays
<1>3. ASSUME NEW level \in Dashboard!Levels, ~isPlaying,
             kemLevel' = level, logs' = <<Dashboard!SystemLine(level)>>,
             step' \in {step, 0}, UNCHANGED <<isPlaying, customPayload, plays>>
      PROVE  Dashboard!DashboardInv'
  <2>1. logs' \in Seq(Dashboard!Lines)
    BY <1>3 DEF Dashboard!SystemLine, Dashboard!Lines
  <2>2. Dashboard!TypeOK'
    BY <1>3, <2>1 DEF Dashboard!TypeOK
  <2>3. Dashboard!LogInv'
    BY <1>3 DEF Dashboard!LogInv, Dashboard!SystemLine
  <2>4. Dashboard!RunInv'
    BY <1>3 DEF Dashboard!RunInv
  <2> QED BY <2>2, <2>3, <2>4
<1>4. CASE Dashboard!ResetDemo
  BY <1>3, <1>4 DEF Dashboard!ResetDemo, Dashboard!TypeOK
<1>5. ASSUME NEW level \in Dashboard!Levels, Dashboard!SelectLevel(level)
      PROVE  Dashboard!DashboardInv'
  BY <1>3, <1>5 DEF Dashboard!SelectLevel
<1>6. ASSUME NEW payload \in Payloads, Dashboard!EditPayload(payload)
      PROVE  Dashboard!DashboardInv'
  BY <1>6 DEF Dashboard!EditPayload, Dashboard!TypeOK, Dashboard!LogInv, Dashboard!RunInv,
              Dashboard!Typed
<1>7. CASE UNCHANGED dashboard
  BY <1>7 DEF dashboard, Dashboard!TypeOK, Dashboard!LogInv, Dashboard!RunInv
<1> QED BY <1>1, <1>2, <1>4, <1>5, <1>6, <1>7 DEF Dashboard!Next

\* The invariant says more than the property.
LEMMA DashboardShows == Dashboard!DashboardInv => Dashboard!PanelsMatchLog
<1> SUFFICES ASSUME Dashboard!DashboardInv PROVE Dashboard!PanelsMatchLog
  OBVIOUS
<1>1. ASSUME NEW from, NEW label, NEW values, NEW value \in Dashboard!Shown(from, label, values)
      PROVE  value.made = values
  BY DEF Dashboard!Shown
<1>2. ASSUME NEW value \in Dashboard!ClientPanel \cup Dashboard!ServerPanel
      PROVE  value.made \subseteq {kemLevel, customPayload}
  <2>1. \/ value \in Dashboard!Shown(1, "public key", {kemLevel})
        \/ value \in Dashboard!Shown(4, "session key", {kemLevel})
        \/ value \in Dashboard!Shown(5, "payload", {customPayload})
        \/ value \in Dashboard!Shown(3, "ciphertext", {customPayload, kemLevel})
        \/ value \in Dashboard!Shown(5, "plaintext", {customPayload})
    BY <1>2, Zenon DEF Dashboard!ClientPanel, Dashboard!ServerPanel, Dashboard!GetMockSharedSecret,
                       Dashboard!GetMockCiphertext, Dashboard!GetEncryptedPayload
  <2>2. value.made \in {{kemLevel}, {customPayload}, {customPayload, kemLevel}}
    BY <1>1, <2>1, Zenon
  <2> QED BY <2>2
<1> QED BY <1>2 DEF Dashboard!DashboardInv, Dashboard!RunInv, Dashboard!LogInv,
                    Dashboard!PanelsMatchLog
-----------------------------------------------------------------------------
(***************************************************************************)
(* SealDemo                                                                *)
(***************************************************************************)

\* The next URL made is none that was made before.
LEMMA NumbersOf ==
  ASSUME NEW image \in Upload!Images, NEW n \in Nat
  PROVE  /\ Upload!Url(image, n) \in Upload!Urls /\ Upload!Url(image, n) # None
         /\ Upload!Url(image, n).image = image
         /\ \A url : Upload!Numbers({Upload!Url(image, n), url}) = {n} \cup Upload!Numbers({url})
         /\ Upload!Numbers({Upload!Url(image, n), None}) = {n}
<1>1. Upload!Url(image, n) \in Upload!Urls /\ Upload!Url(image, n).n = n
      /\ Upload!Url(image, n).image = image
  BY DEF Upload!Url, Upload!Urls
<1>2. Upload!Url(image, n) # None
  BY <1>1, NoneAssumption DEF Upload!Urls, Upload!Images
<1> QED BY <1>1, <1>2 DEF Upload!Numbers

\* At first no image has been chosen and no URL made.
LEMMA UploadStarts == Upload!Init => Upload!UploadInv
<1> SUFFICES ASSUME Upload!Init PROVE Upload!UploadInv
  OBVIOUS
<1> USE DEF Upload!Init
<1>1. Upload!TypeOK
  BY EmptySeq DEF Upload!TypeOK, Upload!FlagsOK
<1>2. Upload!Numbers({origUrl, decUrl}) = {}
  BY DEF Upload!Numbers
<1>3. DOMAIN calls = {} /\ revoked = {} /\ 1..made = {}
  BY EmptySeq
<1>4. Upload!ImageOf(origUrl) = sealed /\ Upload!ImageOf(decUrl) = sealed
  BY DEF Upload!ImageOf
<1> HIDE DEF Upload!Init
<1>5. Upload!UrlInv
  BY <1>2, <1>3 DEF Upload!UrlInv
<1>6. Upload!AloneInv
  BY <1>2, <1>3, <1>4 DEF Upload!AloneInv
<1> QED BY <1>1, <1>5, <1>6 DEF Upload!UploadInv

\* A call to run, on URLs of this or an older render: those on the page are no
\* more on it, and are revoked if these are they.
LEMMA UploadRuns ==
  ASSUME Upload!TypeOK, Upload!UrlInv, NEW image \in Upload!Images,
         NEW closure, Upload!Numbers(closure) \subseteq 1..made,
         Upload!Starts(image, closure)
  PROVE  /\ busy' = TRUE /\ error' = FALSE /\ decUrl' = None /\ made' = made + 1
         /\ origUrl' \in Upload!Urls /\ Upload!ImageOf(origUrl)' = image
         /\ revoked' \subseteq 1..made' /\ 1..made \subseteq 1..made'
         /\ Upload!Numbers({origUrl, decUrl})' = {made'}
         /\ made' \in (1..made') \ revoked'
         /\ 1..made \ revoked = Upload!Numbers(closure) => 1..made' \ revoked' = {made'}
<1>1. /\ busy' = TRUE /\ error' = FALSE /\ decUrl' = None /\ made' = made + 1
      /\ origUrl' = Upload!Url(image, made') /\ revoked' = revoked \cup Upload!Numbers(closure)
  BY DEF Upload!Starts
<1>2. made \in Nat /\ made' \in Nat /\ 1..made' = 1..made \cup {made'} /\ made' \notin 1..made
  BY <1>1 DEF Upload!TypeOK
<1>3. origUrl' \in Upload!Urls /\ origUrl' # None /\ origUrl'.image = image
  BY <1>1, <1>2, NumbersOf
<1>4. Upload!Numbers({origUrl, decUrl})' = {made'}
  <2>1. Upload!Numbers({Upload!Url(image, made'), None}) = {made'}
    BY <1>2, NumbersOf
  <2> QED BY <2>1, <1>1 DEF Upload!Numbers
<1>5. revoked \subseteq 1..made /\ revoked' \subseteq 1..made
  BY <1>1 DEF Upload!UrlInv
<1> QED BY <1>1, <1>2, <1>3, <1>4, <1>5 DEF Upload!ImageOf

\* A call under way goes on or is over.
LEMMA CallMoves ==
  ASSUME Upload!TypeOK, NEW i \in DOMAIN calls, NEW at \in {"fetching", "sealing", "over"},
         calls' = [calls EXCEPT ![i].at = at]
  PROVE  /\ calls' \in Seq(Upload!CallsOf) /\ DOMAIN calls' = DOMAIN calls
         /\ calls[i].image \in Upload!Images
         /\ \A j \in DOMAIN calls : /\ calls'[j].image = calls[j].image
                                    /\ calls'[j].closure = calls[j].closure
                                    /\ calls'[j].at = IF j = i THEN at ELSE calls[j].at
<1> DEFINE new == [calls[i] EXCEPT !.at = at]
<1>1. calls \in Seq(Upload!CallsOf) /\ calls[i] \in Upload!CallsOf
  BY DEF Upload!TypeOK
<1>2. /\ new \in Upload!CallsOf /\ new.at = at /\ new.image = calls[i].image
      /\ new.closure = calls[i].closure /\ calls[i].image \in Upload!Images
  BY <1>1 DEF Upload!CallsOf
<1>3. calls' = [calls EXCEPT ![i] = new]
  OBVIOUS
<1> HIDE DEF new
<1>4. calls' \in Seq(Upload!CallsOf) /\ DOMAIN calls' = DOMAIN calls
  BY <1>1, <1>2, <1>3, ExceptSeq
<1>5. \A j \in DOMAIN calls : calls'[j] = IF j = i THEN new ELSE calls[j]
  BY <1>1, <1>3
<1> QED BY <1>2, <1>4, <1>5

\* A control is used: there is one call more.
LEMMA CallAdded ==
  ASSUME Upload!TypeOK, NEW call \in Upload!CallsOf, calls' = Append(calls, call)
  PROVE  LET n == Len(calls) + 1 IN
         /\ calls' \in Seq(Upload!CallsOf) /\ DOMAIN calls' = DOMAIN calls \cup {n}
         /\ n \notin DOMAIN calls /\ calls'[n] = call
         /\ \A j \in DOMAIN calls : calls'[j] = calls[j]
<1>1. calls \in Seq(Upload!CallsOf) /\ Len(calls) \in Nat /\ DOMAIN calls = 1..Len(calls)
  BY DEF Upload!TypeOK
<1> QED BY <1>1, AppendProperties

\* Every step keeps the invariant: what the one call under way will find on the
\* page is still there, as long as no other overlaps it.
LEMMA UploadKeeps ==
  Upload!UploadInv /\ [Upload!Next]_upload => Upload!UploadInv'
<1> SUFFICES ASSUME Upload!UploadInv, [Upload!Next]_upload
             PROVE  Upload!UploadInv'
  OBVIOUS
<1>0. Upload!TypeOK /\ Upload!UrlInv /\ Upload!AloneInv
  BY DEF Upload!UploadInv
<1>1. ASSUME NEW works \in BOOLEAN, Upload!Mount(works)
      PROVE  Upload!UploadInv'
  <2>1. Upload!TypeOK'
    <3>1. Upload!FlagsOK'
      BY <1>0, <1>1, Zenon DEF Upload!Mount, Upload!TypeOK, Upload!FlagsOK, Upload!Others
    <3> QED BY <3>1, <1>0, <1>1 DEF Upload!Mount, Upload!TypeOK
  <2>2. Upload!UrlInv'
    BY <1>0, <1>1 DEF Upload!Mount, Upload!UrlInv, Upload!Numbers
  <2>3. Upload!AloneInv'
    BY <1>0, <1>1 DEF Upload!Mount, Upload!AloneInv, Upload!Numbers, Upload!ImageOf
  <2> QED BY <2>1, <2>2, <2>3 DEF Upload!UploadInv
<1>2. ASSUME NEW image \in Files, Upload!OnFile(image)
      PROVE  Upload!UploadInv'
  <2> DEFINE call == [at |-> "sealing", image |-> image, closure |-> {}]
             page == {origUrl, decUrl}
  <2>1. /\ Upload!Starts(image, page) /\ calls' = Append(calls, call)
        /\ overlapped' = (overlapped \/ Upload!Others(0)) /\ UNCHANGED <<ready, sealed>>
    BY <1>2 DEF Upload!OnFile
  <2>2. call \in Upload!CallsOf /\ image \in Upload!Images /\ Upload!Numbers(call.closure) = {}
        /\ call.at = "sealing" /\ call.image = image
    BY DEF Upload!CallsOf, Upload!Images, Upload!Numbers
  <2>3. Upload!Numbers(page) \subseteq 1..made
    BY <1>0 DEF Upload!UrlInv
  <2> HIDE DEF call, page
  <2>4. /\ busy' = TRUE /\ error' = FALSE /\ decUrl' = None /\ made' = made + 1
        /\ origUrl' \in Upload!Urls /\ Upload!ImageOf(origUrl)' = image
        /\ revoked' \subseteq 1..made' /\ 1..made \subseteq 1..made'
        /\ Upload!Numbers({origUrl, decUrl})' = {made'}
        /\ made' \in (1..made') \ revoked'
        /\ 1..made \ revoked = Upload!Numbers(page) => 1..made' \ revoked' = {made'}
    BY <1>0, <2>1, <2>2, <2>3, UploadRuns
  <2>5. /\ calls' \in Seq(Upload!CallsOf)
        /\ \A j \in DOMAIN calls' : j \notin DOMAIN calls => calls'[j] = call
        /\ \A j \in DOMAIN calls' : j \in DOMAIN calls => calls'[j] = calls[j]
        /\ \A j, k \in DOMAIN calls' : j \notin DOMAIN calls /\ k \notin DOMAIN calls => j = k
    BY <1>0, <2>1, <2>2, CallAdded
  <2>6. Upload!TypeOK'
    <3>1. Upload!FlagsOK'
      BY <1>0, <2>1, <2>4, <2>5, Zenon DEF Upload!TypeOK, Upload!FlagsOK, Upload!Others
    <3> QED BY <3>1, <1>0, <2>1, <2>4, <2>5 DEF Upload!TypeOK
  <2>7. Upload!UrlInv'
    BY <1>0, <2>2, <2>4, <2>5 DEF Upload!UrlInv
  <2>8. ASSUME ~overlapped'
        PROVE  ~overlapped /\ \A j \in DOMAIN calls : calls[j].at = "over"
    <3>1. ~overlapped /\ ~Upload!Others(0)
      BY <2>1, <2>8, Zenon
    <3>2. \A j \in DOMAIN calls : j # 0
      BY <1>0 DEF Upload!TypeOK
    <3> QED BY <3>1, <3>2 DEF Upload!Others
  <2>9. Upload!AloneInv'
    BY <1>0, <2>1, <2>2, <2>4, <2>5, <2>8 DEF Upload!AloneInv, page
  <2> QED BY <2>6, <2>7, <2>9 DEF Upload!UploadInv
<1>3. CASE Upload!UseSample
  <2> DEFINE call == [at |-> "fetching", image |-> Sample, closure |-> {origUrl, decUrl}]
  <2>1. /\ ~busy /\ calls' = Append(calls, call)
        /\ overlapped' = (overlapped \/ Upload!Others(0))
        /\ UNCHANGED <<ready, error, busy, origUrl, decUrl, sealed, made, revoked>>
    BY <1>3 DEF Upload!UseSample, Upload!Ready
  <2>2. call \in Upload!CallsOf /\ call.at = "fetching" /\ call.closure = {origUrl, decUrl}
        /\ call.image = Sample
    BY <1>0 DEF Upload!CallsOf, Upload!Images, Upload!TypeOK
  <2> HIDE DEF call
  <2>3. /\ calls' \in Seq(Upload!CallsOf)
        /\ \A j \in DOMAIN calls' : j \notin DOMAIN calls => calls'[j] = call
        /\ \A j \in DOMAIN calls' : j \in DOMAIN calls => calls'[j] = calls[j]
        /\ \A j, k \in DOMAIN calls' : j \notin DOMAIN calls /\ k \notin DOMAIN calls => j = k
    BY <1>0, <2>1, <2>2, CallAdded
  <2>4. Upload!Numbers({origUrl, decUrl})' = Upload!Numbers({origUrl, decUrl})
        /\ Upload!ImageOf(origUrl)' = Upload!ImageOf(origUrl)
        /\ Upload!ImageOf(decUrl)' = Upload!ImageOf(decUrl)
    BY <2>1 DEF Upload!Numbers, Upload!ImageOf
  <2>6. Upload!TypeOK'
    <3>1. Upload!FlagsOK'
      BY <1>0, <2>1, <2>3, Zenon DEF Upload!TypeOK, Upload!FlagsOK, Upload!Others
    <3> QED BY <3>1, <1>0, <2>1, <2>3 DEF Upload!TypeOK
  <2>7. Upload!UrlInv'
    BY <1>0, <2>1, <2>2, <2>3, <2>4 DEF Upload!UrlInv
  <2>8. ASSUME ~overlapped'
        PROVE  ~overlapped /\ \A j \in DOMAIN calls : calls[j].at = "over"
    <3>1. ~overlapped /\ ~Upload!Others(0)
      BY <2>1, <2>8, Zenon
    <3>2. \A j \in DOMAIN calls : j # 0
      BY <1>0 DEF Upload!TypeOK
    <3> QED BY <3>1, <3>2 DEF Upload!Others
  <2>9. Upload!AloneInv'
    BY <1>0, <2>1, <2>2, <2>3, <2>4, <2>8 DEF Upload!AloneInv
  <2> QED BY <2>6, <2>7, <2>9 DEF Upload!UploadInv
<1>4. ASSUME NEW i \in DOMAIN calls, Upload!SampleArrives(i)
      PROVE  Upload!UploadInv'
  <2>1. /\ calls[i].at = "fetching" /\ Upload!Starts(Sample, calls[i].closure)
        /\ calls' = [calls EXCEPT ![i].at = "sealing"] /\ UNCHANGED <<ready, sealed, overlapped>>
    BY <1>4 DEF Upload!SampleArrives
  <2>2. Sample \in Upload!Images /\ Upload!Numbers(calls[i].closure) \subseteq 1..made
    BY <1>0 DEF Upload!Images, Upload!UrlInv
  <2>3. /\ busy' = TRUE /\ error' = FALSE /\ decUrl' = None /\ made' = made + 1
        /\ origUrl' \in Upload!Urls /\ Upload!ImageOf(origUrl)' = Sample
        /\ revoked' \subseteq 1..made' /\ 1..made \subseteq 1..made'
        /\ Upload!Numbers({origUrl, decUrl})' = {made'}
        /\ made' \in (1..made') \ revoked'
        /\ 1..made \ revoked = Upload!Numbers(calls[i].closure) => 1..made' \ revoked' = {made'}
    BY <1>0, <2>1, <2>2, UploadRuns
  <2>4. /\ calls' \in Seq(Upload!CallsOf) /\ DOMAIN calls' = DOMAIN calls
        /\ \A j \in DOMAIN calls : /\ calls'[j].image = calls[j].image
                                   /\ calls'[j].closure = calls[j].closure
                                   /\ calls'[j].at = IF j = i THEN "sealing" ELSE calls[j].at
    BY <1>0, <2>1, CallMoves
  <2>5. calls[i].image = Sample
    BY <1>0, <2>1 DEF Upload!UrlInv
  <2>6. Upload!TypeOK'
    <3>1. Upload!FlagsOK'
      BY <1>0, <2>1, <2>3, <2>4, Zenon DEF Upload!TypeOK, Upload!FlagsOK, Upload!Others
    <3> QED BY <3>1, <1>0, <2>1, <2>3, <2>4 DEF Upload!TypeOK
  <2>7. Upload!UrlInv'
    BY <1>0, <2>3, <2>4 DEF Upload!UrlInv
  <2>8. Upload!AloneInv'
    <3> SUFFICES ASSUME ~overlapped'
                 PROVE  /\ 1..made' \ revoked' = Upload!Numbers({origUrl, decUrl})'
                        /\ \A j, k \in DOMAIN calls :
                               calls'[j].at # "over" /\ calls'[k].at # "over" => j = k
                        /\ \A j \in DOMAIN calls :
                               /\ calls'[j].at = "fetching" =>
                                      calls'[j].closure = {origUrl', decUrl'} /\ ~busy'
                               /\ calls'[j].at = "sealing" =>
                                      /\ busy' /\ decUrl' = None
                                      /\ Upload!ImageOf(origUrl)' = calls'[j].image
                        /\ ~busy' /\ ~error' => /\ Upload!ImageOf(origUrl)' = sealed'
                                                /\ Upload!ImageOf(decUrl)' = sealed'
      BY <1>0, <2>1, <2>3, <2>4, <2>5 DEF Upload!AloneInv
    <3>1. /\ 1..made \ revoked = Upload!Numbers({origUrl, decUrl})
          /\ \A j, k \in DOMAIN calls : calls[j].at # "over" /\ calls[k].at # "over" => j = k
          /\ \A j \in DOMAIN calls :
                 /\ calls[j].at = "fetching" => calls[j].closure = {origUrl, decUrl} /\ ~busy
                 /\ calls[j].at = "sealing" => /\ busy /\ decUrl = None
                                               /\ Upload!ImageOf(origUrl) = calls[j].image
          /\ ~busy /\ ~error => /\ Upload!ImageOf(origUrl) = sealed
                                /\ Upload!ImageOf(decUrl) = sealed
      BY <1>0, <2>1 DEF Upload!AloneInv
    <3>2. 1..made' \ revoked' = Upload!Numbers({origUrl, decUrl})'
      BY <3>1, <2>1, <2>3, <2>4, <2>5
    <3>3. \A j, k \in DOMAIN calls : calls'[j].at # "over" /\ calls'[k].at # "over" => j = k
      BY <3>1, <2>1, <2>3, <2>4, <2>5
    <3>4. ASSUME NEW j \in DOMAIN calls, calls'[j].at = "fetching"
          PROVE  calls'[j].closure = {origUrl', decUrl'} /\ ~busy'
      BY <3>1, <3>4, <2>1, <2>3, <2>4, <2>5
    <3>5. ASSUME NEW j \in DOMAIN calls, calls'[j].at = "sealing"
          PROVE  busy' /\ decUrl' = None /\ Upload!ImageOf(origUrl)' = calls'[j].image
      BY <3>1, <3>5, <2>1, <2>3, <2>4, <2>5
    <3>6. ASSUME ~busy', ~error'
          PROVE  Upload!ImageOf(origUrl)' = sealed' /\ Upload!ImageOf(decUrl)' = sealed'
      BY <3>1, <3>6, <2>1, <2>3, <2>4, <2>5
    <3> QED BY <3>2, <3>3, <3>4, <3>5, <3>6
  <2> QED BY <2>6, <2>7, <2>8 DEF Upload!UploadInv
<1>5. ASSUME NEW i \in DOMAIN calls, Upload!SampleFails(i) \/ Upload!SealFails(i)
      PROVE  Upload!UploadInv'
  <2>1. /\ calls' = [calls EXCEPT ![i].at = "over"]
        /\ \/ error' = error /\ busy' = busy
           \/ calls[i].at = "sealing" /\ error' = TRUE /\ busy' = FALSE
        /\ UNCHANGED <<ready, origUrl, decUrl, sealed, made, revoked, overlapped>>
    BY <1>5 DEF Upload!SampleFails, Upload!SealFails
  <2>2. /\ calls' \in Seq(Upload!CallsOf) /\ DOMAIN calls' = DOMAIN calls
        /\ \A j \in DOMAIN calls : /\ calls'[j].image = calls[j].image
                                   /\ calls'[j].closure = calls[j].closure
                                   /\ calls'[j].at = IF j = i THEN "over" ELSE calls[j].at
    BY <1>0, <2>1, CallMoves
  <2>3. Upload!Numbers({origUrl, decUrl})' = Upload!Numbers({origUrl, decUrl})
        /\ Upload!ImageOf(origUrl)' = Upload!ImageOf(origUrl)
        /\ Upload!ImageOf(decUrl)' = Upload!ImageOf(decUrl)
    BY <2>1 DEF Upload!Numbers, Upload!ImageOf
  <2>4. Upload!TypeOK'
    <3>1. Upload!FlagsOK'
      BY <1>0, <2>1, <2>2, Zenon DEF Upload!TypeOK, Upload!FlagsOK, Upload!Others
    <3> QED BY <3>1, <1>0, <2>1, <2>2 DEF Upload!TypeOK
  <2>5. Upload!UrlInv'
    <3>1. /\ revoked \subseteq 1..made /\ Upload!Numbers({origUrl, decUrl}) \subseteq 1..made \ revoked
          /\ \A j \in DOMAIN calls : /\ Upload!Numbers(calls[j].closure) \subseteq 1..made
                                     /\ calls[j].at = "fetching" => calls[j].image = Sample
      BY <1>0 DEF Upload!UrlInv
    <3>2. /\ revoked' \subseteq 1..made'
          /\ Upload!Numbers({origUrl, decUrl})' \subseteq 1..made' \ revoked'
      BY <2>1, <2>3, <3>1
    <3>3. ASSUME NEW j \in DOMAIN calls
          PROVE  /\ Upload!Numbers(calls'[j].closure) \subseteq 1..made'
                 /\ calls'[j].at = "fetching" => calls'[j].image = Sample
      BY <2>1, <2>2, <3>1
    <3> QED BY <2>2, <3>2, <3>3 DEF Upload!UrlInv
  <2>6. Upload!AloneInv'
    <3> SUFFICES ASSUME ~overlapped'
                 PROVE  /\ 1..made' \ revoked' = Upload!Numbers({origUrl, decUrl})'
                        /\ \A j, k \in DOMAIN calls :
                               calls'[j].at # "over" /\ calls'[k].at # "over" => j = k
                        /\ \A j \in DOMAIN calls :
                               /\ calls'[j].at = "fetching" =>
                                      calls'[j].closure = {origUrl', decUrl'} /\ ~busy'
                               /\ calls'[j].at = "sealing" =>
                                      /\ busy' /\ decUrl' = None
                                      /\ Upload!ImageOf(origUrl)' = calls'[j].image
                        /\ ~busy' /\ ~error' => /\ Upload!ImageOf(origUrl)' = sealed'
                                                /\ Upload!ImageOf(decUrl)' = sealed'
      BY <1>0, <2>1, <2>2, <2>3 DEF Upload!AloneInv
    <3>1. /\ 1..made \ revoked = Upload!Numbers({origUrl, decUrl})
          /\ \A j, k \in DOMAIN calls : calls[j].at # "over" /\ calls[k].at # "over" => j = k
          /\ \A j \in DOMAIN calls :
                 /\ calls[j].at = "fetching" => calls[j].closure = {origUrl, decUrl} /\ ~busy
                 /\ calls[j].at = "sealing" => /\ busy /\ decUrl = None
                                               /\ Upload!ImageOf(origUrl) = calls[j].image
          /\ ~busy /\ ~error => /\ Upload!ImageOf(origUrl) = sealed
                                /\ Upload!ImageOf(decUrl) = sealed
      BY <1>0, <2>1 DEF Upload!AloneInv
    <3>2. 1..made' \ revoked' = Upload!Numbers({origUrl, decUrl})'
      BY <3>1, <2>1, <2>2, <2>3
    <3>3. \A j, k \in DOMAIN calls : calls'[j].at # "over" /\ calls'[k].at # "over" => j = k
      BY <3>1, <2>1, <2>2, <2>3
    <3>4. ASSUME NEW j \in DOMAIN calls, calls'[j].at = "fetching"
          PROVE  calls'[j].closure = {origUrl', decUrl'} /\ ~busy'
      BY <3>1, <3>4, <2>1, <2>2, <2>3
    <3>5. ASSUME NEW j \in DOMAIN calls, calls'[j].at = "sealing"
          PROVE  busy' /\ decUrl' = None /\ Upload!ImageOf(origUrl)' = calls'[j].image
      BY <3>1, <3>5, <2>1, <2>2, <2>3
    <3>6. ASSUME ~busy', ~error'
          PROVE  Upload!ImageOf(origUrl)' = sealed' /\ Upload!ImageOf(decUrl)' = sealed'
      BY <3>1, <3>6, <2>1, <2>2, <2>3
    <3> QED BY <3>2, <3>3, <3>4, <3>5, <3>6
  <2> QED BY <2>4, <2>5, <2>6 DEF Upload!UploadInv
<1>6. ASSUME NEW i \in DOMAIN calls, Upload!Sealed(i)
      PROVE  Upload!UploadInv'
  <2>1. /\ calls[i].at = "sealing" /\ calls' = [calls EXCEPT ![i].at = "over"]
        /\ sealed' = calls[i].image /\ made' = made + 1
        /\ decUrl' = Upload!Url(calls[i].image, made + 1) /\ busy' = FALSE
        /\ UNCHANGED <<ready, error, origUrl, revoked, overlapped>>
    BY <1>6 DEF Upload!Sealed
  <2>2. /\ calls' \in Seq(Upload!CallsOf) /\ DOMAIN calls' = DOMAIN calls
        /\ calls[i].image \in Upload!Images
        /\ \A j \in DOMAIN calls : /\ calls'[j].image = calls[j].image
                                   /\ calls'[j].closure = calls[j].closure
                                   /\ calls'[j].at = IF j = i THEN "over" ELSE calls[j].at
    BY <1>0, <2>1, CallMoves
  <2>3. /\ made \in Nat /\ made' \in Nat /\ 1..made' = 1..made \cup {made'} /\ made' \notin 1..made
    BY <1>0, <2>1 DEF Upload!TypeOK
  <2>4. decUrl' \in Upload!Urls /\ decUrl' # None /\ decUrl'.image = calls[i].image
    BY <2>1, <2>2, <2>3, NumbersOf
  <2>5. Upload!Numbers({origUrl, decUrl})' = {made'} \cup Upload!Numbers({origUrl})
    <3>1. \A url : Upload!Numbers({Upload!Url(calls[i].image, made'), url})
                     = {made'} \cup Upload!Numbers({url})
      BY <2>2, <2>3, NumbersOf
    <3>2. Upload!Numbers({origUrl, decUrl})'
            = Upload!Numbers({Upload!Url(calls[i].image, made'), origUrl})
      BY <2>1 DEF Upload!Numbers
    <3> QED BY <3>1, <3>2
  <2>6. /\ Upload!Numbers({origUrl}) \subseteq Upload!Numbers({origUrl, decUrl})
        /\ decUrl = None => Upload!Numbers({origUrl}) = Upload!Numbers({origUrl, decUrl})
    BY DEF Upload!Numbers
  <2>7. Upload!TypeOK'
    <3>1. Upload!FlagsOK'
      BY <1>0, <2>1, <2>2, <2>3, <2>4, Zenon DEF Upload!TypeOK, Upload!FlagsOK, Upload!Others
    <3> QED BY <3>1, <1>0, <2>1, <2>2, <2>3, <2>4 DEF Upload!TypeOK
  <2>8. revoked \subseteq 1..made
    BY <1>0 DEF Upload!UrlInv
  <2>9. Upload!UrlInv'
    <3>1. /\ Upload!Numbers({origUrl, decUrl}) \subseteq 1..made \ revoked
          /\ \A j \in DOMAIN calls : /\ Upload!Numbers(calls[j].closure) \subseteq 1..made
                                     /\ calls[j].at = "fetching" => calls[j].image = Sample
      BY <1>0 DEF Upload!UrlInv
    <3>2. /\ revoked' \subseteq 1..made'
          /\ Upload!Numbers({origUrl, decUrl})' \subseteq 1..made' \ revoked'
      BY <2>1, <2>3, <2>5, <2>6, <2>8, <3>1
    <3>3. ASSUME NEW j \in DOMAIN calls
          PROVE  /\ Upload!Numbers(calls'[j].closure) \subseteq 1..made'
                 /\ calls'[j].at = "fetching" => calls'[j].image = Sample
      BY <2>2, <2>3, <3>1
    <3> QED BY <2>2, <3>2, <3>3 DEF Upload!UrlInv
  <2>10. Upload!ImageOf(origUrl)' = Upload!ImageOf(origUrl)
         /\ Upload!ImageOf(decUrl)' = calls[i].image
    BY <2>1, <2>4 DEF Upload!ImageOf
  <2>11. Upload!AloneInv'
    <3> SUFFICES ASSUME ~overlapped'
                 PROVE  /\ 1..made' \ revoked' = Upload!Numbers({origUrl, decUrl})'
                        /\ \A j, k \in DOMAIN calls :
                               calls'[j].at # "over" /\ calls'[k].at # "over" => j = k
                        /\ \A j \in DOMAIN calls :
                               /\ calls'[j].at = "fetching" =>
                                      calls'[j].closure = {origUrl', decUrl'} /\ ~busy'
                               /\ calls'[j].at = "sealing" =>
                                      /\ busy' /\ decUrl' = None
                                      /\ Upload!ImageOf(origUrl)' = calls'[j].image
                        /\ ~busy' /\ ~error' => /\ Upload!ImageOf(origUrl)' = sealed'
                                                /\ Upload!ImageOf(decUrl)' = sealed'
      BY <1>0, <2>1, <2>2, <2>3, <2>5, <2>6, <2>8, <2>10 DEF Upload!AloneInv
    <3>1. /\ 1..made \ revoked = Upload!Numbers({origUrl, decUrl})
          /\ \A j, k \in DOMAIN calls : calls[j].at # "over" /\ calls[k].at # "over" => j = k
          /\ \A j \in DOMAIN calls :
                 /\ calls[j].at = "fetching" => calls[j].closure = {origUrl, decUrl} /\ ~busy
                 /\ calls[j].at = "sealing" => /\ busy /\ decUrl = None
                                               /\ Upload!ImageOf(origUrl) = calls[j].image
          /\ ~busy /\ ~error => /\ Upload!ImageOf(origUrl) = sealed
                                /\ Upload!ImageOf(decUrl) = sealed
      BY <1>0, <2>1 DEF Upload!AloneInv
    <3>2. 1..made' \ revoked' = Upload!Numbers({origUrl, decUrl})'
      BY <3>1, <2>1, <2>2, <2>3, <2>5, <2>6, <2>8, <2>10
    <3>3. \A j, k \in DOMAIN calls : calls'[j].at # "over" /\ calls'[k].at # "over" => j = k
      BY <3>1, <2>1, <2>2, <2>3, <2>5, <2>6, <2>8, <2>10
    <3>4. ASSUME NEW j \in DOMAIN calls, calls'[j].at = "fetching"
          PROVE  calls'[j].closure = {origUrl', decUrl'} /\ ~busy'
      BY <3>1, <3>4, <2>1, <2>2, <2>3, <2>5, <2>6, <2>8, <2>10
    <3>5. ASSUME NEW j \in DOMAIN calls, calls'[j].at = "sealing"
          PROVE  busy' /\ decUrl' = None /\ Upload!ImageOf(origUrl)' = calls'[j].image
      BY <3>1, <3>5, <2>1, <2>2, <2>3, <2>5, <2>6, <2>8, <2>10
    <3>6. ASSUME ~busy', ~error'
          PROVE  Upload!ImageOf(origUrl)' = sealed' /\ Upload!ImageOf(decUrl)' = sealed'
      BY <3>1, <3>6, <2>1, <2>2, <2>3, <2>5, <2>6, <2>8, <2>10
    <3> QED BY <3>2, <3>3, <3>4, <3>5, <3>6
  <2> QED BY <2>7, <2>9, <2>11 DEF Upload!UploadInv
<1>7. CASE UNCHANGED upload
  <2>1. Upload!TypeOK'
    <3>1. Upload!FlagsOK'
      BY <1>0, <1>7, Zenon DEF upload, Upload!TypeOK, Upload!FlagsOK, Upload!Others
    <3> QED BY <3>1, <1>0, <1>7 DEF upload, Upload!TypeOK
  <2>2. Upload!UrlInv'
    BY <1>0, <1>7 DEF upload, Upload!UrlInv, Upload!Numbers
  <2>3. Upload!AloneInv'
    BY <1>0, <1>7 DEF upload, Upload!AloneInv, Upload!Numbers, Upload!ImageOf
  <2> QED BY <2>1, <2>2, <2>3 DEF Upload!UploadInv
<1> QED BY <1>1, <1>2, <1>3, <1>4, <1>5, <1>6, <1>7 DEF Upload!Next

\* The three panels, of which the property speaks by name, one by one.
LEMMA UploadShows == Upload!UploadInv => Upload!ImagesAgree
<1> SUFFICES ASSUME Upload!UploadInv PROVE Upload!ImagesAgree
  OBVIOUS
<1>1. DOMAIN Upload!Panels = {"original", "ciphertext", "decrypted"}
      /\ Upload!Panels["original"] = Upload!ImageOf(origUrl)
      /\ Upload!Panels["ciphertext"] = sealed
      /\ Upload!Panels["decrypted"] = Upload!ImageOf(decUrl)
  BY DEF Upload!Panels
<1> QED BY <1>1 DEF Upload!UploadInv, Upload!UrlInv, Upload!AloneInv, Upload!ImagesAgree


-----------------------------------------------------------------------------
(***************************************************************************)
(* DocsSidebar.                                                            *)
(***************************************************************************)

\* Each entry of the index is of a page the sidebar links to.
LEMMA IndexPages ==
    /\ DOMAIN Docs!DOCS_INDEX = 1..30
    /\ \A i \in DOMAIN Docs!DOCS_INDEX : Docs!DOCS_INDEX[i] \in Docs!Groups
<1>1. DOMAIN Docs!DOCS_INDEX = 1..30
  BY DEF Docs!DOCS_INDEX
<1>2. Docs!DOCS_INDEX \in Seq(Docs!Groups)
  BY DEF Docs!DOCS_INDEX, Docs!Groups
<1>3. \A s \in Seq(Docs!Groups) : \A i \in DOMAIN s : s[i] \in Docs!Groups
  OBVIOUS
<1> QED BY <1>1, <1>2, <1>3, Zenon

\* Results are counted: there are finitely many.
LEMMA ResultsCounted ==
    ASSUME NEW S \in SUBSET DOMAIN Docs!DOCS_INDEX
    PROVE  Docs!Cardinality(S) \in Nat /\ (S # {} => Docs!Cardinality(S) # 0)
<1>1. 1 \in Int /\ 30 \in Int
  OBVIOUS
<1>2. IsFiniteSet(1..30)
  BY <1>1, FS_Interval, Zenon
<1>3. IsFiniteSet(S)
  BY <1>2, IndexPages, FS_Subset, Zenon
<1>4. Cardinality(S) \in Nat /\ (S # {} => Cardinality(S) # 0)
  BY <1>3, FS_CardinalityType, FS_EmptySet, Zenon
<1>5. Docs!Cardinality(S) = Cardinality(S)
  BY Zenon DEF Docs!Cardinality, Cardinality
<1> QED BY <1>4, <1>5

\* A reader of the sidebar never follows a link out of it.
LEMMA SidebarStarts == Docs!Init => Docs!SidebarInv
BY DEF Docs!Init, Docs!SidebarInv, Docs!Latest, Docs!SearchResults

\* Every step keeps the invariant.
LEMMA SidebarKeeps == Docs!SidebarInv /\ [Docs!Next]_docs => Docs!SidebarInv'
<1> SUFFICES ASSUME Docs!SidebarInv, [Docs!Next]_docs
             PROVE  Docs!SidebarInv'
  OBVIOUS
<1> DEFINE PathOK(p) == /\ p \in [v2 : BOOLEAN, page : Docs!Groups]
                        /\ p.v2 => p.page \notin Docs!VERSION_INDEPENDENT
<1>1. /\ PathOK(path) /\ active \in Nat
      /\ Docs!SearchResults # {} => active \in 0..(Docs!Cardinality(Docs!SearchResults) - 1)
  BY DEF Docs!SidebarInv
<1>2. Docs!SearchResults \subseteq DOMAIN Docs!DOCS_INDEX
      /\ Docs!SearchResults' \subseteq DOMAIN Docs!DOCS_INDEX
  BY DEF Docs!SearchResults
<1>3. \A page \in Docs!Groups :
          /\ PathOK(Docs!Latest(page))
          /\ page \notin Docs!VERSION_INDEPENDENT => PathOK(Docs!V2(page))
  BY DEF Docs!Latest, Docs!V2
<1>4. "" \in Docs!Groups /\ "" \notin Docs!VERSION_INDEPENDENT
  BY DEF Docs!Groups, Docs!VERSION_INDEPENDENT
<1>5. query' = query => Docs!SearchResults' = Docs!SearchResults
  BY DEF Docs!SearchResults, Docs!Before
<1>6. ASSUME PathOK(path'), active' \in Nat,
             Docs!SearchResults' # {} => active' \in 0..(Docs!Cardinality(Docs!SearchResults') - 1)
      PROVE  Docs!SidebarInv'
  BY <1>6 DEF Docs!SidebarInv
<1>7. ASSUME NEW q, Docs!Search(q)
      PROVE  /\ active' \in Nat
             /\ Docs!SearchResults' # {} =>
                    active' \in 0..(Docs!Cardinality(Docs!SearchResults') - 1)
  BY <1>2, <1>7, ResultsCounted DEF Docs!Search
<1>8. ASSUME path' = path \/ \E page \in Docs!Groups : path' = Docs!Latest(page)
      PROVE  PathOK(path')
  BY <1>1, <1>3, <1>8
<1> HIDE DEF PathOK
<1>9. ASSUME NEW page \in Docs!Groups, Docs!FollowLink(page)
      PROVE  Docs!SidebarInv'
  <2>1. PathOK(path')
    BY <1>3, <1>9 DEF Docs!FollowLink, Docs!WithVersion
  <2> QED BY <2>1, <1>1, <1>5, <1>6, <1>9 DEF Docs!FollowLink
<1>10. CASE Docs!SwitchVersion
  <2>1. path.page \in Docs!Groups
    BY <1>1 DEF PathOK
  <2>2. PathOK(path')
    BY <1>3, <1>4, <1>10, <2>1 DEF Docs!SwitchVersion
  <2> QED BY <2>2, <1>1, <1>5, <1>6, <1>10 DEF Docs!SwitchVersion
<1>11. CASE Docs!Focus \/ Docs!Dismiss
  BY <1>1, <1>5, <1>6, <1>11 DEF Docs!Focus, Docs!Dismiss
<1>12. ASSUME NEW q \in Queries, Docs!Type(q)
       PROVE  Docs!SidebarInv'
  BY <1>6, <1>7, <1>8, <1>12 DEF Docs!Type
<1>13. ASSUME NEW down \in BOOLEAN, Docs!Arrow(down)
       PROVE  Docs!SidebarInv'
  <2> DEFINE n == Docs!Cardinality(Docs!SearchResults)
             to == IF down THEN active + 1 ELSE active + n - 1
  <2>1. /\ Docs!SearchResults # {} /\ UNCHANGED <<path, query>> /\ active' = to % n
    BY <1>13 DEF Docs!Arrow
  <2>2. n \in Nat \ {0} /\ to \in Nat
    BY <1>1, <1>2, <2>1, ResultsCounted
  <2>3. to % n \in 0..(n - 1)
    BY <2>2
  <2>4. active' \in Nat /\ active' \in 0..(Docs!Cardinality(Docs!SearchResults') - 1)
    BY <1>5, <2>1, <2>2, <2>3
  <2> QED BY <1>6, <1>8, <2>1, <2>4
<1>14. ASSUME NEW i \in Docs!SearchResults, Docs!Open(i)
       PROVE  Docs!SidebarInv'
  BY <1>2, <1>6, <1>7, <1>8, <1>14, IndexPages DEF Docs!Open
<1>15. CASE UNCHANGED docs
  BY <1>1, <1>5, <1>6, <1>15 DEF docs
<1> QED BY <1>9, <1>10, <1>11, <1>12, <1>13, <1>14, <1>15
        DEF Docs!Next, Docs!Enter, Docs!ClickResult

\* The pages there are include those the invariant allows.
LEMMA SidebarLeads == Docs!SidebarInv => Docs!LinksLeadToPages
BY VersionsAssumption DEF Docs!SidebarInv, Docs!LinksLeadToPages

-----------------------------------------------------------------------------
(***************************************************************************)
(* Sums over finite sets, as the metrics of the feedback make them.  An    *)
(* induction is the choice of a least counterexample, of which the         *)
(* library's theorem WFMin says that there is one.                         *)
(***************************************************************************)

\* sums[s] is what MapThenSumSet makes of weight over a subset s of S.
SumsOf(sums, weight, S) ==
    \A s \in SUBSET S :
        sums[s] = IF s = {} THEN 0
                  ELSE weight[CHOOSE x \in s : TRUE] + sums[s \ {CHOOSE x \in s : TRUE}]

\* The same, as the recursive function it is.
AddUp(sums, weight, S) ==
    sums = [s \in SUBSET S |->
               IF s = {} THEN 0
               ELSE weight[CHOOSE x \in s : TRUE] + sums[s \ {CHOOSE x \in s : TRUE}]]

\* Any set of natural numbers has a least one.
LEMMA LeastNat ==
  ASSUME NEW T, T \subseteq Nat, T # {}
  PROVE  \E n \in T : \A m \in T : n <= m
<1>1. PICK n \in T : \A m \in T : <<m, n>> \notin OpToRel(<, Nat)
  BY NatLessThanWellFounded, WFMin
<1>2. \A m \in T : ~(m < n)
  BY <1>1 DEF OpToRel
<1> QED BY <1>2

\* Any set of subsets of a finite set has one that contains no other.
LEMMA LeastSubset ==
  ASSUME NEW S, IsFiniteSet(S), NEW T, T \subseteq SUBSET S, T # {}
  PROVE  \E s \in T : \A t \in T : t \subseteq s => t = s
<1>1. PICK s \in T : \A t \in T : <<t, s>> \notin StrictSubsetOrdering(S)
  BY FS_StrictSubsetOrderingWellFounded, FS_FiniteSubsetsOfFinite, WFMin
<1> QED BY <1>1 DEF StrictSubsetOrdering

\* The recursion has a solution.
LEMMA SumsExist ==
  ASSUME NEW S, IsFiniteSet(S), NEW weight
  PROVE  \E sums : AddUp(sums, weight, S)
<1> DEFINE Pick(s) == CHOOSE x \in s : TRUE
           Sum(f, s) == IF s = {} THEN 0 ELSE weight[Pick(s)] + f[s \ {Pick(s)}]
           Upto(f, n) == \A s \in SUBSET S : Cardinality(s) <= n => f[s] = Sum(f, s)
           Bad == {n \in Nat : ~ \E f : Upto(f, n)}
<1>0. \A s \in SUBSET S : s # {} => Pick(s) \in s
  OBVIOUS
<1> HIDE DEF Pick
<1>1. \A s \in SUBSET S : IsFiniteSet(s) /\ Cardinality(s) \in Nat
                          /\ Cardinality(s) <= Cardinality(S)
                          /\ (Cardinality(s) = 0 => s = {})
  BY FS_Subset, FS_CardinalityType, FS_EmptySet
<1>2. \A s \in SUBSET S : s # {} => /\ s \ {Pick(s)} \in SUBSET S
                                    /\ Cardinality(s \ {Pick(s)}) = Cardinality(s) - 1
  BY <1>0, <1>1, FS_RemoveElement
<1>3. Bad = {}
  <2> SUFFICES ASSUME Bad # {} PROVE FALSE
    OBVIOUS
  <2>1. PICK n \in Bad : \A m \in Bad : n <= m
    BY LeastNat
  <2>2. n # 0
    <3> DEFINE zero == [s \in SUBSET S |-> 0]
    <3>1. ASSUME NEW s \in SUBSET S, Cardinality(s) <= 0 PROVE zero[s] = Sum(zero, s)
      <4>1. s = {}
        BY <1>1, <3>1
      <4> QED BY <4>1
    <3>2. Upto(zero, 0)
      BY <3>1
    <3> HIDE DEF zero
    <3> QED BY <3>2, <2>1
  <2>3. n \in Nat /\ n - 1 \in Nat
    BY <2>2
  <2>a. n - 1 \notin Bad
    <3> HIDE DEF Bad
    <3> QED BY <2>1, <2>3
  <2>4. PICK f : Upto(f, n - 1)
    <3> HIDE DEF Upto
    <3> QED BY <2>3, <2>a
  <2> DEFINE g == [s \in SUBSET S |-> Sum(f, s)]
  <2>5. ASSUME NEW s \in SUBSET S, Cardinality(s) <= n
        PROVE  g[s] = Sum(g, s)
    <3>1. CASE s = {}
      BY <3>1
    <3>2. CASE s # {}
      <4>1. s \ {Pick(s)} \in SUBSET S /\ Cardinality(s \ {Pick(s)}) <= n - 1
        <5> HIDE DEF g, Bad
        <5>1. /\ s \ {Pick(s)} \in SUBSET S
              /\ Cardinality(s \ {Pick(s)}) = Cardinality(s) - 1
          BY <1>2, <3>2
        <5>2. Cardinality(s) \in Nat
          BY <1>1
        <5> QED BY <5>1, <5>2, <2>3, <2>5
      <4>2. f[s \ {Pick(s)}] = g[s \ {Pick(s)}]
        BY <2>4, <4>1
      <4>3. g[s] = weight[Pick(s)] + f[s \ {Pick(s)}]
        BY <3>2
      <4> HIDE DEF g
      <4> QED BY <3>2, <4>2, <4>3
    <3> QED BY <3>1, <3>2
  <2>6. Upto(g, n)
    BY <2>5
  <2> HIDE DEF g
  <2> QED BY <2>1, <2>6
<1>4. PICK f : Upto(f, Cardinality(S))
  BY <1>1, <1>3
<1> DEFINE sums == [s \in SUBSET S |-> Sum(f, s)]
<1>5. ASSUME NEW s \in SUBSET S PROVE sums[s] = f[s]
  BY <1>1, <1>4
<1>6. ASSUME NEW s \in SUBSET S PROVE Sum(f, s) = Sum(sums, s)
  <2>1. s # {} => s \ {Pick(s)} \in SUBSET S
    OBVIOUS
  <2> HIDE DEF sums
  <2> QED BY <2>1, <1>5
<1>7. sums = [s \in SUBSET S |-> Sum(sums, s)]
  BY <1>6
<1> HIDE DEF sums
<1> QED BY <1>7 DEF Pick, AddUp

\* Sums of natural numbers are natural numbers, and it does not matter which
\* element is added last.
LEMMA SumSplits ==
  ASSUME NEW S, IsFiniteSet(S), NEW weight, \A x \in S : weight[x] \in Nat,
         NEW sums, SumsOf(sums, weight, S)
  PROVE  \A s \in SUBSET S : /\ sums[s] \in Nat
                             /\ \A x \in s : sums[s] = weight[x] + sums[s \ {x}]
<1> DEFINE Pick(s) == CHOOSE x \in s : TRUE
           Good(s) == /\ sums[s] \in Nat
                      /\ \A x \in s : sums[s] = weight[x] + sums[s \ {x}]
           Bad == {s \in SUBSET S : ~Good(s)}
<1>0. \A s \in SUBSET S : s # {} => Pick(s) \in s
  OBVIOUS
<1>1. sums[{}] = 0 /\ \A s \in SUBSET S : s # {} => sums[s] = weight[Pick(s)] + sums[s \ {Pick(s)}]
  BY DEF SumsOf
<1> HIDE DEF Pick
<1> SUFFICES ASSUME Bad # {} PROVE FALSE
  OBVIOUS
<1> HIDE DEF Good
<1>b. Bad \subseteq SUBSET S
  OBVIOUS
<1>2. PICK s \in Bad : \A t \in Bad : t \subseteq s => t = s
  <2> HIDE DEF Bad
  <2> QED BY <1>b, LeastSubset
<1>3. s \in SUBSET S /\ ~Good(s) /\ \A t \in SUBSET s : t # s => Good(t)
  BY <1>2
<1> HIDE DEF Bad
<1> USE DEF Good
<1>4. s # {}
  <2>1. Good({})
    BY <1>1
  <2> QED BY <2>1, <1>3
<1>a. \A x \in s : x \in S /\ s \ {x} \in SUBSET s /\ s \ {x} # s
  BY <1>3
<1>5. sums[s] \in Nat
  <2>1. Pick(s) \in s /\ sums[s \ {Pick(s)}] \in Nat
    <3>1. Pick(s) \in s
      BY <1>0, <1>3, <1>4
    <3> QED BY <3>1, <1>3, <1>a
  <2>2. weight[Pick(s)] \in Nat /\ sums[s] = weight[Pick(s)] + sums[s \ {Pick(s)}]
    BY <2>1, <1>1, <1>3, <1>4, <1>a
  <2> QED BY <2>1, <2>2
<1>6. ASSUME NEW x \in s PROVE sums[s] = weight[x] + sums[s \ {x}]
  <2> DEFINE c == Pick(s)
  <2>1. c \in s /\ sums[s] = weight[c] + sums[s \ {c}]
    BY <1>0, <1>1, <1>3, <1>4
  <2> HIDE DEF c
  <2>2. CASE x = c
    BY <2>1, <2>2
  <2>3. CASE x # c
    <3>1. sums[s \ {c}] = weight[x] + sums[(s \ {c}) \ {x}]
      <4>1. s \ {c} \in SUBSET s /\ s \ {c} # s /\ x \in s \ {c}
        BY <2>1, <2>3
      <4> QED BY <1>3, <4>1
    <3>2. sums[s \ {x}] = weight[c] + sums[(s \ {x}) \ {c}]
      <4>1. s \ {x} \in SUBSET s /\ s \ {x} # s /\ c \in s \ {x}
        BY <2>1, <2>3
      <4> QED BY <1>3, <4>1
    <3>3. (s \ {c}) \ {x} = (s \ {x}) \ {c}
      OBVIOUS
    <3>4. /\ weight[x] \in Nat /\ weight[c] \in Nat
          /\ sums[s \ {x}] \in Nat /\ sums[s \ {c}] \in Nat
      BY <1>3, <2>1
    <3>5. sums[(s \ {x}) \ {c}] \in Nat
      BY <1>3, <2>1
    <3> QED BY <2>1, <3>1, <3>2, <3>3, <3>4, <3>5
  <2> QED BY <2>2, <2>3
<1> QED BY <1>3, <1>5, <1>6

\* Equal weights have equal sums, whatever set they are taken from.
LEMMA SumsAgree ==
  ASSUME NEW S, NEW T, NEW f, NEW g, NEW v, NEW w, SumsOf(f, v, S), SumsOf(g, w, T),
         NEW C, IsFiniteSet(C), C \subseteq S, C \subseteq T, \A x \in C : v[x] = w[x]
  PROVE  f[C] = g[C]
<1> DEFINE Pick(s) == CHOOSE x \in s : TRUE
           Bad == {s \in SUBSET C : f[s] # g[s]}
<1>1. \A s \in SUBSET C : s # {} => Pick(s) \in s
  OBVIOUS
<1>2. /\ f[{}] = 0 /\ g[{}] = 0
      /\ \A s \in SUBSET C : s # {} => /\ f[s] = v[Pick(s)] + f[s \ {Pick(s)}]
                                       /\ g[s] = w[Pick(s)] + g[s \ {Pick(s)}]
  BY DEF SumsOf
<1> HIDE DEF Pick
<1> SUFFICES ASSUME Bad # {} PROVE FALSE
  OBVIOUS
<1>3. PICK s \in Bad : \A t \in Bad : t \subseteq s => t = s
  <2>1. Bad \subseteq SUBSET C
    OBVIOUS
  <2> HIDE DEF Bad
  <2> QED BY <2>1, LeastSubset
<1>4. s \in SUBSET C /\ f[s] # g[s]
  OBVIOUS
<1>5. s # {}
  BY <1>2, <1>4
<1>6. Pick(s) \in s /\ s \ {Pick(s)} \in SUBSET C /\ s \ {Pick(s)} # s
  BY <1>1, <1>4, <1>5
<1>7. f[s \ {Pick(s)}] = g[s \ {Pick(s)}]
  BY <1>3, <1>6
<1>8. v[Pick(s)] = w[Pick(s)]
  BY <1>4, <1>6
<1> HIDE DEF Bad
<1> QED BY <1>2, <1>4, <1>5, <1>7, <1>8

\* Nothing adds up to nothing.
LEMMA SumsOfNothing ==
  ASSUME NEW S, IsFiniteSet(S), NEW weight, \A x \in S : weight[x] = 0,
         NEW sums, SumsOf(sums, weight, S)
  PROVE  sums[S] = 0
<1> DEFINE zero == [s \in SUBSET S |-> 0]
<1>1. SumsOf(zero, weight, S)
  <2> SUFFICES ASSUME NEW s \in SUBSET S, s # {}
               PROVE  0 = weight[CHOOSE x \in s : TRUE] + 0
    BY DEF SumsOf
  <2>1. (CHOOSE x \in s : TRUE) \in S
    OBVIOUS
  <2> QED BY <2>1
<1>2. sums[S] = zero[S]
  <2> HIDE DEF zero
  <2> QED BY <1>1, SumsAgree
<1> QED BY <1>2

\* The sums MapThenSumSet builds for the options of a question and for the rows.
OptionSums(table, q) ==
    CHOOSE sums : sums = [s \in SUBSET Options |->
        IF s = {} THEN 0
        ELSE table[<<q, CHOOSE x \in s : TRUE>>] + sums[s \ {CHOOSE x \in s : TRUE}]]

RowSums(rows) ==
    CHOOSE sums : sums = [s \in SUBSET rows |->
        IF s = {} THEN 0
        ELSE (CHOOSE x \in s : TRUE).total + sums[s \ {CHOOSE x \in s : TRUE}]]

Chosen(table, q) == [o \in Options |-> table[<<q, o>>]]

LEMMA OptionsAddUp ==
  ASSUME NEW table, NEW q
  PROVE  SumsOf(OptionSums(table, q), Chosen(table, q), Options)
<1> DEFINE weight == Chosen(table, q)
           F(f) == [s \in SUBSET Options |->
                       IF s = {} THEN 0
                       ELSE weight[CHOOSE x \in s : TRUE] + f[s \ {CHOOSE x \in s : TRUE}]]
           G(f) == [s \in SUBSET Options |->
                       IF s = {} THEN 0
                       ELSE table[<<q, CHOOSE x \in s : TRUE>>] + f[s \ {CHOOSE x \in s : TRUE}]]
<1>1. \A s \in SUBSET Options : s # {} =>
          weight[CHOOSE x \in s : TRUE] = table[<<q, CHOOSE x \in s : TRUE>>]
  <2> SUFFICES ASSUME NEW s \in SUBSET Options, s # {}
               PROVE  weight[CHOOSE x \in s : TRUE] = table[<<q, CHOOSE x \in s : TRUE>>]
    OBVIOUS
  <2>1. (CHOOSE x \in s : TRUE) \in Options
    OBVIOUS
  <2> QED BY <2>1 DEF Chosen
<1> HIDE DEF weight
<1>2. \A f : F(f) = G(f)
  BY <1>1
<1>3. PICK f : AddUp(f, weight, Options)
  BY SumsExist, OptionsAssumption
<1>4. f = G(f)
  <2>1. f = F(f)
    BY <1>3 DEF AddUp
  <2> HIDE DEF F, G
  <2> QED BY <1>2, <2>1
<1>5. OptionSums(table, q) = G(OptionSums(table, q))
  BY <1>4 DEF OptionSums
<1>6. OptionSums(table, q) = F(OptionSums(table, q))
  BY <1>2, <1>5, ZenonT(60)
<1> QED BY <1>6 DEF SumsOf, weight

Weights(rows) == [r \in rows |-> r.total]

LEMMA RowsAddUp ==
  ASSUME NEW rows, IsFiniteSet(rows)
  PROVE  SumsOf(RowSums(rows), Weights(rows), rows)
<1> DEFINE weight == Weights(rows)
           F(f) == [s \in SUBSET rows |->
                       IF s = {} THEN 0
                       ELSE weight[CHOOSE x \in s : TRUE] + f[s \ {CHOOSE x \in s : TRUE}]]
           G(f) == [s \in SUBSET rows |->
                       IF s = {} THEN 0
                       ELSE (CHOOSE x \in s : TRUE).total + f[s \ {CHOOSE x \in s : TRUE}]]
<1>1. \A s \in SUBSET rows : s # {} =>
          weight[CHOOSE x \in s : TRUE] = (CHOOSE x \in s : TRUE).total
  <2> SUFFICES ASSUME NEW s \in SUBSET rows, s # {}
               PROVE  weight[CHOOSE x \in s : TRUE] = (CHOOSE x \in s : TRUE).total
    OBVIOUS
  <2>1. (CHOOSE x \in s : TRUE) \in rows
    OBVIOUS
  <2> QED BY <2>1 DEF Weights
<1> HIDE DEF weight
<1>2. \A f : F(f) = G(f)
  BY <1>1
<1>3. PICK f : AddUp(f, weight, rows)
  BY SumsExist
<1>4. f = G(f)
  <2>1. f = F(f)
    BY <1>3 DEF AddUp
  <2> HIDE DEF F, G
  <2> QED BY <1>2, <2>1
<1>5. RowSums(rows) = G(RowSums(rows))
  BY <1>4 DEF RowSums
<1>6. RowSums(rows) = F(RowSums(rows))
  BY <1>2, <1>5
<1> QED BY <1>6 DEF SumsOf, weight

\* One more answer counted adds one to the total of its question only.
LEMMA CountedOnce ==
  ASSUME NEW table \in [Widget!Ids \X Options -> Nat], NEW p \in Widget!Ids, NEW o \in Options,
         NEW q \in Widget!Ids
  PROVE  LET next == [table EXCEPT ![<<p, o>>] = @ + 1] IN
         /\ OptionSums(table, q)[Options] \in Nat
         /\ OptionSums(next, q)[Options] =
                OptionSums(table, q)[Options] + (IF q = p THEN 1 ELSE 0)
<1> DEFINE next == [table EXCEPT ![<<p, o>>] = @ + 1]
           f == OptionSums(table, q)  v == Chosen(table, q)
           g == OptionSums(next, q)  w == Chosen(next, q)
<1>1. SumsOf(f, v, Options) /\ SumsOf(g, w, Options)
  BY OptionsAddUp
<1>2. /\ \A x \in Options : v[x] \in Nat /\ w[x] \in Nat
      /\ q # p => \A x \in Options : w[x] = v[x]
      /\ q = p => w[o] = v[o] + 1 /\ \A x \in Options \ {o} : w[x] = v[x]
  BY DEF Chosen
<1>3. IsFiniteSet(Options) /\ IsFiniteSet(Options \ {o})
  BY OptionsAssumption, FS_RemoveElement
<1> HIDE DEF next, f, g, v, w
<1>4. f[Options] \in Nat
  BY <1>1, <1>2, <1>3, SumSplits
<1>5. CASE q # p
  <2>1. g[Options] = f[Options]
    BY <1>1, <1>2, <1>3, <1>5, SumsAgree
  <2> QED BY <1>4, <1>5, <2>1 DEF f, g, next
<1>6. CASE q = p
  <2>1. /\ f[Options] = v[o] + f[Options \ {o}] /\ f[Options \ {o}] \in Nat
        /\ g[Options] = w[o] + g[Options \ {o}]
    <3>1. Options \in SUBSET Options /\ Options \ {o} \in SUBSET Options
      OBVIOUS
    <3>2. \A s \in SUBSET Options : f[s] \in Nat /\ \A x \in s : f[s] = v[x] + f[s \ {x}]
      <4>1. IsFiniteSet(Options) /\ (\A x \in Options : v[x] \in Nat) /\ SumsOf(f, v, Options)
        BY <1>1, <1>2, <1>3
      <4> QED BY <4>1, SumSplits
    <3>3. \A s \in SUBSET Options : g[s] \in Nat /\ \A x \in s : g[s] = w[x] + g[s \ {x}]
      <4>1. IsFiniteSet(Options) /\ (\A x \in Options : w[x] \in Nat) /\ SumsOf(g, w, Options)
        BY <1>1, <1>2, <1>3
      <4> QED BY <4>1, SumSplits
    <3> QED BY <3>1, <3>2, <3>3
  <2>2. g[Options \ {o}] = f[Options \ {o}]
    BY <1>1, <1>2, <1>3, <1>6, SumsAgree
  <2>3. g[Options] = f[Options] + 1
    BY <1>2, <1>6, <2>1, <2>2
  <2> QED BY <1>4, <1>6, <2>3 DEF f, g, next
<1> QED BY <1>5, <1>6

\* The rows made of the totals, and what their sum becomes with one more answer.
RowsOf(total) == {[question |-> q, total |-> total[q]] : q \in {q \in Widget!Ids : total[q] > 0}}

LEMMA PulseRises ==
  ASSUME NEW total \in [Widget!Ids -> Nat], NEW p \in Widget!Ids, IsFiniteSet(RowsOf(total))
  PROVE  LET rows == RowsOf(total)
             next == RowsOf([total EXCEPT ![p] = @ + 1])
         IN  /\ IsFiniteSet(next) /\ RowSums(rows)[rows] \in Nat
             /\ RowSums(next)[next] = RowSums(rows)[rows] + 1
<1> DEFINE then == [total EXCEPT ![p] = @ + 1]
           rows == RowsOf(total)  next == RowsOf(then)
           old == [question |-> p, total |-> total[p]]
           new == [question |-> p, total |-> total[p] + 1]
           rest == rows \ {old}
<1>1. new \in next /\ next \ {new} = rest
  BY DEF RowsOf
<1>2. total[p] = 0 => old \notin rows
  <2> SUFFICES ASSUME old \in rows PROVE total[p] # 0
    OBVIOUS
  <2>1. PICK q \in Widget!Ids : old = [question |-> q, total |-> total[q]] /\ total[q] > 0
    BY DEF RowsOf
  <2>2. q = p
    BY <2>1
  <2> QED BY <2>1, <2>2
<1>a. total[p] # 0 => old \in rows
  BY DEF RowsOf
<1>3. \A r \in rows : Weights(rows)[r] \in Nat
  BY DEF Weights, RowsOf
<1>4. \A r \in next : Weights(next)[r] \in Nat
  BY DEF Weights, RowsOf
<1>5. \A r \in rest : r \in rows /\ r \in next
  BY <1>1
<1>6. \A r \in rest : Weights(rows)[r] = Weights(next)[r]
  BY <1>5 DEF Weights
<1>7. old.total = total[p] /\ new.total = total[p] + 1 /\ total[p] \in Nat
  OBVIOUS
<1> HIDE DEF then, rows, next, old, new
<1>8. IsFiniteSet(rows) /\ IsFiniteSet(rest)
  BY FS_RemoveElement DEF rows
<1>9. IsFiniteSet(next)
  <2>1. next = rest \cup {new}
    BY <1>1
  <2> QED BY <1>8, <2>1, FS_AddElement
<1>10. /\ SumsOf(RowSums(rows), Weights(rows), rows)
       /\ SumsOf(RowSums(next), Weights(next), next)
  BY <1>8, <1>9, RowsAddUp
<1>11. RowSums(rows)[rest] = RowSums(next)[rest]
  BY <1>5, <1>6, <1>8, <1>10, SumsAgree
<1>12. /\ RowSums(rows)[rows] \in Nat /\ RowSums(rows)[rest] \in Nat
       /\ old \in rows => RowSums(rows)[rows] = Weights(rows)[old] + RowSums(rows)[rest]
  <2> DEFINE f == RowSums(rows)  w == Weights(rows)
  <2>1. \A s \in SUBSET rows : f[s] \in Nat /\ \A x \in s : f[s] = w[x] + f[s \ {x}]
    <3> HIDE DEF f, w, rest
    <3> QED BY <1>3, <1>8, <1>10, SumSplits DEF f, w
  <2>2. rest \in SUBSET rows /\ rows \in SUBSET rows
    BY <1>5
  <2> HIDE DEF f, w
  <2> QED BY <2>1, <2>2 DEF f, w
<1>13. RowSums(next)[next] = Weights(next)[new] + RowSums(next)[rest]
  BY <1>1, <1>4, <1>9, <1>10, SumSplits
<1>14. Weights(next)[new] = total[p] + 1 /\ (old \in rows => Weights(rows)[old] = total[p])
  BY <1>1, <1>7 DEF Weights
<1>15. RowSums(rows)[rows] = total[p] + RowSums(rows)[rest]
  <2>1. CASE total[p] = 0
    <3>1. rest = rows
      BY <1>2, <2>1
    <3> QED BY <1>12, <2>1, <3>1
  <2>2. CASE total[p] # 0
    BY <1>12, <1>14, <1>a, <2>2
  <2> QED BY <2>1, <2>2
<1>16. RowSums(next)[next] = RowSums(rows)[rows] + 1
  BY <1>7, <1>11, <1>12, <1>13, <1>14, <1>15
<1> QED BY <1>9, <1>12, <1>16 DEF rows, next, then

-----------------------------------------------------------------------------
(***************************************************************************)
(* Feedback.                                                               *)
(***************************************************************************)

\* A set of some of the eight questions' numbers has a least one.
LEMMA LeastOfEight ==
    ASSUME NEW S \in SUBSET (1..8), S # {}
    PROVE  Widget!Min(S) \in S
<1> DEFINE Least == \E x \in S : \A y \in S : x <= y
           From(k) == Least \/ \A y \in S : y >= k
<1>1. From(1)
  OBVIOUS
<1>2. \A k \in 1..8 : From(k) => From(k + 1)
  <2> SUFFICES ASSUME NEW k \in 1..8, From(k), ~Least
               PROVE  \A y \in S : y >= k + 1
    OBVIOUS
  <2>1. \A y \in S : y >= k /\ y \in Nat
    OBVIOUS
  <2>2. k \notin S
    BY <2>1
  <2> QED BY <2>1, <2>2
<1> HIDE DEF From
<1>3. From(2) /\ From(3) /\ From(4) /\ From(5)
  BY <1>1, <1>2
<1>4. From(6) /\ From(7) /\ From(8) /\ From(9)
  BY <1>2, <1>3
<1>5. PICK s \in S : TRUE
  BY Zenon
<1>6. Least
  <2>1. s \in 1..8
    BY <1>5
  <2>2. ~(\A y \in S : y >= 9)
    BY <1>5, <2>1
  <2> QED BY <1>4, <2>2 DEF From
<1> QED BY <1>6 DEF Widget!Min

\* The next question has not been answered.
LEMMA NextQuestion ==
    ASSUME NEW page, NEW answered
    PROVE  LET q == Widget!GetNextQuestionId(page, answered) IN
           q \in Widget!Ids \cup {Widget!Done} /\ q \notin answered \ {Widget!Done}
<1> DEFINE open == {i \in DOMAIN Widget!QUESTIONS : Widget!QUESTIONS[i] \notin answered}
           q == Widget!GetNextQuestionId(page, answered)
<1>1. DOMAIN Widget!QUESTIONS = 1..8
  BY DEF Widget!QUESTIONS
<1>2. Widget!Primary(page) \in Widget!Ids
  <2>1. Widget!QUESTIONS[8] = "general"
    BY DEF Widget!QUESTIONS
  <2> QED BY <1>1, <2>1 DEF Widget!Primary, Widget!Ids
<1>3. open # {} => Widget!Min(open) \in open
  BY <1>1, LeastOfEight
<1>4. CASE Widget!Primary(page) \notin answered
  BY <1>2, <1>4 DEF Widget!GetNextQuestionId
<1>5. CASE Widget!Primary(page) \in answered /\ open = {}
  BY <1>5 DEF Widget!GetNextQuestionId
<1>6. CASE Widget!Primary(page) \in answered /\ open # {}
  <2>1. q = Widget!QUESTIONS[Widget!Min(open)]
    BY <1>6 DEF Widget!GetNextQuestionId
  <2> QED BY <1>3, <1>6, <2>1 DEF Widget!Ids
<1> QED BY <1>4, <1>5, <1>6, Zenon

\* No question has the id of the end.
LEMMA DoneIsNoId == Widget!Done \notin Widget!Ids
BY DEF Widget!Done, Widget!Ids, Widget!QUESTIONS

\* An answer is one of a tab to a question.
LEMMA AnswersGiven ==
    Widget!AskedInv =>
        /\ given \in Seq(Widget!Answers)
        /\ \A i \in DOMAIN given : /\ given[i].tab \in Tabs /\ given[i].question \in Widget!Ids
                                   /\ given[i].resets \in Nat /\ given[i].option \in Options
<1>1. Widget!AskedInv => given \in Seq(Widget!Answers)
  BY Zenon DEF Widget!AskedInv
<1>2. \A s \in Seq(Widget!Answers) : \A i \in DOMAIN s : s[i] \in Widget!Answers
  OBVIOUS
<1>3. \A a \in Widget!Answers : /\ a.tab \in Tabs /\ a.question \in Widget!Ids
                                /\ a.option \in Options /\ a.resets \in Nat
  BY DEF Widget!Answers
<1> QED BY <1>1, <1>2, <1>3, Zenon

\* A step in which no answer is given and nothing reset: each tab keeps its
\* question or gets one that has not been answered.
LEMMA NoAnswerGiven ==
    ASSUME Widget!WidgetInv, UNCHANGED <<stored, given, resets>>,
           DOMAIN tab' = Tabs,
           \A t \in Tabs : /\ DOMAIN tab'[t] = DOMAIN tab[t]
                           /\ \/ tab'[t].question = tab[t].question
                              \/ /\ tab'[t].question \in Widget!Ids \cup {Widget!Done}
                                 /\ tab'[t].question \notin stored \ {Widget!Done}
    PROVE  Widget!WidgetInv'
<1>1. Widget!NotAskedAgain'
  BY DEF Widget!WidgetInv, Widget!NotAskedAgain, Widget!Same
<1>2. Widget!AskedInv
  BY DEF Widget!WidgetInv
<1>3. resets' \in Nat
      /\ given' \in Seq(Widget!Answers)
  BY <1>2 DEF Widget!AskedInv
<1>4. ASSUME NEW i \in DOMAIN given
      PROVE  /\ given[i].resets <= resets
             /\ given[i].resets = resets => given[i].question \in stored
             /\ given[i].question \in Widget!Ids /\ given[i].tab \in Tabs
             /\ Widget!FirstAnswer(i)' => given[i].resets = resets
             /\ Widget!FirstAnswer(i)' => tab[given[i].tab].question # given[i].question
  <2>1. Widget!FirstAnswer(i)' <=> Widget!FirstAnswer(i)
    BY DEF Widget!FirstAnswer, Widget!Same
  <2>2. Widget!FirstAnswer(i) => given[i].resets = resets
    BY DEF Widget!FirstAnswer
  <2>3. given[i].question \in Widget!Ids /\ given[i].tab \in Tabs
    BY <1>2, AnswersGiven
  <2>4. /\ given[i].resets <= resets
        /\ given[i].resets = resets => given[i].question \in stored
        /\ Widget!FirstAnswer(i) => tab[given[i].tab].question # given[i].question
    BY <1>2, Zenon DEF Widget!AskedInv
  <2> QED BY <2>1, <2>2, <2>3, <2>4, Zenon
<1>5. ASSUME NEW i \in DOMAIN given, Widget!FirstAnswer(i)'
      PROVE  tab'[given[i].tab].question # given[i].question
  BY <1>4, <1>5, DoneIsNoId
<1>6. ASSUME NEW t \in Tabs
      PROVE  /\ DOMAIN tab'[t] = DOMAIN Widget!Fresh
             /\ tab'[t].question \in Widget!Ids \cup {Widget!Done}
             /\ tab'[t].question \in stored \ {Widget!Done} =>
                    \E i \in DOMAIN given : /\ given[i].question = tab'[t].question
                                            /\ given[i].resets = resets
  BY <1>2 DEF Widget!AskedInv
<1>7. Widget!AskedInv'
  BY <1>3, <1>4, <1>5, <1>6 DEF Widget!AskedInv
<1> QED BY <1>1, <1>7 DEF Widget!WidgetInv

\* What the widget of one tab becomes.
LEMMA TabBecomes ==
    ASSUME NEW t \in Tabs, NEW w, Widget!Becomes(t, w), DOMAIN tab = Tabs
    PROVE  /\ DOMAIN tab' = Tabs /\ tab'[t] = w
           /\ \A u \in Tabs : u # t => tab'[u] = tab[u]
BY DEF Widget!Becomes

\* An answer to the question a tab shows.
LEMMA AnswerGiven ==
    ASSUME Widget!WidgetInv, NEW t \in Tabs, NEW option \in Options, Widget!HandleAnswer(t, option)
    PROVE  Widget!WidgetInv'
<1> DEFINE q == tab[t].question
           answer == [tab |-> t, question |-> q, option |-> option, resets |-> resets]
           new == q \notin stored
<1>0. PICK n \in Nat : n = Len(given)
  BY AnswersGiven DEF Widget!WidgetInv
<1>1. /\ Widget!AskedInv /\ Widget!NotAskedAgain
  BY DEF Widget!WidgetInv
<1>2. /\ q # Widget!Done /\ given' = Append(given, answer) /\ resets' = resets
      /\ stored' = Widget!Recorded(tab[t], q).storage
      /\ Widget!Becomes(t, Widget!Recorded(tab[t], q).widget)
  BY DEF Widget!HandleAnswer, Widget!CardShown
<1>3. /\ resets \in Nat /\ DOMAIN tab = Tabs
      /\ \A i \in DOMAIN given :
             /\ given[i].resets <= resets
             /\ given[i].resets = resets => given[i].question \in stored
             /\ Widget!FirstAnswer(i) => tab[given[i].tab].question # given[i].question
      /\ \A u \in Tabs :
             /\ DOMAIN tab[u] = DOMAIN Widget!Fresh
             /\ tab[u].question \in Widget!Ids \cup {Widget!Done}
             /\ tab[u].question \in stored \ {Widget!Done} =>
                    \E i \in DOMAIN given : /\ given[i].question = tab[u].question
                                            /\ given[i].resets = resets
  BY <1>1, Zenon DEF Widget!AskedInv
<1>4. q \in Widget!Ids
  BY <1>2, <1>3
<1>5. /\ answer \in Widget!Answers /\ answer.tab = t /\ answer.question = q
      /\ answer.resets = resets
  BY <1>3, <1>4 DEF Widget!Answers
<1> HIDE DEF answer
<1>6. /\ given' \in Seq(Widget!Answers) /\ DOMAIN given = 1..n
      /\ DOMAIN given' = 1..(n + 1) /\ given'[n + 1] = answer
      /\ \A i \in 1..n : given'[i] = given[i]
  <2>1. given \in Seq(Widget!Answers)
    BY <1>1, AnswersGiven
  <2>2. \A s \in Seq(Widget!Answers) :
            /\ Append(s, answer) \in Seq(Widget!Answers) /\ Len(s) \in Nat
            /\ DOMAIN s = 1..Len(s) /\ DOMAIN Append(s, answer) = 1..(Len(s) + 1)
            /\ Append(s, answer)[Len(s) + 1] = answer
            /\ \A i \in 1..Len(s) : Append(s, answer)[i] = s[i]
    BY <1>5
  <2> QED BY <1>0, <1>2, <2>1, <2>2
<1>7. /\ DOMAIN tab' = Tabs /\ \A u \in Tabs : u # t => tab'[u] = tab[u]
      /\ DOMAIN tab'[t] = DOMAIN tab[t]
      /\ ~new => stored' = stored /\ tab'[t] = tab[t]
      /\ new => /\ stored' = stored \cup {q}
                /\ tab'[t].question \in Widget!Ids \cup {Widget!Done}
                /\ tab'[t].question \notin stored' \ {Widget!Done}
  <2>1. /\ DOMAIN tab' = Tabs /\ tab'[t] = Widget!Recorded(tab[t], q).widget
        /\ \A u \in Tabs : u # t => tab'[u] = tab[u]
    BY <1>2, <1>3, TabBecomes, Zenon
  <2>2. CASE ~new
    BY <1>2, <2>1, <2>2 DEF Widget!Recorded
  <2>3. CASE new
    <3> DEFINE updated == stored \cup {q}
               next == Widget!GetNextQuestionId(tab[t].path, updated)
    <3>1. stored' = updated /\ tab'[t] = [tab[t] EXCEPT !.answered = updated, !.question = next]
      BY <1>2, <2>1, <2>3 DEF Widget!Recorded
    <3>2. "question" \in DOMAIN tab[t]
      BY <1>3 DEF Widget!Fresh
    <3>3. tab'[t].question = next /\ DOMAIN tab'[t] = DOMAIN tab[t]
      BY <3>1, <3>2
    <3>4. next \in Widget!Ids \cup {Widget!Done} /\ next \notin updated \ {Widget!Done}
      BY NextQuestion
    <3> QED BY <2>1, <2>3, <3>1, <3>3, <3>4
  <2> QED BY <2>1, <2>2, <2>3
<1>8. /\ \A i, j \in 1..n : Widget!Same(i, j)' <=> Widget!Same(i, j)
      /\ \A i \in 1..n : Widget!Same(i, n + 1)' <=> /\ given[i].question = q
                                                    /\ given[i].resets = resets
  BY <1>5, <1>6 DEF Widget!Same
<1>9. /\ \A i \in 1..n : Widget!FirstAnswer(i)' => Widget!FirstAnswer(i)
      /\ Widget!FirstAnswer(n + 1)' => new
  <2>1. ASSUME NEW i \in 1..n, Widget!FirstAnswer(i)'
        PROVE  Widget!FirstAnswer(i)
    <3>1. given[i].resets = resets /\ \A k \in 1..(i - 1) : ~Widget!Same(k, i)'
      BY <1>2, <1>6, <2>1 DEF Widget!FirstAnswer
    <3>2. \A k \in 1..(i - 1) : k \in 1..n
      BY <1>6
    <3> QED BY <1>8, <3>1, <3>2 DEF Widget!FirstAnswer
  <2>2. ASSUME Widget!FirstAnswer(n + 1)', ~new
        PROVE  FALSE
    <3>1. PICK i \in 1..n : given[i].question = q /\ given[i].resets = resets
      BY <1>2, <1>3, <1>6, <2>2
    <3>2. i \in 1..((n + 1) - 1)
      BY <1>6
    <3> QED BY <1>8, <2>2, <3>1, <3>2 DEF Widget!FirstAnswer
  <2> QED BY <2>1, <2>2
<1>10. ASSUME NEW i \in 1..(n + 1)
       PROVE  /\ given'[i].resets <= resets'
              /\ given'[i].resets = resets' => given'[i].question \in stored'
              /\ Widget!FirstAnswer(i)' => tab'[given'[i].tab].question # given'[i].question
  <2>1. CASE i \in 1..n
    <3>1. /\ given'[i] = given[i] /\ given[i].resets <= resets
          /\ given[i].resets = resets => given[i].question \in stored
          /\ given[i].tab \in Tabs /\ given[i].question \in Widget!Ids
          /\ Widget!FirstAnswer(i)' => /\ tab[given[i].tab].question # given[i].question
                                       /\ given[i].resets = resets
      BY <1>1, <1>3, <1>6, <1>9, <2>1, AnswersGiven DEF Widget!FirstAnswer
    <3> QED BY <1>2, <1>7, <3>1, DoneIsNoId
  <2>2. CASE i = n + 1
    <3>1. /\ given'[i] = answer /\ q \in stored'
          /\ Widget!FirstAnswer(i)' => tab'[t].question # q
      BY <1>4, <1>6, <1>7, <1>9, <2>2, DoneIsNoId
    <3>2. resets <= resets
      BY <1>3
    <3> QED BY <1>2, <1>5, <3>1, <3>2
  <2> QED BY <1>6, <2>1, <2>2
<1>11. ASSUME NEW u \in Tabs
       PROVE  /\ DOMAIN tab'[u] = DOMAIN Widget!Fresh
              /\ tab'[u].question \in Widget!Ids \cup {Widget!Done}
              /\ tab'[u].question \in stored' \ {Widget!Done} =>
                     \E i \in DOMAIN given' : /\ given'[i].question = tab'[u].question
                                              /\ given'[i].resets = resets'
  <2>1. CASE tab'[u].question = tab[u].question
    <3>1. ASSUME tab[u].question \in stored \ {Widget!Done}
          PROVE  \E i \in DOMAIN given' : /\ given'[i].question = tab[u].question
                                          /\ given'[i].resets = resets'
      <4>1. PICK i \in 1..n : given[i].question = tab[u].question /\ given[i].resets = resets
        BY <1>3, <1>6, <3>1
      <4> QED BY <1>2, <1>6, <4>1
    <3>2. ASSUME tab[u].question = q
          PROVE  \E i \in DOMAIN given' : /\ given'[i].question = tab[u].question
                                          /\ given'[i].resets = resets'
      BY <1>2, <1>5, <1>6, <3>2
    <3>3. stored' \subseteq stored \cup {q}
      BY <1>7
    <3> QED BY <1>3, <1>7, <2>1, <3>1, <3>2, <3>3
  <2>2. CASE tab'[u].question # tab[u].question
    BY <1>3, <1>7, <2>2
  <2> QED BY <2>1, <2>2
<1>12. Widget!AskedInv'
  BY <1>2, <1>3, <1>6, <1>7, <1>10, <1>11, Zenon DEF Widget!AskedInv
<1>13. Widget!NotAskedAgain'
  <2> SUFFICES ASSUME NEW i \in 1..(n + 1), NEW j \in 1..(n + 1), i < j, Widget!Same(i, j)',
                      \A k \in 1..(i - 1) : ~Widget!Same(k, i)'
               PROVE  given'[i].tab # given'[j].tab
    BY <1>6, Zenon DEF Widget!NotAskedAgain
  <2>1. i \in 1..n /\ \A k \in 1..(i - 1) : k \in 1..n
    BY <1>6
  <2>2. \A k \in 1..(i - 1) : ~Widget!Same(k, i)
    BY <1>8, <2>1
  <2>3. CASE j \in 1..n
    <3>1. Widget!Same(i, j) /\ given'[i] = given[i] /\ given'[j] = given[j]
      BY <1>6, <1>8, <2>1, <2>3
    <3> QED BY <1>1, <1>6, <2>1, <2>2, <2>3, <3>1 DEF Widget!NotAskedAgain
  <2>4. CASE j = n + 1
    <3>1. given[i].question = q /\ given[i].resets = resets
      BY <1>8, <2>1, <2>4
    <3>2. Widget!FirstAnswer(i)
      BY <2>2, <3>1 DEF Widget!FirstAnswer
    <3>3. tab[given[i].tab].question # q
      BY <1>3, <1>6, <2>1, <3>1, <3>2
    <3> QED BY <1>5, <1>6, <2>1, <2>4, <3>3
  <2> QED BY <1>6, <2>3, <2>4
<1> QED BY <1>12, <1>13 DEF Widget!WidgetInv

\* At first no answer has been given, and each tab shows a question that is
\* not stored from an earlier visit.
LEMMA WidgetStarts == Widget!Init => Widget!WidgetInv
<1> SUFFICES ASSUME Widget!Init PROVE Widget!WidgetInv
  OBVIOUS
<1> DEFINE next == Widget!GetNextQuestionId("home", stored)
<1>1. given = <<>> /\ resets = 0 /\ DOMAIN tab = Tabs
      /\ \A t \in Tabs : tab[t] = Widget!Loaded(Widget!Fresh, "home")
  BY DEF Widget!Init
<1>2. next \in Widget!Ids \cup {Widget!Done} /\ next \notin stored \ {Widget!Done}
  BY NextQuestion
<1>3. ASSUME NEW t \in Tabs
      PROVE  DOMAIN tab[t] = DOMAIN Widget!Fresh /\ tab[t].question = next
  BY <1>1 DEF Widget!Loaded, Widget!Fresh
<1>4. DOMAIN given = {} /\ given \in Seq(Widget!Answers) /\ resets \in Nat
  BY <1>1
<1>5. Widget!AskedInv
  BY <1>1, <1>2, <1>3, <1>4, Zenon DEF Widget!AskedInv
<1>6. Widget!NotAskedAgain
  BY <1>4, Zenon DEF Widget!NotAskedAgain
<1> QED BY <1>5, <1>6 DEF Widget!WidgetInv

\* Every step keeps the invariant.
LEMMA WidgetKeeps == Widget!WidgetInv /\ [Widget!Next]_widget => Widget!WidgetInv'
<1> SUFFICES ASSUME Widget!WidgetInv, [Widget!Next]_widget PROVE Widget!WidgetInv'
  OBVIOUS
<1>1. /\ resets \in Nat /\ DOMAIN tab = Tabs
      /\ \A t \in Tabs : DOMAIN tab[t] = DOMAIN Widget!Fresh
      /\ \A i \in DOMAIN given : given[i].resets <= resets
      /\ \A t \in Tabs : tab[t].question \in Widget!Ids \cup {Widget!Done}
  BY Zenon DEF Widget!WidgetInv, Widget!AskedInv
<1>2. DOMAIN Widget!Fresh = {"path", "open", "answered", "question", "menu", "greeting"}
  BY DEF Widget!Fresh
<1>3. ASSUME NEW t \in Tabs, NEW w, Widget!Becomes(t, w), UNCHANGED <<stored, given, resets>>,
             DOMAIN w = DOMAIN tab[t],
             \/ w.question = tab[t].question
             \/ /\ w.question \in Widget!Ids \cup {Widget!Done}
                /\ w.question \notin stored \ {Widget!Done}
      PROVE  Widget!WidgetInv'
  <2>1. /\ DOMAIN tab' = Tabs /\ tab'[t] = w
        /\ \A u \in Tabs : u # t => tab'[u] = tab[u]
    BY <1>1, <1>3, TabBecomes, Zenon
  <2>2. \A u \in Tabs : /\ DOMAIN tab'[u] = DOMAIN tab[u]
                        /\ \/ tab'[u].question = tab[u].question
                           \/ /\ tab'[u].question \in Widget!Ids \cup {Widget!Done}
                              /\ tab'[u].question \notin stored \ {Widget!Done}
    BY <1>3, <2>1, Zenon
  <2> QED BY <1>3, <2>1, <2>2, NoAnswerGiven, Zenon
<1>4. ASSUME NEW t \in Tabs, Widget!SkipToMenu(t)
      PROVE  Widget!WidgetInv'
  <2> DEFINE w == [tab[t] EXCEPT !.menu = TRUE]
  <2>1. Widget!Becomes(t, w) /\ UNCHANGED <<stored, given, resets>>
    BY <1>4, Zenon DEF Widget!SkipToMenu
  <2>2. DOMAIN w = DOMAIN tab[t] /\ w.question = tab[t].question
    BY <1>1, <1>2
  <2> QED BY <1>3, <2>1, <2>2, Zenon
<1>5. ASSUME NEW t \in Tabs, Widget!GreetingTimer(t)
      PROVE  Widget!WidgetInv'
  <2> DEFINE w == [tab[t] EXCEPT !.greeting = TRUE]
  <2>1. Widget!Becomes(t, w) /\ UNCHANGED <<stored, given, resets>>
    BY <1>5, Zenon DEF Widget!GreetingTimer
  <2>2. DOMAIN w = DOMAIN tab[t] /\ w.question = tab[t].question
    BY <1>1, <1>2
  <2> QED BY <1>3, <2>1, <2>2, Zenon
<1>6. ASSUME NEW t \in Tabs, Widget!HandleOpen(t)
      PROVE  Widget!WidgetInv'
  <2> DEFINE w == [tab[t] EXCEPT !.open = TRUE, !.greeting = FALSE]
  <2>1. Widget!Becomes(t, w) /\ UNCHANGED <<stored, given, resets>>
    BY <1>6, Zenon DEF Widget!HandleOpen
  <2>2. DOMAIN w = DOMAIN tab[t] /\ w.question = tab[t].question
    BY <1>1, <1>2
  <2> QED BY <1>3, <2>1, <2>2, Zenon
<1>7. ASSUME NEW t \in Tabs, Widget!HandleClose(t)
      PROVE  Widget!WidgetInv'
  <2> DEFINE w == [tab[t] EXCEPT !.open = FALSE, !.greeting = FALSE, !.menu = FALSE]
  <2>1. Widget!Becomes(t, w) /\ UNCHANGED <<stored, given, resets>>
    BY <1>7, Zenon DEF Widget!HandleClose
  <2>2. DOMAIN w = DOMAIN tab[t] /\ w.question = tab[t].question
    BY <1>1, <1>2
  <2> QED BY <1>3, <2>1, <2>2, Zenon
<1>8. ASSUME NEW t \in Tabs, NEW page \in Paths, Widget!Navigate(t, page)
      PROVE  Widget!WidgetInv'
  <2> DEFINE w == Widget!Loaded(tab[t], page)
  <2>1. Widget!Becomes(t, w) /\ UNCHANGED <<stored, given, resets>>
    BY <1>8, Zenon DEF Widget!Navigate
  <2>2. DOMAIN w = DOMAIN tab[t] /\ w.question = Widget!GetNextQuestionId(page, stored)
    BY <1>1, <1>2 DEF Widget!Loaded
  <2>3. /\ w.question \in Widget!Ids \cup {Widget!Done}
        /\ w.question \notin stored \ {Widget!Done}
    BY <2>2, NextQuestion
  <2> QED BY <1>3, <2>1, <2>2, <2>3, Zenon
<1>9. ASSUME NEW t \in Tabs, Widget!HandleResetFeedback(t)
      PROVE  Widget!WidgetInv'
  <2> DEFINE next == Widget!GetNextQuestionId(tab[t].path, {})
             w == [tab[t] EXCEPT !.answered = {}, !.menu = FALSE, !.question = next]
  <2>1. /\ stored' = {} /\ resets' = resets + 1 /\ given' = given
        /\ Widget!Becomes(t, w)
    BY <1>9 DEF Widget!HandleResetFeedback
  <2>2. DOMAIN w = DOMAIN tab[t] /\ w.question = next
    BY <1>1, <1>2
  <2>3. next \in Widget!Ids \cup {Widget!Done}
    BY NextQuestion
  <2> HIDE DEF w, next
  <2>4. /\ DOMAIN tab' = Tabs
        /\ \A u \in Tabs : /\ DOMAIN tab'[u] = DOMAIN Widget!Fresh
                           /\ tab'[u].question \in Widget!Ids \cup {Widget!Done}
    BY <1>1, <2>1, <2>2, <2>3, TabBecomes
  <2>5. given' \in Seq(Widget!Answers) /\ resets' \in Nat
    BY <1>1, <2>1, AnswersGiven DEF Widget!WidgetInv
  <2>6. \A i \in DOMAIN given : given[i].resets \in Nat
    BY AnswersGiven DEF Widget!WidgetInv
  <2>7. \A i \in DOMAIN given' : /\ given'[i].resets <= resets'
                                 /\ given'[i].resets # resets'
    BY <1>1, <2>1, <2>6
  <2>8. Widget!AskedInv'
    BY <2>1, <2>4, <2>5, <2>7 DEF Widget!AskedInv, Widget!FirstAnswer
  <2>9. Widget!NotAskedAgain'
    BY <2>1 DEF Widget!WidgetInv, Widget!NotAskedAgain, Widget!Same
  <2> QED BY <2>8, <2>9 DEF Widget!WidgetInv
<1>10. ASSUME NEW i \in DOMAIN given, Widget!Count(i) \/ Widget!NotCounted(i)
       PROVE  Widget!WidgetInv'
  BY <1>1, <1>10, NoAnswerGiven DEF Widget!Count, Widget!NotCounted
<1>11. CASE UNCHANGED widget
  BY <1>1, <1>11, NoAnswerGiven DEF widget
<1> QED BY <1>4, <1>5, <1>6, <1>7, <1>8, <1>9, <1>10, <1>11, AnswerGiven DEF Widget!Next

\* The metrics in these terms.
LEMMA PulseIsSum ==
  /\ \A q : Widget!Total(q) = OptionSums(counts, q)[Options]
  /\ \A q : Widget!Total(q)' = OptionSums(counts', q)[Options]
  /\ Widget!Rows = RowsOf([q \in Widget!Ids |-> Widget!Total(q)])
  /\ Widget!Rows' = RowsOf([q \in Widget!Ids |-> Widget!Total(q)'])
  /\ Widget!Pulse = RowSums(Widget!Rows)[Widget!Rows]
  /\ Widget!Pulse' = RowSums(Widget!Rows')[Widget!Rows']
<1>1. \A q : Widget!Total(q) = OptionSums(counts, q)[Options]
  BY DEF Widget!Total, Widget!MapThenSumSet, Widget!MapThenFoldSet, OptionSums
<1>2. \A q : Widget!Total(q)' = OptionSums(counts', q)[Options]
  BY DEF Widget!Total, Widget!MapThenSumSet, Widget!MapThenFoldSet, OptionSums
<1>3. Widget!Rows = RowsOf([q \in Widget!Ids |-> Widget!Total(q)])
  BY DEF Widget!Rows, RowsOf
<1>4. Widget!Rows' = RowsOf([q \in Widget!Ids |-> Widget!Total(q)'])
  BY DEF Widget!Rows, RowsOf
<1>5. Widget!Pulse = RowSums(Widget!Rows)[Widget!Rows]
  BY DEF Widget!Pulse, Widget!MapThenSumSet, Widget!MapThenFoldSet, RowSums
<1>6. Widget!Pulse' = RowSums(Widget!Rows')[Widget!Rows']
  BY DEF Widget!Pulse, Widget!MapThenSumSet, Widget!MapThenFoldSet, RowSums
<1> QED BY <1>1, <1>2, <1>3, <1>4, <1>5, <1>6

\* The invariant in the operators of this module, which are those of Feedback.
Counted ==
  /\ counts \in [Widget!Ids \X Options -> Nat]
  /\ posts \subseteq DOMAIN given
  /\ IsFiniteSet(Widget!Rows) /\ Widget!Pulse \in Nat
  /\ Widget!Pulse + Cardinality(posts) <= Len(given)

LEMMA CountInvIsCounted ==
  /\ Widget!CountInv <=> Counted
  /\ Widget!CountInv' <=> Counted'
<1>1. \A S : Widget!IsFiniteSet(S) <=> IsFiniteSet(S)
  BY Zenon DEF Widget!IsFiniteSet, IsFiniteSet
<1>2. \A S : Widget!Cardinality(S) = Cardinality(S)
  BY Zenon DEF Widget!Cardinality, Cardinality, Widget!IsFiniteSet, IsFiniteSet
<1>3. Widget!CountInv <=> Counted
  BY <1>1, <1>2 DEF Widget!CountInv, Counted
<1>4. Widget!CountInv' <=> Counted'
  BY <1>1, <1>2 DEF Widget!CountInv, Counted
<1> QED BY <1>3, <1>4

\* At first nothing is counted.
LEMMA CountStarts == Widget!Init => Widget!CountInv
<1> SUFFICES ASSUME Widget!Init PROVE Counted
  BY CountInvIsCounted
<1>1. counts = [qo \in Widget!Ids \X Options |-> 0] /\ posts = {} /\ given = <<>>
  BY DEF Widget!Init
<1>2. ASSUME NEW q \in Widget!Ids PROVE Widget!Total(q) = 0
  <2>1. \A o \in Options : Chosen(counts, q)[o] = 0
    BY <1>1 DEF Chosen
  <2>2. OptionSums(counts, q)[Options] = 0
    BY <2>1, OptionsAddUp, SumsOfNothing, OptionsAssumption
  <2> QED BY <2>2, PulseIsSum
<1>3. Widget!Rows = {}
  BY <1>2 DEF Widget!Rows
<1>4. Widget!Pulse = 0
  <2>1. IsFiniteSet({})
    BY FS_EmptySet
  <2>2. SumsOf(RowSums({}), Weights({}), {})
    BY <2>1, RowsAddUp
  <2>3. RowSums({})[{}] = 0
    BY <2>2 DEF SumsOf
  <2> QED BY <1>3, <2>3, PulseIsSum
<1>5. Cardinality(posts) = 0 /\ IsFiniteSet(Widget!Rows)
  BY <1>1, <1>3, FS_EmptySet
<1>6. counts \in [Widget!Ids \X Options -> Nat] /\ posts \subseteq DOMAIN given /\ Len(given) = 0
  BY <1>1
<1> QED BY <1>4, <1>5, <1>6 DEF Counted

\* A step that counts nothing leaves the metrics as they are.
LEMMA MetricsRest ==
  ASSUME UNCHANGED counts PROVE Widget!Rows' = Widget!Rows /\ Widget!Pulse' = Widget!Pulse
BY PulseIsSum

\* An answer that is counted was given and is on its way no longer.
LEMMA CountKeeps ==
  Widget!WidgetInv /\ Widget!CountInv /\ [Widget!Next]_widget => Widget!CountInv'
<1> SUFFICES ASSUME Widget!WidgetInv, Counted, [Widget!Next]_widget
             PROVE  Counted'
  BY CountInvIsCounted
<1>1. /\ counts \in [Widget!Ids \X Options -> Nat]
      /\ posts \subseteq DOMAIN given
      /\ IsFiniteSet(Widget!Rows) /\ Widget!Pulse \in Nat
      /\ Widget!Pulse + Cardinality(posts) <= Len(given)
  BY DEF Counted
<1>2. /\ given \in Seq(Widget!Answers)
      /\ \A i \in DOMAIN given : given[i].question \in Widget!Ids /\ given[i].option \in Options
  BY AnswersGiven DEF Widget!WidgetInv
<1>3. /\ IsFiniteSet(posts) /\ Cardinality(posts) \in Nat
      /\ Len(given) \in Nat /\ Len(given) + 1 \notin posts
  <2>1. DOMAIN given = 1..Len(given) /\ Len(given) \in Nat
    BY <1>2
  <2>2. IsFiniteSet(1..Len(given))
    BY <2>1, FS_Interval
  <2> QED BY <1>1, <2>1, <2>2, FS_Subset, FS_CardinalityType
<1>4. ASSUME NEW t \in Tabs, NEW option \in Options, Widget!HandleAnswer(t, option)
      PROVE  Counted'
  <2>1. /\ given' = Append(given, [tab |-> t, question |-> tab[t].question, option |-> option,
                                   resets |-> resets])
        /\ posts' = posts \cup {Len(given) + 1} /\ counts' = counts
    BY <1>4 DEF Widget!HandleAnswer
  <2>2. Len(given') = Len(given) + 1 /\ DOMAIN given' = 1..(Len(given) + 1)
        /\ DOMAIN given = 1..Len(given)
    BY <1>2, <2>1
  <2>3. Cardinality(posts') = Cardinality(posts) + 1
    BY <1>3, <2>1, FS_AddElement
  <2>4. posts' \subseteq DOMAIN given'
    BY <1>1, <1>3, <2>1, <2>2
  <2> QED BY <1>1, <1>3, <2>1, <2>2, <2>3, <2>4, MetricsRest DEF Counted
<1>5. ASSUME NEW i \in DOMAIN given, Widget!Count(i)
      PROVE  Counted'
  <2> DEFINE q == given[i].question  o == given[i].option
             total == [p \in Widget!Ids |-> Widget!Total(p)]
             next == [p \in Widget!Ids |-> Widget!Total(p)']
  <2>1. /\ i \in posts /\ posts' = posts \ {i} /\ given' = given
        /\ counts' = [counts EXCEPT ![<<q, o>>] = @ + 1]
    BY <1>5 DEF Widget!Count
  <2>2. Cardinality(posts') = Cardinality(posts) - 1
    BY <1>3, <2>1, FS_RemoveElement
  <2>3. q \in Widget!Ids /\ o \in Options
    BY <1>2
  <2> HIDE DEF q, o
  <2>4. counts' \in [Widget!Ids \X Options -> Nat]
    <3> DEFINE k == <<q, o>>
    <3>1. k \in Widget!Ids \X Options
      BY <2>3
    <3> HIDE DEF k
    <3>2. counts[k] + 1 \in Nat
      BY <1>1, <3>1
    <3>3. counts' = [counts EXCEPT ![k] = counts[k] + 1]
      BY <2>1 DEF k
    <3> QED BY <1>1, <3>1, <3>2, <3>3
  <2>5. \A p \in Widget!Ids : /\ Widget!Total(p) \in Nat
                              /\ Widget!Total(p)' = Widget!Total(p) + (IF p = q THEN 1 ELSE 0)
    BY <1>1, <2>1, <2>3, CountedOnce, PulseIsSum
  <2>6. total \in [Widget!Ids -> Nat] /\ next = [total EXCEPT ![q] = @ + 1]
    <3>1. \A p \in Widget!Ids : total[p] \in Nat
      BY <2>5
    <3>2. ASSUME NEW p \in Widget!Ids PROVE next[p] = [total EXCEPT ![q] = @ + 1][p]
      <4>1. CASE p = q
        BY <2>5, <4>1
      <4>2. CASE p # q
        BY <2>5, <4>2
      <4> QED BY <4>1, <4>2
    <3>3. DOMAIN next = Widget!Ids /\ DOMAIN total = Widget!Ids
      OBVIOUS
    <3> QED BY <3>1, <3>2, <3>3
  <2>7. Widget!Rows = RowsOf(total) /\ Widget!Rows' = RowsOf(next)
    BY PulseIsSum
  <2> HIDE DEF total, next
  <2>8. IsFiniteSet(Widget!Rows') /\ Widget!Pulse' = Widget!Pulse + 1
    BY <1>1, <2>3, <2>6, <2>7, PulseRises, PulseIsSum
  <2>9. posts' \subseteq DOMAIN given'
    BY <1>1, <2>1
  <2> QED BY <1>1, <1>3, <2>1, <2>2, <2>4, <2>8, <2>9 DEF Counted
<1>6. ASSUME NEW i \in DOMAIN given, Widget!NotCounted(i)
      PROVE  Counted'
  <2>1. i \in posts /\ posts' = posts \ {i} /\ given' = given /\ counts' = counts
    BY <1>6 DEF Widget!NotCounted
  <2>2. Cardinality(posts') = Cardinality(posts) - 1 /\ posts' \subseteq DOMAIN given'
    BY <1>1, <1>3, <2>1, FS_RemoveElement
  <2> QED BY <1>1, <1>3, <2>1, <2>2, MetricsRest DEF Counted
<1>7. ASSUME UNCHANGED <<posts, counts, given>> PROVE Counted'
  BY <1>1, <1>7, MetricsRest DEF Counted
<1>8. ASSUME NEW t \in Tabs,
             \/ Widget!SkipToMenu(t) \/ Widget!HandleResetFeedback(t) \/ Widget!GreetingTimer(t)
             \/ Widget!HandleOpen(t) \/ Widget!HandleClose(t)
             \/ \E page \in Paths : Widget!Navigate(t, page)
      PROVE  UNCHANGED <<posts, counts, given>>
  BY <1>8 DEF Widget!SkipToMenu, Widget!HandleResetFeedback, Widget!GreetingTimer,
              Widget!HandleOpen, Widget!HandleClose, Widget!Navigate
<1>9. CASE UNCHANGED widget
  BY <1>7, <1>9 DEF widget
<1> QED BY <1>4, <1>5, <1>6, <1>7, <1>8, <1>9 DEF Widget!Next

-----------------------------------------------------------------------------
(***************************************************************************)
(* SecureAIDemo.                                                           *)
(***************************************************************************)

\* What the panels hold.
LEMMA PanelsHold ==
    /\ AI!Chat.characters = tokens /\ (AI!Chat.hint <=> tokens = <<>>)
    /\ AI!Inspector.entries = wire
    /\ AI!Chat.characters' = tokens' /\ (AI!Chat.hint' <=> tokens' = <<>>)
    /\ AI!Inspector.entries' = wire'
BY Zenon DEF AI!Chat, AI!Inspector

\* An answer has frames, and each of them a character.
LEMMA AnswerFrames ==
    ASSUME NEW e \in AI!Examples
    PROVE  /\ Response[e] \in Seq(Nat \ {0}) /\ Len(Response[e]) \in Nat \ {0}
           /\ DOMAIN Response[e] = 1..Len(Response[e])
           /\ \A k \in 1..Len(Response[e]) : Response[e][k] \in Nat \ {0}
<1>1. Response[e] \in Seq(Nat \ {0}) /\ Response[e] # <<>>
  BY ResponseAssumption DEF AI!Examples
<1> QED BY <1>1

\* The entries of a run, one by one.
LEMMA TrafficAt ==
    ASSUME NEW e \in AI!Examples
    PROVE  LET n == Len(Response[e])  traffic == AI!Traffic(e) IN
           /\ DOMAIN traffic = 1..(n + 5) /\ Len(traffic) = n + 5
           /\ traffic[1] = "handshake-req" /\ traffic[2] = "handshake-res" /\ traffic[3] = "request"
           /\ \A i \in 4..(n + 4) : traffic[i] = "sse-frame"
           /\ traffic[n + 5] = "sse-fin"
<1> DEFINE n == Len(Response[e])
<1>1. n \in Nat \ {0}
  BY AnswerFrames
<1>2. DOMAIN AI!Traffic(e) = 1..(n + 5)
  BY DEF AI!Traffic
<1>3. Len(AI!Traffic(e)) = n + 5
  BY <1>1, <1>2 DEF AI!Traffic
<1>4. \A i \in 1..(n + 5) :
          /\ i = 1 => AI!Traffic(e)[i] = "handshake-req"
          /\ i = 2 => AI!Traffic(e)[i] = "handshake-res"
          /\ i = 3 => AI!Traffic(e)[i] = "request"
          /\ i \in 4..(n + 4) => AI!Traffic(e)[i] = "sse-frame"
          /\ i = n + 5 => AI!Traffic(e)[i] = "sse-fin"
  BY <1>1 DEF AI!Traffic
<1> QED BY <1>1, <1>2, <1>3, <1>4

\* A run that goes on to its next delay.
LEMMA RunWaits ==
    ASSUME runs \in Seq(AI!Runs), NEW r \in DOMAIN runs, NEW delay \in AI!Delays, AI!Waits(r, delay)
    PROVE  /\ runs' \in Seq(AI!Runs) /\ Len(runs') = Len(runs) /\ DOMAIN runs' = DOMAIN runs
           /\ \A q \in DOMAIN runs : q # r => runs'[q] = runs[q]
           /\ runs'[r].at = delay /\ runs'[r].example = runs[r].example
           /\ runs'[r].frame = runs[r].frame /\ runs'[r].char = runs[r].char
<1> DEFINE run == [runs[r] EXCEPT !.at = delay]
<1>1. runs' = [runs EXCEPT ![r] = run]
  BY DEF AI!Waits
<1>2. runs[r] \in AI!Runs
  OBVIOUS
<1>3. /\ run \in AI!Runs /\ run.at = delay /\ run.example = runs[r].example
      /\ run.frame = runs[r].frame /\ run.char = runs[r].char
  BY <1>2 DEF AI!Runs
<1> HIDE DEF run
<1>4. /\ runs' \in Seq(AI!Runs) /\ Len(runs') = Len(runs) /\ DOMAIN runs' = DOMAIN runs
      /\ \A q \in DOMAIN runs : q # r => runs'[q] = runs[q]
      /\ runs'[r] = run
  BY <1>1, <1>3
<1> QED BY <1>3, <1>4

\* A run that shows a character.
LEMMA RunShows ==
    ASSUME runs \in Seq(AI!Runs), tokens \in Seq(AI!Characters),
           NEW r \in DOMAIN runs, NEW k \in Nat, NEW j \in Nat, AI!ShowsToken(r, k, j)
    PROVE  /\ runs' \in Seq(AI!Runs) /\ Len(runs') = Len(runs) /\ DOMAIN runs' = DOMAIN runs
           /\ \A q \in DOMAIN runs : q # r => runs'[q] = runs[q]
           /\ runs'[r].at = "character" /\ runs'[r].example = runs[r].example
           /\ runs'[r].frame = k /\ runs'[r].char = j
           /\ tokens' \in Seq(AI!Characters) /\ Len(tokens') = Len(tokens) + 1
           /\ tokens'[Len(tokens) + 1] = [run |-> r, at |-> <<k, j>>]
           /\ \A i \in DOMAIN tokens : tokens'[i] = tokens[i]
<1> DEFINE run == [runs[r] EXCEPT !.at = "character", !.frame = k, !.char = j]
           token == [run |-> r, at |-> <<k, j>>]
<1>1. runs' = [runs EXCEPT ![r] = run] /\ tokens' = Append(tokens, token)
  BY DEF AI!ShowsToken
<1>2. runs[r] \in AI!Runs /\ r \in Nat
  OBVIOUS
<1>3. /\ run \in AI!Runs /\ run.at = "character" /\ run.example = runs[r].example
      /\ run.frame = k /\ run.char = j
  BY <1>2 DEF AI!Runs, AI!Delays
<1>4. token \in AI!Characters
  BY <1>2 DEF AI!Characters
<1> HIDE DEF run, token
<1>5. /\ runs' \in Seq(AI!Runs) /\ Len(runs') = Len(runs) /\ DOMAIN runs' = DOMAIN runs
      /\ \A q \in DOMAIN runs : q # r => runs'[q] = runs[q]
      /\ runs'[r] = run
  BY <1>1, <1>3
<1>6. /\ tokens' \in Seq(AI!Characters) /\ Len(tokens') = Len(tokens) + 1
      /\ tokens'[Len(tokens) + 1] = token /\ \A i \in DOMAIN tokens : tokens'[i] = tokens[i]
  BY <1>1, <1>4
<1> QED BY <1>3, <1>5, <1>6 DEF token

\* An entry is added to the traffic.
LEMMA EntryAdded ==
    ASSUME wire \in Seq(AI!Entries), NEW r \in Nat, NEW kind \in AI!Kinds, AI!AddWire(r, <<kind>>)
    PROVE  /\ wire' \in Seq(AI!Entries) /\ Len(wire') = Len(wire) + 1
           /\ wire'[Len(wire) + 1] = [run |-> r, kind |-> kind]
           /\ \A i \in 1..Len(wire) : wire'[i] = wire[i]
<1> DEFINE entry == [run |-> r, kind |-> kind]
           added == [i \in DOMAIN <<kind>> |-> [run |-> r, kind |-> <<kind>>[i]]]
<1>1. added \in Seq(AI!Entries) /\ Len(added) = 1 /\ added[1] = entry
  <2>1. DOMAIN <<kind>> = 1..1 /\ <<kind>>[1] = kind
    OBVIOUS
  <2>2. entry \in AI!Entries
    BY DEF AI!Entries
  <2>3. DOMAIN added = 1..1 /\ \A i \in 1..1 : added[i] = entry
    BY <2>1
  <2> HIDE DEF added, entry
  <2>4. added \in [1..1 -> AI!Entries]
    <3>1. added = [i \in 1..1 |-> added[i]]
      BY <2>3 DEF added
    <3> QED BY <2>2, <2>3, <3>1
  <2>5. added \in Seq(AI!Entries)
    <3>1. [1..1 -> AI!Entries] \in {[1..n -> AI!Entries] : n \in Nat}
      OBVIOUS
    <3> QED BY <2>4, <3>1, SeqDef, Zenon
  <2>6. Len(added) = 1
    BY <2>3, <2>5
  <2> QED BY <2>3, <2>5, <2>6
<1>2. wire' = wire \o added
  BY DEF AI!AddWire
<1> HIDE DEF added, entry
<1>3. /\ wire \o added \in Seq(AI!Entries) /\ Len(wire \o added) = Len(wire) + Len(added)
      /\ \A i \in 1..Len(wire) + Len(added) :
             (wire \o added)[i] = IF i <= Len(wire) THEN wire[i] ELSE added[i - Len(wire)]
  BY <1>1, ConcatProperties
<1> QED BY <1>1, <1>2, <1>3 DEF entry

\* Two entries are added: the header of a stream and its first frame.
LEMMA EntriesAdded ==
    ASSUME wire \in Seq(AI!Entries), NEW r \in Nat, NEW kind \in AI!Kinds,
           AI!AddWire(r, <<kind, kind>>)
    PROVE  /\ wire' \in Seq(AI!Entries) /\ Len(wire') = Len(wire) + 2
           /\ wire'[Len(wire) + 1] = [run |-> r, kind |-> kind]
           /\ wire'[Len(wire) + 2] = [run |-> r, kind |-> kind]
           /\ \A i \in 1..Len(wire) : wire'[i] = wire[i]
<1> DEFINE entry == [run |-> r, kind |-> kind]
           added == [i \in DOMAIN <<kind, kind>> |-> [run |-> r, kind |-> <<kind, kind>>[i]]]
<1>1. added \in Seq(AI!Entries) /\ Len(added) = 2 /\ added[1] = entry /\ added[2] = entry
  <2>1. DOMAIN <<kind, kind>> = 1..2 /\ <<kind, kind>>[1] = kind /\ <<kind, kind>>[2] = kind
    OBVIOUS
  <2>2. entry \in AI!Entries
    BY DEF AI!Entries
  <2>3. DOMAIN added = 1..2 /\ \A i \in 1..2 : added[i] = entry
    BY <2>1
  <2> HIDE DEF added, entry
  <2>4. added \in [1..2 -> AI!Entries]
    <3>1. added = [i \in 1..2 |-> added[i]]
      BY <2>3 DEF added
    <3> QED BY <2>2, <2>3, <3>1
  <2>5. added \in Seq(AI!Entries)
    <3>1. [1..2 -> AI!Entries] \in {[1..n -> AI!Entries] : n \in Nat}
      OBVIOUS
    <3> QED BY <2>4, <3>1, SeqDef, Zenon
  <2>6. Len(added) = 2
    BY <2>3, <2>5
  <2> QED BY <2>3, <2>5, <2>6
<1>2. wire' = wire \o added
  BY DEF AI!AddWire
<1> HIDE DEF added, entry
<1>3. /\ wire \o added \in Seq(AI!Entries) /\ Len(wire \o added) = Len(wire) + Len(added)
      /\ \A i \in 1..Len(wire) + Len(added) :
             (wire \o added)[i] = IF i <= Len(wire) THEN wire[i] ELSE added[i - Len(wire)]
  BY <1>1, ConcatProperties
<1> QED BY <1>1, <1>2, <1>3 DEF entry

\* Entries added in the order of a run leave the traffic shown in order.
LEMMA TrafficGrows ==
    ASSUME NEW r, AI!ShowsTraffic(r), runs'[r].example = runs[r].example,
           wire \in Seq(AI!Entries), wire' \in Seq(AI!Entries),
           \A i \in 1..Len(wire) : wire'[i] = wire[i],
           \A i \in 1..Len(wire') : i > Len(wire) =>
               /\ i \in DOMAIN AI!Traffic(runs[r].example)
               /\ wire'[i] = [run |-> r, kind |-> AI!Traffic(runs[r].example)[i]]
    PROVE  AI!ShowsTraffic(r)'
<1>1. \A i \in 1..Len(wire) : /\ i \in DOMAIN AI!Traffic(runs[r].example)
                              /\ wire[i] = [run |-> r, kind |-> AI!Traffic(runs[r].example)[i]]
  <2>1. DOMAIN wire = 1..Len(wire)
    OBVIOUS
  <2> QED BY <2>1, PanelsHold, Zenon DEF AI!ShowsTraffic
<1>2. \A i \in DOMAIN wire' : /\ i \in DOMAIN AI!Traffic(runs[r].example)
                              /\ wire'[i] = [run |-> r, kind |-> AI!Traffic(runs[r].example)[i]]
  <2>1. DOMAIN wire' = 1..Len(wire') /\ Len(wire') \in Nat /\ Len(wire) \in Nat
    OBVIOUS
  <2>2. \A i \in 1..Len(wire') : i > Len(wire) \/ i \in 1..Len(wire)
    BY <2>1
  <2> QED BY <1>1, <2>1, <2>2, Zenon
<1>3. AI!Traffic(runs[r].example)' = AI!Traffic(runs[r].example)
  OBVIOUS
<1> QED BY <1>2, <1>3, PanelsHold, Zenon DEF AI!ShowsTraffic

\* The character that comes next leaves the answer shown in order.
LEMMA AnswerGrows ==
    ASSUME NEW r, NEW at, AI!ShowsAnswer(r), runs'[r].example = runs[r].example,
           tokens \in Seq(AI!Characters), tokens' \in Seq(AI!Characters),
           Len(tokens') = Len(tokens) + 1,
           tokens'[Len(tokens) + 1] = [run |-> r, at |-> at],
           \A i \in DOMAIN tokens : tokens'[i] = tokens[i],
           at = IF tokens = <<>> THEN AI!First
                ELSE AI!After(runs[r].example, tokens[Len(tokens)].at)
    PROVE  /\ AI!ShowsAnswer(r)' /\ tokens' # <<>> /\ tokens'[Len(tokens')].at = at
<1> DEFINE n == Len(tokens)  e == runs[r].example
<1>1. /\ n \in Nat /\ DOMAIN tokens = 1..n /\ DOMAIN tokens' = 1..(n + 1)
      /\ tokens = <<>> <=> n = 0
  OBVIOUS
<1>2. tokens' # <<>> /\ tokens'[Len(tokens')].at = at
  BY <1>1
<1>3. \A i \in 1..n : /\ tokens[i].run = r
                      /\ tokens[i].at = IF i = 1 THEN AI!First ELSE AI!After(e, tokens[i - 1].at)
  BY <1>1, PanelsHold, Zenon DEF AI!ShowsAnswer
<1>4. ASSUME NEW i \in 1..(n + 1)
      PROVE  /\ tokens'[i].run = r
             /\ tokens'[i].at = IF i = 1 THEN AI!First ELSE AI!After(e, tokens'[i - 1].at)
  <2>1. CASE i \in 1..n
    <3>1. tokens'[i] = tokens[i] /\ (i # 1 => tokens'[i - 1] = tokens[i - 1])
      BY <1>1, <2>1
    <3> QED BY <1>3, <2>1, <3>1, Zenon
  <2>2. CASE i = n + 1
    <3>1. tokens'[i] = [run |-> r, at |-> at] /\ (i = 1 <=> tokens = <<>>)
          /\ (i # 1 => tokens'[i - 1] = tokens[Len(tokens)])
      BY <1>1, <2>2
    <3> QED BY <3>1
  <2> QED BY <1>1, <2>1, <2>2
<1>5. AI!ShowsAnswer(r)'
  BY <1>1, <1>4, PanelsHold, SMTT(30) DEF AI!ShowsAnswer, AI!After, AI!First
<1> QED BY <1>2, <1>5

\* A step of a run keeps the types, and leaves the other runs and the flag alone.
LEMMA StepTypes ==
    ASSUME AI!TypeOK, NEW r \in DOMAIN runs, AI!Steps(r)
    PROVE  /\ AI!TypeOK' /\ UNCHANGED <<abort, crossed, example, prompt>> /\ AI!Live(r)
           /\ Len(runs') = Len(runs) /\ DOMAIN runs' = DOMAIN runs
           /\ runs'[r].example = runs[r].example
           /\ \A q \in DOMAIN runs : q # r => runs'[q] = runs[q]
<1> DEFINE Phases == {"idle", "handshaking", "encrypting", "streaming", "done"}
           Moves == /\ runs' \in Seq(AI!Runs)
                    /\ Len(runs') = Len(runs) /\ DOMAIN runs' = DOMAIN runs
                    /\ runs'[r].example = runs[r].example
                    /\ \A q \in DOMAIN runs : q # r => runs'[q] = runs[q]
           Added == wire' \in Seq(AI!Entries)
           Shown == tokens' \in Seq(AI!Characters)
<1>1. /\ phase \in Phases /\ abort \in BOOLEAN /\ crossed \in BOOLEAN
      /\ example \in AI!Examples /\ prompt \in AI!Prompts
      /\ runs \in Seq(AI!Runs) /\ tokens \in Seq(AI!Characters) /\ wire \in Seq(AI!Entries)
  BY Zenon DEF AI!TypeOK
<1>2. r \in Nat /\ runs[r] \in AI!Runs
  BY <1>1
<1>3. runs[r].frame \in Nat /\ runs[r].char \in Nat
  BY <1>2 DEF AI!Runs
<1>4. ASSUME NEW delay \in AI!Delays, AI!Waits(r, delay)
      PROVE  Moves
  BY <1>1, <1>4, RunWaits, Zenon
<1>5. ASSUME NEW k \in Nat, NEW j \in Nat, AI!ShowsToken(r, k, j)
      PROVE  Moves /\ Shown
  BY <1>1, <1>5, RunShows, Zenon
<1>6. ASSUME NEW kind \in AI!Kinds, AI!AddWire(r, <<kind>>) \/ AI!AddWire(r, <<kind, kind>>)
      PROVE  Added
  BY <1>1, <1>2, <1>6, EntryAdded, EntriesAdded, Zenon
<1>7. /\ "encrypting" \in Phases /\ "streaming" \in Phases /\ "done" \in Phases
      /\ "handshake-req" \in AI!Kinds /\ "handshake-res" \in AI!Kinds /\ "request" \in AI!Kinds
      /\ "sse-frame" \in AI!Kinds /\ "sse-fin" \in AI!Kinds
  BY DEF AI!Kinds
<1>8. /\ "handshake-res" \in AI!Delays /\ "request" \in AI!Delays /\ "header" \in AI!Delays
      /\ "frame" \in AI!Delays /\ "over" \in AI!Delays
      /\ \A at \in {"handshake-req", "handshake-res", "request", "header", "character", "frame"} :
             at # "over"
  BY DEF AI!Delays
<1>9. /\ UNCHANGED phase => phase' \in Phases
      /\ UNCHANGED wire => Added
      /\ UNCHANGED tokens => Shown
  BY <1>1, Zenon
<1> HIDE DEF Phases, Moves, Added, Shown
<1>10. /\ phase' \in Phases /\ Moves /\ Shown /\ Added
       /\ UNCHANGED <<abort, crossed, example, prompt>> /\ runs[r].at # "over"
  <2>1. CASE AI!HandshakeRequest(r)
    <3>1. /\ AI!AddWire(r, <<"handshake-req">>) /\ AI!Waits(r, "handshake-res")
          /\ UNCHANGED <<phase, tokens, abort, example, prompt, crossed>>
          /\ runs[r].at = "handshake-req"
      BY <2>1, Zenon DEF AI!HandshakeRequest
    <3> QED BY <1>4, <1>6, <1>7, <1>8, <1>9, <3>1, Zenon
  <2>2. CASE AI!HandshakeResponse(r)
    <3>1. /\ AI!AddWire(r, <<"handshake-res">>)
          /\ AI!Waits(r, "over") \/ AI!Waits(r, "request")
          /\ phase' = phase \/ phase' = "encrypting"
          /\ UNCHANGED <<tokens, abort, example, prompt, crossed>>
          /\ runs[r].at = "handshake-res"
      BY <2>2 DEF AI!HandshakeResponse
    <3> QED BY <1>4, <1>6, <1>7, <1>8, <1>9, <3>1, Zenon
  <2>3. CASE AI!Request(r)
    <3>1. /\ AI!AddWire(r, <<"request">>)
          /\ AI!Waits(r, "over") \/ AI!Waits(r, "header")
          /\ phase' = phase \/ phase' = "streaming"
          /\ UNCHANGED <<tokens, abort, example, prompt, crossed>>
          /\ runs[r].at = "request"
      BY <2>3 DEF AI!Request
    <3> QED BY <1>4, <1>6, <1>7, <1>8, <1>9, <3>1, Zenon
  <2>4. CASE AI!StreamHeader(r)
    <3>1. /\ UNCHANGED <<phase, abort, example, prompt, crossed>> /\ runs[r].at = "header"
          /\ \/ AI!AddWire(r, <<"sse-frame">>) /\ AI!Waits(r, "over") /\ UNCHANGED tokens
             \/ AI!AddWire(r, <<"sse-frame", "sse-frame">>) /\ AI!ShowsToken(r, 1, 1)
      BY <2>4, Zenon DEF AI!StreamHeader
    <3> QED BY <1>4, <1>5, <1>6, <1>7, <1>8, <1>9, <3>1, Zenon
  <2>5. CASE AI!Character(r)
    <3> DEFINE k == runs[r].frame  j == runs[r].char + 1
    <3>1. /\ UNCHANGED <<phase, wire, abort, example, prompt, crossed>>
          /\ runs[r].at = "character"
          /\ \/ (AI!Waits(r, "frame") \/ AI!Waits(r, "over")) /\ UNCHANGED tokens
             \/ AI!ShowsToken(r, k, j)
      BY <2>5 DEF AI!Character
    <3>2. k \in Nat /\ j \in Nat
      BY <1>3
    <3> HIDE DEF k, j
    <3> QED BY <1>4, <1>5, <1>7, <1>8, <1>9, <3>1, <3>2, Zenon
  <2>6. CASE AI!Frame(r)
    <3> DEFINE k == runs[r].frame + 1
    <3>1. /\ UNCHANGED <<abort, example, prompt, crossed>> /\ runs[r].at = "frame"
          /\ \/ AI!Waits(r, "over") /\ UNCHANGED <<phase, tokens, wire>>
             \/ AI!AddWire(r, <<"sse-frame">>) /\ AI!ShowsToken(r, k, 1) /\ UNCHANGED phase
             \/ /\ AI!AddWire(r, <<"sse-fin">>) /\ AI!Waits(r, "over")
                /\ phase' = "done" /\ UNCHANGED tokens
      BY <2>6 DEF AI!Frame
    <3>2. k \in Nat
      BY <1>3
    <3> HIDE DEF k
    <3> QED BY <1>4, <1>5, <1>6, <1>7, <1>8, <1>9, <3>1, <3>2, Zenon
  <2> QED BY <2>1, <2>2, <2>3, <2>4, <2>5, <2>6, Zenon DEF AI!Steps
<1>11. AI!TypeOK'
  BY <1>1, <1>10, Zenon DEF AI!TypeOK, Phases, Moves, Added, Shown
<1> QED BY <1>10, <1>11, Zenon DEF AI!Live, Moves

\* The last run is the one played.
LEMMA LastRun ==
    ASSUME NEW r, runs' # <<>>, Len(runs') = r, ~abort', AI!Shows(r)', AI!WaitsWith(r)'
    PROVE  AI!PlayInv'
BY Zenon DEF AI!PlayInv

\* A step of the run that is played plays on: it adds what comes next.
LEMMA StepPlays ==
    ASSUME AI!TypeOK, AI!PlayInv, NEW r \in DOMAIN runs, r = Len(runs), AI!Steps(r)
    PROVE  AI!PlayInv' /\ (phase # "idle" => phase' # "idle")
<1> DEFINE frames == Response[example]  n == Len(frames)
<1>1. /\ example \in AI!Examples /\ runs \in Seq(AI!Runs)
      /\ tokens \in Seq(AI!Characters) /\ wire \in Seq(AI!Entries)
      /\ runs[r].example = example /\ runs # <<>> /\ abort = FALSE
      /\ AI!ShowsAnswer(r) /\ AI!ShowsTraffic(r) /\ AI!WaitsWith(r)
  <2>1. abort \in BOOLEAN /\ ~abort
    BY Zenon DEF AI!TypeOK, AI!PlayInv
  <2> QED BY <2>1, Zenon DEF AI!TypeOK, AI!PlayInv, AI!Shows
<1>2. /\ n \in Nat \ {0} /\ DOMAIN frames = 1..n
      /\ \A k \in 1..n : frames[k] \in Nat \ {0}
  BY <1>1, AnswerFrames, Zenon
<1>3. /\ AI!TypeOK' /\ Len(runs') = Len(runs) /\ runs'[r].example = runs[r].example
      /\ example' = example /\ abort' = abort
  BY StepTypes, Zenon
<1>4. /\ tokens' \in Seq(AI!Characters) /\ wire' \in Seq(AI!Entries) /\ runs' \in Seq(AI!Runs)
  BY <1>3, Zenon DEF AI!TypeOK
<1>5. /\ Len(wire) \in Nat /\ r \in Nat /\ runs[r] \in AI!Runs
  BY <1>1
<1>6. /\ runs[r].frame \in Nat /\ runs[r].char \in Nat
  BY <1>5 DEF AI!Runs
<1>7. ASSUME NEW kind \in AI!Kinds, AI!AddWire(r, <<kind>>),
             Len(wire) < n + 5, kind = AI!Traffic(example)[Len(wire) + 1]
      PROVE  AI!ShowsTraffic(r)' /\ Len(wire') = Len(wire) + 1
  <2>1. /\ Len(wire') = Len(wire) + 1 /\ wire'[Len(wire) + 1] = [run |-> r, kind |-> kind]
        /\ \A i \in 1..Len(wire) : wire'[i] = wire[i]
    BY <1>1, <1>5, <1>7, EntryAdded, Zenon
  <2>2. DOMAIN AI!Traffic(example) = 1..(n + 5)
    BY <1>1, TrafficAt
  <2>3. \A i \in 1..Len(wire') : i > Len(wire) => i = Len(wire) + 1
    BY <1>5, <2>1
  <2>4. Len(wire) + 1 \in 1..(n + 5)
    BY <1>2, <1>5, <1>7
  <2> QED BY <1>1, <1>3, <1>4, <1>7, <2>1, <2>2, <2>3, <2>4, TrafficGrows, Zenon
<1>8. /\ UNCHANGED wire => AI!ShowsTraffic(r)'
      /\ UNCHANGED tokens => AI!ShowsAnswer(r)'
  <2>1. AI!Traffic(runs[r].example)' = AI!Traffic(runs[r].example)
    BY <1>3
  <2>2. UNCHANGED wire => AI!ShowsTraffic(r)'
    BY <1>1, <2>1, PanelsHold, Zenon DEF AI!ShowsTraffic
  <2>3. UNCHANGED tokens => AI!ShowsAnswer(r)'
    BY <1>1, <1>3, PanelsHold, Zenon DEF AI!ShowsAnswer, AI!After, AI!First
  <2> QED BY <2>2, <2>3
<1>9. ASSUME NEW k \in Nat, NEW j \in Nat, AI!ShowsToken(r, k, j),
             <<k, j>> = IF tokens = <<>> THEN AI!First
                        ELSE AI!After(example, tokens[Len(tokens)].at)
      PROVE  /\ AI!ShowsAnswer(r)' /\ tokens' # <<>> /\ tokens'[Len(tokens')].at = <<k, j>>
             /\ runs'[r].at = "character" /\ runs'[r].frame = k /\ runs'[r].char = j
  <2>1. /\ runs'[r].at = "character" /\ runs'[r].frame = k /\ runs'[r].char = j
        /\ Len(tokens') = Len(tokens) + 1
        /\ tokens'[Len(tokens) + 1] = [run |-> r, at |-> <<k, j>>]
        /\ \A i \in DOMAIN tokens : tokens'[i] = tokens[i]
    BY <1>1, <1>9, RunShows, SMTT(30)
  <2>2. AI!ShowsAnswer(r)' /\ tokens' # <<>> /\ tokens'[Len(tokens')].at = <<k, j>>
    BY <1>1, <1>3, <1>4, <1>9, <2>1, AnswerGrows, Zenon
  <2> QED BY <2>1, <2>2
<1>10. ASSUME NEW delay \in AI!Delays, AI!Waits(r, delay)
       PROVE  /\ runs'[r].at = delay /\ runs'[r].frame = runs[r].frame
              /\ runs'[r].char = runs[r].char
  BY <1>1, <1>10, RunWaits, Zenon
<1>11. ASSUME AI!ShowsAnswer(r)', AI!ShowsTraffic(r)', AI!WaitsWith(r)',
              phase' = "done" => AI!ShowsAll(r)'
       PROVE  AI!PlayInv'
  <2>1. AI!Shows(r)'
    BY <1>1, <1>3, <1>11, Zenon DEF AI!Shows
  <2>2. runs' # <<>>
    BY <1>1, <1>3, <1>4
  <2> QED BY <1>1, <1>3, <1>11, <2>1, <2>2, LastRun, Zenon
<1>12. /\ AI!Traffic(example)[1] = "handshake-req" /\ AI!Traffic(example)[2] = "handshake-res"
       /\ AI!Traffic(example)[3] = "request" /\ AI!Traffic(example)[n + 5] = "sse-fin"
       /\ \A i \in 4..(n + 4) : AI!Traffic(example)[i] = "sse-frame"
       /\ Len(AI!Traffic(example)) = n + 5 /\ DOMAIN AI!Traffic(example) = 1..(n + 5)
  BY <1>1, TrafficAt
<1>13. /\ \A delay \in {"handshake-res", "request", "header", "frame", "over"} : delay \in AI!Delays
       /\ \A kind \in {"handshake-req", "handshake-res", "request", "sse-frame", "sse-fin"} :
              kind \in AI!Kinds
  BY DEF AI!Delays, AI!Kinds
<1>14. CASE AI!HandshakeRequest(r)
  <2>1. /\ AI!AddWire(r, <<"handshake-req">>) /\ AI!Waits(r, "handshake-res")
        /\ UNCHANGED <<phase, tokens>> /\ runs[r].at = "handshake-req"
    BY <1>14, Zenon DEF AI!HandshakeRequest
  <2>2. Len(wire) = 0 /\ tokens = <<>> /\ phase = "handshaking"
    BY <1>1, <2>1 DEF AI!WaitsWith, AI!AddedEntries
  <2>3. AI!ShowsTraffic(r)' /\ Len(wire') = 1
    BY <1>2, <1>7, <1>12, <1>13, <2>1, <2>2
  <2>4. runs'[r].at = "handshake-res"
    BY <1>10, <1>13, <2>1
  <2>5. AI!WaitsWith(r)'
    BY <2>1, <2>2, <2>3, <2>4 DEF AI!WaitsWith, AI!AddedEntries
  <2> QED BY <1>8, <1>11, <2>1, <2>2, <2>3, <2>5
<1>15. CASE AI!HandshakeResponse(r)
  <2>1. /\ AI!AddWire(r, <<"handshake-res">>) /\ AI!Waits(r, "request")
        /\ phase' = "encrypting" /\ UNCHANGED tokens /\ runs[r].at = "handshake-res"
    BY <1>1, <1>15, Zenon DEF AI!HandshakeResponse
  <2>2. Len(wire) = 1 /\ tokens = <<>>
    BY <1>1, <2>1 DEF AI!WaitsWith, AI!AddedEntries
  <2>3. AI!ShowsTraffic(r)' /\ Len(wire') = 2
    BY <1>2, <1>7, <1>12, <1>13, <2>1, <2>2
  <2>4. runs'[r].at = "request"
    BY <1>10, <1>13, <2>1
  <2>5. AI!WaitsWith(r)'
    BY <2>1, <2>2, <2>3, <2>4 DEF AI!WaitsWith, AI!AddedEntries
  <2> QED BY <1>8, <1>11, <2>1, <2>2, <2>3, <2>5
<1>16. CASE AI!Request(r)
  <2>1. /\ AI!AddWire(r, <<"request">>) /\ AI!Waits(r, "header")
        /\ phase' = "streaming" /\ UNCHANGED tokens /\ runs[r].at = "request"
    BY <1>1, <1>16, Zenon DEF AI!Request
  <2>2. Len(wire) = 2 /\ tokens = <<>>
    BY <1>1, <2>1 DEF AI!WaitsWith, AI!AddedEntries
  <2>3. AI!ShowsTraffic(r)' /\ Len(wire') = 3
    BY <1>2, <1>7, <1>12, <1>13, <2>1, <2>2
  <2>4. runs'[r].at = "header"
    BY <1>10, <1>13, <2>1
  <2>5. AI!WaitsWith(r)'
    BY <2>1, <2>2, <2>3, <2>4 DEF AI!WaitsWith, AI!AddedEntries
  <2> QED BY <1>8, <1>11, <2>1, <2>2, <2>3, <2>5
<1>17. CASE AI!StreamHeader(r)
  <2>1. /\ AI!AddWire(r, <<"sse-frame", "sse-frame">>) /\ AI!ShowsToken(r, 1, 1)
        /\ UNCHANGED phase /\ runs[r].at = "header"
    BY <1>1, <1>17, Zenon DEF AI!StreamHeader
  <2>2. Len(wire) = 3 /\ tokens = <<>> /\ phase = "streaming"
    BY <1>1, <2>1 DEF AI!WaitsWith, AI!AddedEntries
  <2>3. /\ Len(wire') = 5 /\ wire'[4] = [run |-> r, kind |-> "sse-frame"]
        /\ wire'[5] = [run |-> r, kind |-> "sse-frame"]
        /\ \A i \in 1..Len(wire) : wire'[i] = wire[i]
    <3>1. "sse-frame" \in AI!Kinds
      BY <1>13
    <3>2. /\ Len(wire') = Len(wire) + 2 /\ wire'[Len(wire) + 1] = [run |-> r, kind |-> "sse-frame"]
          /\ wire'[Len(wire) + 2] = [run |-> r, kind |-> "sse-frame"]
          /\ \A i \in 1..Len(wire) : wire'[i] = wire[i]
      BY <1>1, <1>5, <2>1, <3>1, EntriesAdded, Zenon
    <3> QED BY <2>2, <3>2
  <2>4. AI!ShowsTraffic(r)'
    <3>1. \A i \in 1..Len(wire') : i > Len(wire) =>
              /\ i \in DOMAIN AI!Traffic(example)
              /\ wire'[i] = [run |-> r, kind |-> AI!Traffic(example)[i]]
      <4>1. \A i \in 1..5 : i > 3 => i = 4 \/ i = 5
        OBVIOUS
      <4>2. 4 \in 4..(n + 4) /\ 5 \in 4..(n + 4) /\ 4 \in 1..(n + 5) /\ 5 \in 1..(n + 5)
        BY <1>2
      <4> QED BY <1>12, <2>2, <2>3, <4>1, <4>2, Zenon
    <3> QED BY <1>1, <1>3, <1>4, <2>3, <3>1, TrafficGrows, Zenon
  <2>5. /\ AI!ShowsAnswer(r)' /\ tokens' # <<>> /\ tokens'[Len(tokens')].at = <<1, 1>>
        /\ runs'[r].at = "character" /\ runs'[r].frame = 1 /\ runs'[r].char = 1
    <3>1. 1 \in Nat /\ <<1, 1>> = AI!First
      BY DEF AI!First
    <3> QED BY <1>9, <2>1, <2>2, <3>1, Zenon
  <2>6. AI!WaitsWith(r)'
    <3>1. 1 \in DOMAIN frames /\ 1 \in 1..frames[1]
      BY <1>2
    <3> QED BY <1>3, <2>1, <2>2, <2>3, <2>5, <3>1 DEF AI!WaitsWith, AI!AddedUpTo
  <2> QED BY <1>11, <2>1, <2>2, <2>4, <2>5, <2>6
<1>18. CASE AI!Character(r)
  <2> DEFINE k == runs[r].frame  j == runs[r].char
  <2>1. /\ UNCHANGED <<phase, wire>> /\ runs[r].at = "character"
        /\ \/ j + 1 > frames[k] /\ AI!Waits(r, "frame") /\ UNCHANGED tokens
           \/ ~(j + 1 > frames[k]) /\ AI!ShowsToken(r, k, j + 1)
    BY <1>1, <1>18, Zenon DEF AI!Character
  <2>2. /\ phase = "streaming" /\ Len(wire) = 4 + k /\ tokens # <<>>
        /\ tokens[Len(tokens)].at = <<k, j>> /\ k \in 1..n /\ j \in 1..frames[k]
    BY <1>1, <1>2, <2>1 DEF AI!WaitsWith, AI!AddedUpTo
  <2>3. frames[k] \in Nat
    BY <1>2, <2>2
  <2>4. CASE j + 1 > frames[k] /\ AI!Waits(r, "frame") /\ UNCHANGED tokens
    <3>1. runs'[r].at = "frame" /\ runs'[r].frame = k /\ runs'[r].char = j
      BY <1>10, <1>13, <2>4
    <3>2. j = frames[k]
      BY <2>2, <2>3, <2>4
    <3>3. AI!WaitsWith(r)'
      BY <1>2, <1>3, <2>1, <2>2, <2>4, <3>1, <3>2 DEF AI!WaitsWith, AI!AddedUpTo
    <3> QED BY <1>8, <1>11, <2>1, <2>2, <2>4, <3>3
  <2>5. CASE ~(j + 1 > frames[k]) /\ AI!ShowsToken(r, k, j + 1)
    <3>1. j + 1 \in 1..frames[k] /\ j < frames[k] /\ k \in Nat /\ j + 1 \in Nat
      BY <2>2, <2>3, <2>5
    <3>2. <<k, j + 1>> = AI!After(example, <<k, j>>)
      BY <3>1 DEF AI!After
    <3>3. /\ AI!ShowsAnswer(r)' /\ tokens' # <<>> /\ tokens'[Len(tokens')].at = <<k, j + 1>>
          /\ runs'[r].at = "character" /\ runs'[r].frame = k /\ runs'[r].char = j + 1
      BY <1>9, <2>2, <2>5, <3>1, <3>2, Zenon
    <3>4. AI!WaitsWith(r)'
      BY <1>2, <1>3, <2>1, <2>2, <3>1, <3>3 DEF AI!WaitsWith, AI!AddedUpTo
    <3> QED BY <1>8, <1>11, <2>1, <2>2, <3>3, <3>4
  <2> QED BY <2>1, <2>4, <2>5, Zenon
<1>19. CASE AI!Frame(r)
  <2> DEFINE k == runs[r].frame  j == runs[r].char
  <2>1. /\ runs[r].at = "frame"
        /\ \/ /\ k + 1 \in DOMAIN frames /\ AI!AddWire(r, <<"sse-frame">>)
              /\ AI!ShowsToken(r, k + 1, 1) /\ UNCHANGED phase
           \/ /\ k + 1 \notin DOMAIN frames /\ AI!AddWire(r, <<"sse-fin">>)
              /\ AI!Waits(r, "over") /\ phase' = "done" /\ UNCHANGED tokens
    BY <1>1, <1>19 DEF AI!Frame
  <2>2. /\ phase = "streaming" /\ Len(wire) = 4 + k /\ tokens # <<>>
        /\ tokens[Len(tokens)].at = <<k, j>> /\ k \in 1..n /\ j = frames[k]
    BY <1>1, <1>2, <2>1 DEF AI!WaitsWith, AI!AddedUpTo
  <2>3. CASE /\ k + 1 \in DOMAIN frames /\ AI!AddWire(r, <<"sse-frame">>)
             /\ AI!ShowsToken(r, k + 1, 1) /\ UNCHANGED phase
    <3>1. /\ k + 1 \in 1..n /\ k + 1 \in Nat /\ 1 \in Nat /\ 1 \in 1..frames[k + 1]
          /\ (4 + k) + 1 \in 4..(n + 4)
      BY <1>2, <2>2, <2>3, SMTT(30)
    <3>2. <<k + 1, 1>> = AI!After(example, <<k, j>>)
      <4>1. ~(j < frames[k])
        BY <1>2, <2>2
      <4> QED BY <4>1 DEF AI!After
    <3>3. /\ AI!ShowsAnswer(r)' /\ tokens' # <<>> /\ tokens'[Len(tokens')].at = <<k + 1, 1>>
          /\ runs'[r].at = "character" /\ runs'[r].frame = k + 1 /\ runs'[r].char = 1
      BY <1>9, <2>2, <2>3, <3>1, <3>2, Zenon
    <3>4. AI!ShowsTraffic(r)' /\ Len(wire') = 4 + (k + 1)
      <4>1. /\ Len(wire) + 1 \in 4..(n + 4) /\ Len(wire) < n + 5
            /\ Len(wire) + 1 = 4 + (k + 1)
        BY <1>2, <2>2, <3>1, SMTT(30)
      <4>2. "sse-frame" \in AI!Kinds /\ "sse-frame" = AI!Traffic(example)[Len(wire) + 1]
        BY <1>12, <1>13, <4>1
      <4> QED BY <1>7, <2>3, <4>1, <4>2
    <3>5. AI!WaitsWith(r)'
      BY <1>2, <1>3, <2>2, <2>3, <3>1, <3>3, <3>4 DEF AI!WaitsWith, AI!AddedUpTo
    <3> QED BY <1>11, <2>2, <2>3, <3>3, <3>4, <3>5
  <2>4. CASE /\ k + 1 \notin DOMAIN frames /\ AI!AddWire(r, <<"sse-fin">>)
             /\ AI!Waits(r, "over") /\ phase' = "done" /\ UNCHANGED tokens
    <3>1. k = n
      BY <1>2, <2>2, <2>4
    <3>2. AI!ShowsTraffic(r)' /\ Len(wire') = n + 5
      BY <1>2, <1>7, <1>12, <1>13, <2>2, <2>4, <3>1
    <3>3. runs'[r].at = "over"
      BY <1>10, <1>13, <2>4
    <3>4. tokens'[Len(tokens')].at = AI!Last(example) /\ tokens' # <<>>
      BY <2>2, <2>4, <3>1 DEF AI!Last
    <3>5. AI!WaitsWith(r)'
      BY <1>3, <2>4, <3>2, <3>3, <3>4 DEF AI!WaitsWith, AI!AddedUpTo
    <3>6. AI!ShowsAll(r)'
      BY <1>1, <1>3, <1>12, <3>2, <3>4, PanelsHold DEF AI!ShowsAll
    <3> QED BY <1>8, <1>11, <2>4, <3>2, <3>5, <3>6
  <2> QED BY <2>1, <2>3, <2>4, Zenon
<1> QED BY <1>14, <1>15, <1>16, <1>17, <1>18, <1>19, Zenon DEF AI!Steps

\* A step of a run that was left: it finds the flag set, and stops at once but
\* for the entry it adds before it reads the flag.
LEMMA StepLeaves ==
    ASSUME AI!TypeOK, AI!LeftInv, NEW r \in DOMAIN runs, r = Len(runs), AI!Steps(r)
    PROVE  AI!LeftInv' /\ UNCHANGED phase
<1>1. /\ runs \in Seq(AI!Runs) /\ tokens \in Seq(AI!Characters) /\ wire \in Seq(AI!Entries)
  BY Zenon DEF AI!TypeOK
<1>2. runs # <<>> /\ r \in Nat /\ Len(wire) \in Nat
  BY <1>1
<1>3. /\ AI!TypeOK' /\ Len(runs') = Len(runs) /\ abort' = abort /\ runs[r].at # "over"
  BY StepTypes, Zenon DEF AI!Live
<1>4. /\ runs' \in Seq(AI!Runs) /\ runs' # <<>> /\ wire' \in Seq(AI!Entries)
  <2>1. runs' \in Seq(AI!Runs) /\ wire' \in Seq(AI!Entries)
    BY <1>3, Zenon DEF AI!TypeOK
  <2> QED BY <1>1, <1>2, <1>3, <2>1
<1>5. /\ tokens = <<>> /\ abort = TRUE
      /\ runs[r].at = "handshake-res" => Len(wire) <= 1
      /\ runs[r].at # "handshake-res" => wire = <<>>
  <2>1. abort \in BOOLEAN /\ abort
    BY <1>2, <1>3, Zenon DEF AI!TypeOK, AI!LeftInv
  <2>2. runs[r].at \notin {"handshake-res", "over"} => wire = <<>>
    BY <1>2, Zenon DEF AI!LeftInv
  <2> QED BY <1>2, <1>3, <2>1, <2>2 DEF AI!LeftInv
<1>6. ASSUME NEW kind \in AI!Kinds, AI!AddWire(r, <<kind>>)
      PROVE  Len(wire') = Len(wire) + 1
  BY <1>1, <1>2, <1>6, EntryAdded, Zenon
<1>7. ASSUME NEW delay \in AI!Delays, AI!Waits(r, delay)
      PROVE  runs'[r].at = delay
  BY <1>1, <1>7, RunWaits, Zenon
<1>8. /\ "handshake-req" \in AI!Kinds /\ "handshake-res" \in AI!Kinds /\ "request" \in AI!Kinds
      /\ "sse-frame" \in AI!Kinds
      /\ "handshake-res" \in AI!Delays /\ "frame" \in AI!Delays /\ "over" \in AI!Delays
  BY DEF AI!Delays, AI!Kinds
<1>9. ASSUME tokens' = <<>>, Len(wire') <= 2,
             runs'[r].at = "handshake-res" => Len(wire') <= 1,
             runs'[r].at \notin {"handshake-res", "over"} => wire' = <<>>
      PROVE  AI!LeftInv'
  <2>1. abort' = TRUE
    BY <1>3, <1>5
  <2> QED BY <1>3, <1>4, <1>9, <2>1 DEF AI!LeftInv
<1>10. CASE AI!HandshakeRequest(r)
  <2>1. /\ AI!AddWire(r, <<"handshake-req">>) /\ AI!Waits(r, "handshake-res")
        /\ UNCHANGED <<phase, tokens>> /\ runs[r].at = "handshake-req"
    BY <1>10, Zenon DEF AI!HandshakeRequest
  <2>2. Len(wire') = 1 /\ runs'[r].at = "handshake-res"
    BY <1>5, <1>6, <1>7, <1>8, <2>1
  <2> QED BY <1>5, <1>9, <2>1, <2>2
<1>11. CASE AI!HandshakeResponse(r)
  <2>1. /\ AI!AddWire(r, <<"handshake-res">>) /\ AI!Waits(r, "over")
        /\ UNCHANGED <<phase, tokens>> /\ runs[r].at = "handshake-res"
    BY <1>5, <1>11, Zenon DEF AI!HandshakeResponse
  <2>2. Len(wire') <= 2 /\ runs'[r].at = "over"
    BY <1>2, <1>5, <1>6, <1>7, <1>8, <2>1
  <2> QED BY <1>5, <1>9, <2>1, <2>2
<1>12. CASE AI!Request(r)
  <2>1. /\ AI!AddWire(r, <<"request">>) /\ AI!Waits(r, "over")
        /\ UNCHANGED <<phase, tokens>> /\ runs[r].at = "request"
    BY <1>5, <1>12, Zenon DEF AI!Request
  <2>2. Len(wire') = 1 /\ runs'[r].at = "over"
    BY <1>5, <1>6, <1>7, <1>8, <2>1
  <2> QED BY <1>5, <1>9, <2>1, <2>2
<1>13. CASE AI!StreamHeader(r)
  <2>1. /\ AI!AddWire(r, <<"sse-frame">>) /\ AI!Waits(r, "over")
        /\ UNCHANGED <<phase, tokens>> /\ runs[r].at = "header"
    BY <1>5, <1>13, Zenon DEF AI!StreamHeader
  <2>2. Len(wire') = 1 /\ runs'[r].at = "over"
    BY <1>5, <1>6, <1>7, <1>8, <2>1
  <2> QED BY <1>5, <1>9, <2>1, <2>2
<1>14. CASE AI!Character(r)
  <2>1. /\ AI!Waits(r, "over") \/ AI!Waits(r, "frame")
        /\ UNCHANGED <<phase, tokens, wire>> /\ runs[r].at = "character"
    BY <1>5, <1>14, Zenon DEF AI!Character
  <2>2. wire' = <<>> /\ (runs'[r].at = "over" \/ runs'[r].at = "frame")
    BY <1>5, <1>7, <1>8, <2>1
  <2> QED BY <1>5, <1>9, <2>1, <2>2
<1>15. CASE AI!Frame(r)
  <2>1. /\ AI!Waits(r, "over") /\ UNCHANGED <<phase, tokens, wire>> /\ runs[r].at = "frame"
    BY <1>5, <1>15 DEF AI!Frame
  <2>2. wire' = <<>> /\ runs'[r].at = "over"
    BY <1>5, <1>7, <1>8, <2>1
  <2> QED BY <1>5, <1>9, <2>1, <2>2
<1> QED BY <1>10, <1>11, <1>12, <1>13, <1>14, <1>15, Zenon DEF AI!Steps

\* At first nothing has been run.
LEMMA CardStarts == AI!Init => AI!CardInv
<1> SUFFICES ASSUME AI!Init PROVE AI!CardInv
  OBVIOUS
<1>1. /\ phase = "idle" /\ tokens = <<>> /\ wire = <<>> /\ abort = FALSE
      /\ example = 1 /\ prompt = 1 /\ runs = <<>> /\ crossed = FALSE
  BY Zenon DEF AI!Init
<1>2. 1 \in AI!Examples /\ 1 \in AI!Prompts
  BY ResponseAssumption DEF AI!Examples, AI!Prompts
<1>3. /\ runs \in Seq(AI!Runs) /\ tokens \in Seq(AI!Characters) /\ wire \in Seq(AI!Entries)
      /\ Len(wire) <= 2
  BY <1>1
<1>4. AI!TypeOK
  BY <1>1, <1>2, <1>3, Zenon DEF AI!TypeOK
<1>5. AI!LeftInv
  BY <1>1, <1>3, Zenon DEF AI!LeftInv
<1>6. 1..(Len(runs) - 1) = {}
  BY <1>1
<1> QED BY <1>1, <1>4, <1>5, <1>6, Zenon DEF AI!CardInv, AI!OneRunInv

\* Send: the new run is the only one, unless an earlier one is suspended.
LEMMA RunBegins == ASSUME AI!CardInv, AI!Run PROVE AI!CardInv'
<1> DEFINE run == [at |-> "handshake-req", example |-> example, frame |-> 0, char |-> 0,
                   prompt |-> IF prompt = AI!Blank THEN example ELSE prompt]
<1>1. /\ phase \in {"idle", "handshaking", "encrypting", "streaming", "done"}
      /\ crossed \in BOOLEAN /\ example \in AI!Examples /\ prompt \in AI!Prompts
      /\ runs \in Seq(AI!Runs)
  BY Zenon DEF AI!CardInv, AI!TypeOK
<1>2. /\ abort' = FALSE /\ tokens' = <<>> /\ wire' = <<>> /\ phase' = "handshaking"
      /\ crossed' = (crossed \/ \E r \in DOMAIN runs : AI!Live(r))
      /\ runs' = Append(runs, run) /\ UNCHANGED <<example, prompt>>
  BY Zenon DEF AI!Run
<1>3. run \in AI!Runs /\ run.at = "handshake-req" /\ run.example = example
  <2>1. example \in AI!Prompts
    BY <1>1, ResponseAssumption DEF AI!Prompts, AI!Examples
  <2>2. (IF prompt = AI!Blank THEN example ELSE prompt) \in AI!Prompts
    BY <1>1, <2>1
  <2>3. "handshake-req" \in AI!Delays
    BY DEF AI!Delays
  <2> QED BY <1>1, <2>2, <2>3 DEF AI!Runs
<1> HIDE DEF run
<1>4. PICK n \in Nat : n = Len(runs)
  BY <1>1
<1>5. /\ runs' \in Seq(AI!Runs) /\ runs' # <<>> /\ Len(runs') = n + 1 /\ runs'[n + 1] = run
      /\ DOMAIN runs = 1..n /\ \A q \in 1..n : runs'[q] = runs[q]
  BY <1>1, <1>2, <1>3, <1>4
<1>6. /\ tokens' \in Seq(AI!Characters) /\ wire' \in Seq(AI!Entries) /\ Len(wire') = 0
      /\ DOMAIN tokens' = {} /\ DOMAIN wire' = {}
  BY <1>2
<1>7. AI!TypeOK'
  BY <1>1, <1>2, <1>5, <1>6, Zenon DEF AI!TypeOK
<1>8. AI!Shows(n + 1)'
  BY <1>2, <1>3, <1>5, <1>6, PanelsHold DEF AI!Shows, AI!ShowsAnswer, AI!ShowsTraffic
<1>9. AI!WaitsWith(n + 1)'
  BY <1>2, <1>3, <1>5, <1>6 DEF AI!WaitsWith, AI!AddedEntries
<1>10. AI!PlayInv'
  BY <1>2, <1>5, <1>8, <1>9, LastRun, Zenon
<1>11. ASSUME ~crossed'
       PROVE  \A q \in 1..n : ~AI!Live(q)'
  BY <1>2, <1>5, <1>11, Zenon DEF AI!Live
<1>12. (n + 1) - 1 = n /\ phase' # "idle"
  BY <1>2
<1>13. AI!OneRunInv'
  BY <1>5, <1>10, <1>11, <1>12, Zenon DEF AI!OneRunInv
<1> QED BY <1>7, <1>13, Zenon DEF AI!CardInv

\* What the card shows does not depend on the text field.
LEMMA PlayRests ==
    ASSUME AI!PlayInv, UNCHANGED <<phase, tokens, wire, abort, example, runs>>
    PROVE  AI!PlayInv'
<1>1. PICK r : r = Len(runs)
  OBVIOUS
<1>2. /\ runs # <<>> /\ ~abort /\ runs[r].example = example
      /\ AI!ShowsAnswer(r) /\ AI!ShowsTraffic(r) /\ AI!WaitsWith(r)
      /\ phase = "done" => AI!ShowsAll(r)
  BY <1>1, Zenon DEF AI!PlayInv, AI!Shows
<1>3. AI!ShowsAnswer(r)'
  <2>1. AI!Chat.characters' = AI!Chat.characters /\ runs'[r].example = runs[r].example
    BY PanelsHold, Zenon
  <2> QED BY <1>2, <2>1 DEF AI!ShowsAnswer
<1>4. AI!ShowsTraffic(r)'
  BY <1>2, PanelsHold, Zenon DEF AI!ShowsTraffic
<1>5. phase' = "done" => AI!ShowsAll(r)'
  <2>1. /\ AI!Chat.characters' = AI!Chat.characters /\ (AI!Chat.hint' <=> AI!Chat.hint)
        /\ AI!Inspector.entries' = AI!Inspector.entries
    BY PanelsHold, Zenon
  <2> QED BY <1>2, <2>1 DEF AI!ShowsAll
<1>6. AI!WaitsWith(r)'
  BY <1>2, Zenon DEF AI!WaitsWith, AI!AddedEntries, AI!AddedUpTo
<1>7. AI!Shows(r)'
  BY <1>2, <1>3, <1>4, <1>5, Zenon DEF AI!Shows
<1> QED BY <1>1, <1>2, <1>6, <1>7, LastRun, Zenon

\* The controls empty the panels or leave them alone.
LEMMA ControlsKeep ==
    ASSUME AI!CardInv,
           \/ AI!Reset \/ \E e \in AI!Examples : AI!SelectExample(e)
           \/ \E p \in AI!Prompts : AI!EditPrompt(p)
    PROVE  AI!CardInv'
<1>1. /\ phase \in {"idle", "handshaking", "encrypting", "streaming", "done"}
      /\ abort \in BOOLEAN /\ crossed \in BOOLEAN
      /\ example \in AI!Examples /\ prompt \in AI!Prompts
      /\ runs \in Seq(AI!Runs) /\ tokens \in Seq(AI!Characters) /\ wire \in Seq(AI!Entries)
  BY Zenon DEF AI!CardInv, AI!TypeOK
<1>2. UNCHANGED <<runs, crossed>>
  BY Zenon DEF AI!Reset, AI!SelectExample, AI!EditPrompt
<1>3. /\ <<>> \in Seq(AI!Characters) /\ <<>> \in Seq(AI!Entries) /\ Len(<<>>) = 0
      /\ runs # <<>> => Len(runs) \in DOMAIN runs
  BY <1>1
<1>4. ASSUME NEW r \in DOMAIN runs
      PROVE  runs[r].at \in AI!Delays
  <2>1. runs[r] \in AI!Runs
    BY <1>1
  <2> QED BY <2>1 DEF AI!Runs
<1>5. ASSUME ~crossed
      PROVE  \A r \in 1..(Len(runs') - 1) : ~AI!Live(r)'
  BY <1>2, <1>5, Zenon DEF AI!CardInv, AI!OneRunInv, AI!Live
<1>6. ASSUME ~crossed
      PROVE  IF phase = "idle" THEN AI!LeftInv ELSE AI!PlayInv
  BY <1>6, Zenon DEF AI!CardInv, AI!OneRunInv
<1>7. ASSUME tokens' = <<>>, wire' = <<>>, phase' = "idle",
             abort' \/ runs = <<>> \/ runs[Len(runs)].at = "over"
      PROVE  AI!LeftInv'
  BY <1>2, <1>3, <1>7 DEF AI!LeftInv
<1>8. CASE AI!Reset
  <2>1. /\ abort' = TRUE /\ phase' = "idle" /\ tokens' = <<>> /\ wire' = <<>>
        /\ UNCHANGED <<example, prompt>>
    BY <1>8, Zenon DEF AI!Reset
  <2>2. AI!TypeOK'
    BY <1>1, <1>2, <1>3, <2>1, Zenon DEF AI!TypeOK
  <2>3. AI!LeftInv'
    BY <1>7, <2>1, Zenon
  <2>4. AI!OneRunInv'
    BY <1>2, <1>5, <2>1, <2>3, Zenon DEF AI!OneRunInv
  <2> QED BY <2>2, <2>4, Zenon DEF AI!CardInv
<1>9. ASSUME NEW e \in AI!Examples, AI!SelectExample(e)
      PROVE  AI!CardInv'
  <2>1. /\ phase \notin {"handshaking", "encrypting", "streaming"}
        /\ example' = e /\ prompt' = e /\ phase' = "idle" /\ tokens' = <<>> /\ wire' = <<>>
        /\ UNCHANGED abort
    BY <1>9, Zenon DEF AI!SelectExample, AI!IsRunning
  <2>2. e \in AI!Prompts
    BY ResponseAssumption DEF AI!Prompts, AI!Examples
  <2>3. AI!TypeOK'
    BY <1>1, <1>2, <1>3, <2>1, <2>2, Zenon DEF AI!TypeOK
  <2>4. ASSUME ~crossed
        PROVE  abort \/ runs = <<>> \/ runs[Len(runs)].at = "over"
    <3>1. CASE phase = "idle"
      BY <1>6, <2>4, <3>1, Zenon DEF AI!LeftInv
    <3>2. CASE phase = "done"
      <4>1. runs # <<>> /\ AI!WaitsWith(Len(runs))
        BY <1>6, <2>4, <3>2 DEF AI!PlayInv
      <4>2. runs[Len(runs)].at \in AI!Delays
        BY <1>3, <1>4, <4>1
      <4> QED BY <3>2, <4>1, <4>2 DEF AI!WaitsWith, AI!Delays
    <3> QED BY <1>1, <2>1, <3>1, <3>2
  <2>5. AI!OneRunInv'
    BY <1>2, <1>5, <1>7, <2>1, <2>4, Zenon DEF AI!OneRunInv
  <2> QED BY <2>3, <2>5, Zenon DEF AI!CardInv
<1>10. ASSUME NEW p \in AI!Prompts, AI!EditPrompt(p)
       PROVE  AI!CardInv'
  <2>1. prompt' = p /\ UNCHANGED <<phase, tokens, wire, abort, example>>
    BY <1>10, Zenon DEF AI!EditPrompt
  <2>2. AI!TypeOK'
    BY <1>1, <1>2, <2>1, Zenon DEF AI!TypeOK
  <2>3. AI!LeftInv => AI!LeftInv'
    BY <1>2, <2>1, Zenon DEF AI!LeftInv
  <2>4. AI!PlayInv => AI!PlayInv'
    BY <1>2, <2>1, PlayRests, Zenon
  <2>5. AI!OneRunInv'
    BY <1>2, <1>5, <1>6, <2>1, <2>3, <2>4, Zenon DEF AI!OneRunInv
  <2> QED BY <2>2, <2>5, Zenon DEF AI!CardInv
<1> QED BY <1>8, <1>9, <1>10, Zenon

\* Every step keeps the invariant.
LEMMA CardKeeps == AI!CardInv /\ [AI!Next]_ai => AI!CardInv'
<1> SUFFICES ASSUME AI!CardInv, [AI!Next]_ai PROVE AI!CardInv'
  OBVIOUS
<1>1. AI!TypeOK /\ AI!OneRunInv /\ runs \in Seq(AI!Runs)
  BY Zenon DEF AI!CardInv, AI!TypeOK
<1>2. ASSUME NEW r \in DOMAIN runs, AI!Steps(r)
      PROVE  AI!CardInv'
  <2>1. PICK n \in Nat : n = Len(runs)
    BY <1>1
  <2>2. /\ AI!TypeOK' /\ UNCHANGED crossed /\ AI!Live(r)
        /\ Len(runs') = n /\ DOMAIN runs = 1..n
        /\ \A q \in DOMAIN runs : q # r => runs'[q] = runs[q]
    <3>1. DOMAIN runs = 1..n
      BY <1>1, <2>1
    <3> QED BY <1>1, <1>2, <2>1, <3>1, StepTypes, Zenon
  <2>3. ASSUME ~crossed
        PROVE  r = n /\ \A q \in 1..(n - 1) : ~AI!Live(q)'
    <3>1. \A q \in 1..(n - 1) : ~AI!Live(q)
      BY <1>1, <2>1, <2>3, Zenon DEF AI!OneRunInv
    <3>2. r = n /\ \A q \in 1..(n - 1) : q # r /\ q \in DOMAIN runs
      BY <2>1, <2>2, <3>1
    <3> QED BY <2>2, <3>1, <3>2, Zenon DEF AI!Live
  <2>4. ASSUME ~crossed
        PROVE  IF phase' = "idle" THEN AI!LeftInv' ELSE AI!PlayInv'
    <3>1. IF phase = "idle" THEN AI!LeftInv ELSE AI!PlayInv
      BY <1>1, <2>4, Zenon DEF AI!OneRunInv
    <3>2. r = Len(runs)
      BY <2>1, <2>3, <2>4
    <3>3. CASE phase = "idle"
      BY <1>1, <1>2, <3>1, <3>2, <3>3, StepLeaves, Zenon
    <3>4. CASE phase # "idle"
      BY <1>1, <1>2, <3>1, <3>2, <3>4, StepPlays, Zenon
    <3> QED BY <3>3, <3>4, Zenon
  <2>5. AI!OneRunInv'
    BY <2>2, <2>3, <2>4, Zenon DEF AI!OneRunInv
  <2> QED BY <2>2, <2>5, Zenon DEF AI!CardInv
<1>3. CASE UNCHANGED ai
  <2>1. AI!PlayInv => AI!PlayInv'
    BY <1>3, PlayRests, Zenon DEF ai
  <2> QED BY <1>3, <2>1, Zenon DEF ai, AI!CardInv, AI!TypeOK, AI!OneRunInv, AI!Live, AI!LeftInv
<1> QED BY <1>2, <1>3, RunBegins, ControlsKeep, Zenon DEF AI!Next

\* The invariant says more than the property.
LEMMA CardShows == AI!CardInv => AI!ShowsOneRun
BY PanelsHold, Zenon DEF AI!CardInv, AI!OneRunInv, AI!LeftInv, AI!PlayInv, AI!ShowsOneRun

-----------------------------------------------------------------------------
(***************************************************************************)
(* The site.                                                               *)
(***************************************************************************)

\* A step of the site is one of one component, and leaves the others alone.
LEMMA SiteSteps ==
    [Next]_<<part, ai, dashboard, upload, widget, docs>> =>
        /\ [AI!Next]_ai /\ [Dashboard!Next]_dashboard /\ [Upload!Next]_upload
        /\ [Widget!Next]_widget /\ [Docs!Next]_docs
BY Zenon DEF Next

\* The card of the AI demo shows one run, in order and whole at the end, as
\* long as none was begun while an earlier one was suspended.
THEOREM CardShowsOneRun == Spec => []ShowsOneRun
<1>1. Init => AI!CardInv
  BY CardStarts, Zenon DEF Init
<1>2. AI!CardInv /\ [Next]_<<part, ai, dashboard, upload, widget, docs>> => AI!CardInv'
  BY CardKeeps, SiteSteps, Zenon
<1>3. AI!CardInv => ShowsOneRun
  BY CardShows, Zenon DEF ShowsOneRun
<1> QED BY <1>1, <1>2, <1>3, PTL DEF Spec

\* The panels of the dashboard and its log tell of the same run.
THEOREM DashboardPanelsMatchLog == Spec => []PanelsMatchLog
<1>1. Init => Dashboard!DashboardInv
  BY DashboardStarts, Zenon DEF Init
<1>2. Dashboard!DashboardInv /\ [Next]_<<part, ai, dashboard, upload, widget, docs>>
        => Dashboard!DashboardInv'
  BY DashboardKeeps, SiteSteps, Zenon
<1>3. Dashboard!DashboardInv => PanelsMatchLog
  BY DashboardShows, Zenon DEF PanelsMatchLog
<1> QED BY <1>1, <1>2, <1>3, PTL DEF Spec

\* The upload demo shows no revoked URL, and, if its calls did not overlap, one
\* image in all panels and no URL that is not shown.
THEOREM UploadImagesAgree == Spec => []ImagesAgree
<1>1. Init => Upload!UploadInv
  BY UploadStarts, Zenon DEF Init
<1>2. Upload!UploadInv /\ [Next]_<<part, ai, dashboard, upload, widget, docs>>
        => Upload!UploadInv'
  BY UploadKeeps, SiteSteps, Zenon
<1>3. Upload!UploadInv => ImagesAgree
  BY UploadShows, Zenon DEF ImagesAgree
<1> QED BY <1>1, <1>2, <1>3, PTL DEF Spec

\* Whoever answers a question first is not asked it again before a reset, in
\* the tab of that answer, and the metrics count no answer twice.
THEOREM WidgetAnsweredOnce == Spec => []AnsweredOnce
<1> DEFINE Inv == Widget!WidgetInv /\ Widget!CountInv
<1>1. Init => Inv
  BY WidgetStarts, CountStarts, Zenon DEF Init
<1>2. Inv /\ [Next]_<<part, ai, dashboard, upload, widget, docs>> => Inv'
  BY WidgetKeeps, CountKeeps, SiteSteps, Zenon
<1>3. Inv => AnsweredOnce
  BY Zenon DEF Widget!WidgetInv, Widget!CountInv, AnsweredOnce, Widget!AnsweredOnce
<1> QED BY <1>1, <1>2, <1>3, PTL DEF Spec

\* The sidebar of the documentation leads to no missing page.
THEOREM SidebarLeadsToPages == Spec => []LinksLeadToPages
<1>1. Init => Docs!SidebarInv
  BY SidebarStarts, Zenon DEF Init
<1>2. Docs!SidebarInv /\ [Next]_<<part, ai, dashboard, upload, widget, docs>>
        => Docs!SidebarInv'
  BY SidebarKeeps, SiteSteps, Zenon
<1>3. Docs!SidebarInv => LinksLeadToPages
  BY SidebarLeads, Zenon DEF LinksLeadToPages
<1> QED BY <1>1, <1>2, <1>3, PTL DEF Spec

=============================================================================
