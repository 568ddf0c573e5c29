--------------------------------- MODULE Site ---------------------------------
(***************************************************************************)
(* The stateful components of the demo site (apps/www).  They share        *)
(* nothing: each behaviour is one of one component, chosen at its start.   *)
(***************************************************************************)
EXTENDS Naturals, Sequences, FiniteSets

CONSTANTS
    Response, MaxRuns,                                       \* SecureAIDemo
    Payloads, Default, MaxPlays,                             \* InteractiveDemo
    Files, Sample, MaxTries, None,                           \* SealDemo
    Tabs, Paths, Options, Earlier, MaxAnswers, MaxResets,    \* Feedback
    Queries, Versions                                        \* DocsSidebar

\* Every example has an answer, and no frame of it is empty: a chunk of words
\* ends with a space (secure-ai-demo.tsx:202).
ASSUME ResponseAssumption ==
    /\ Response \in Seq(Seq(Nat \ {0}))
    /\ Response # <<>> /\ \A e \in DOMAIN Response : Response[e] # <<>>

\* A question has four options.
ASSUME OptionsAssumption == IsFiniteSet(Options)

ASSUME NoneAssumption == None \notin [image : Files \cup {Sample}, n : Nat]

VARIABLES
    part,
    phase, tokens, wire, abort, example, prompt, runs, crossed,
    step, logs, isPlaying, customPayload, kemLevel, plays,
    ready, error, busy, origUrl, decUrl, sealed, made, revoked, calls, overlapped,
    stored, tab, posts, counts, given, resets,
    path, query, shown, active

ai == <<phase, tokens, wire, abort, example, prompt, runs, crossed>>
dashboard == <<step, logs, isPlaying, customPayload, kemLevel, plays>>
upload == <<ready, error, busy, origUrl, decUrl, sealed, made, revoked, calls, overlapped>>
widget == <<stored, tab, posts, counts, given, resets>>
docs == <<path, query, shown, active>>

AI == INSTANCE SecureAIDemo
Dashboard == INSTANCE InteractiveDemo
Upload == INSTANCE SealDemo
Widget == INSTANCE Feedback
Docs == INSTANCE DocsSidebar

\* The directories under app/docs hold every page of the sidebar, and those
\* under app/docs/v2 every page that has a version.
ASSUME VersionsAssumption ==
    /\ Docs!Groups \subseteq Versions["latest"]
    /\ Docs!Groups \ Docs!VERSION_INDEPENDENT \subseteq Versions["v2"]

Init ==
    /\ part \in {"ai", "dashboard", "upload", "widget", "docs"}
    /\ AI!Init /\ Dashboard!Init /\ Upload!Init /\ Widget!Init /\ Docs!Init
    /\ part = "widget" \/ stored = {}
    /\ part = "docs" \/ path = Docs!Latest("")

Next ==
    \/ part = "ai" /\ AI!Next /\ UNCHANGED <<part, dashboard, upload, widget, docs>>
    \/ part = "dashboard" /\ Dashboard!Next /\ UNCHANGED <<part, ai, upload, widget, docs>>
    \/ part = "upload" /\ Upload!Next /\ UNCHANGED <<part, ai, dashboard, widget, docs>>
    \/ part = "widget" /\ Widget!Next /\ UNCHANGED <<part, ai, dashboard, upload, docs>>
    \/ part = "docs" /\ Docs!Next /\ UNCHANGED <<part, ai, dashboard, upload, widget>>

Spec == Init /\ [][Next]_<<part, ai, dashboard, upload, widget, docs>>

-----------------------------------------------------------------------------
\* The card of the AI demo shows one run (SecureAIDemo).
ShowsOneRun == AI!ShowsOneRun

\* Panels and log of the dashboard tell of the same run (InteractiveDemo).
PanelsMatchLog == Dashboard!PanelsMatchLog

\* The upload demo shows one image and keeps only its URLs (SealDemo).
ImagesAgree == Upload!ImagesAgree

\* The first to answer a question is not asked it again (Feedback).
AnsweredOnce == Widget!AnsweredOnce

\* The documentation's sidebar leads to no missing page (DocsSidebar).
LinksLeadToPages == Docs!LinksLeadToPages

=============================================================================
