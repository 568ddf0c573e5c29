------------------------------ MODULE Feedback ------------------------------
(***************************************************************************)
(* The feedback widget of the site (apps/www, nen-feedback-widget.tsx),    *)
(* its telemetry route and the metrics made from it (api/feedback,         *)
(* feedback-metrics.tsx).  Each tab of the browser has a widget with state *)
(* of its own; they share localStorage, which holds the ids of the answers *)
(* given so far.  An answer is posted through nenFetch and forgotten: it   *)
(* is counted once or lost (NenClient: a handler runs at most once for a   *)
(* call).  The server counts in a Redis hash, or nowhere.                  *)
(***************************************************************************)
EXTENDS Naturals, Sequences, FiniteSets, FiniteSetsExt

CONSTANTS
    Tabs,
    Paths,       \* pages the visitor goes to
    Options,     \* options clicked on, of the four a question has
    Earlier,     \* answers localStorage may hold from earlier visits
    MaxAnswers,  \* bound on the answers given
    MaxResets    \* bound on "Reset all"

VARIABLES
    stored,   \* nen_feedback_answered_v3
    tab,      \* state of each widget
    posts,    \* answers on their way to the server
    counts,   \* feedback_metrics: [question, option] |-> count
    given,    \* every answer clicked, and after how many resets
    resets

vars == <<stored, tab, posts, counts, given, resets>>

\* The ids of QUESTIONS, in their order.
QUESTIONS == <<"home", "docs", "ai", "pricing", "cloudflare", "performance", "faq", "general">>

Ids == {QUESTIONS[i] : i \in DOMAIN QUESTIONS}

\* A page is named by its own question, if it has one.
Primary(path) == IF path \in Ids THEN path ELSE "general"

Done == "done"  \* null: everything is answered

GetNextQuestionId(path, answered) ==
    LET open == {i \in DOMAIN QUESTIONS : QUESTIONS[i] \notin answered} IN
    CASE Primary(path) \notin answered -> Primary(path)
      [] open = {} -> Done
      [] OTHER -> QUESTIONS[Min(open)]

\* The widget after the effect of a path, which reads localStorage.
Loaded(w, path) ==
    [w EXCEPT !.path = path, !.answered = stored, !.menu = FALSE,
              !.question = GetNextQuestionId(path, stored)]

Fresh == [path |-> "home", open |-> FALSE, answered |-> {}, question |-> Done,
          menu |-> FALSE, greeting |-> FALSE]

Init ==
    /\ stored \in Earlier
    /\ tab = [t \in Tabs |-> Loaded(Fresh, "home")]
    /\ posts = {} /\ counts = [qo \in Ids \X Options |-> 0]
    /\ given = <<>> /\ resets = 0

Becomes(t, w) == tab' = [tab EXCEPT ![t] = w]

\* The effect of pathname.
Navigate(t, path) ==
    /\ path # tab[t].path
    /\ Becomes(t, Loaded(tab[t], path))
    /\ UNCHANGED <<stored, posts, counts, given, resets>>

\* renderContent: the question, if there is one and no menu over it.
CardShown(t) == tab[t].open /\ tab[t].question # Done /\ ~tab[t].menu
MenuShown(t) == tab[t].open /\ ~CardShown(t)

\* Mutated form of Recorded: the answers are those the tab remembers.
RecordedFromState(w, q) ==
    LET updated == w.answered \cup {q} IN
    IF q \in w.answered THEN [storage |-> stored, widget |-> w]
    ELSE [storage |-> updated,
          widget |-> [w EXCEPT !.answered = updated,
                               !.question = GetNextQuestionId(w.path, updated)]]

\* localStorage is read again: an answer another tab has given changes nothing.
Recorded(w, q) ==
    LET updated == stored \cup {q} IN
    IF q \in stored THEN [storage |-> stored, widget |-> w]
    ELSE [storage |-> updated,
          widget |-> [w EXCEPT !.answered = updated,
                               !.question = GetNextQuestionId(w.path, updated)]]

HandleAnswer(t, option) ==
    /\ CardShown(t) /\ Len(given) < MaxAnswers
    /\ LET q == tab[t].question  after == Recorded(tab[t], q) IN
       /\ given' = Append(given, [tab |-> t, question |-> q, option |-> option, resets |-> resets])
       /\ posts' = posts \cup {Len(given) + 1}
       /\ stored' = after.storage /\ Becomes(t, after.widget)
    /\ UNCHANGED <<counts, resets>>

SkipToMenu(t) ==
    /\ CardShown(t)
    /\ Becomes(t, [tab[t] EXCEPT !.menu = TRUE])
    /\ UNCHANGED <<stored, posts, counts, given, resets>>

HandleResetFeedback(t) ==
    /\ MenuShown(t) /\ resets < MaxResets
    /\ stored' = {} /\ resets' = resets + 1
    /\ Becomes(t, [tab[t] EXCEPT !.answered = {}, !.menu = FALSE,
                                 !.question = GetNextQuestionId(tab[t].path, {})])
    /\ UNCHANGED <<posts, counts, given>>

\* The greeting, three seconds after the last change of the path, of isOpen or
\* of the question.  Every one of them starts the timer again, so that a closed
\* widget with a question left is greeted for in the end, and then only once.
GreetingTimer(t) ==
    /\ ~tab[t].open /\ tab[t].question # Done /\ ~tab[t].greeting
    /\ Becomes(t, [tab[t] EXCEPT !.greeting = TRUE])
    /\ UNCHANGED <<stored, posts, counts, given, resets>>

\* The guardian, and the greeting bubble.
HandleOpen(t) ==
    /\ ~tab[t].open
    /\ Becomes(t, [tab[t] EXCEPT !.open = TRUE, !.greeting = FALSE])
    /\ UNCHANGED <<stored, posts, counts, given, resets>>

\* The cross, the guardian, and the links of the menu.
HandleClose(t) ==
    /\ tab[t].open
    /\ Becomes(t, [tab[t] EXCEPT !.open = FALSE, !.greeting = FALSE, !.menu = FALSE])
    /\ UNCHANGED <<stored, posts, counts, given, resets>>

-----------------------------------------------------------------------------
\* The route: hIncrBy, or nothing if there is no Redis or it fails; the answer
\* of the route is the same.
Count(i) ==
    /\ i \in posts
    /\ posts' = posts \ {i}
    /\ counts' = [counts EXCEPT ![<<given[i].question, given[i].option>>] = @ + 1]
    /\ UNCHANGED <<stored, tab, given, resets>>

\* The post is lost, refused or not saved; the widget ignores all of them.
NotCounted(i) ==
    /\ i \in posts
    /\ posts' = posts \ {i}
    /\ UNCHANGED <<stored, tab, counts, given, resets>>

Next ==
    \/ \E t \in Tabs :
           \/ SkipToMenu(t) \/ HandleResetFeedback(t) \/ GreetingTimer(t)
           \/ HandleOpen(t) \/ HandleClose(t)
           \/ \E path \in Paths : Navigate(t, path)
           \/ \E option \in Options : HandleAnswer(t, option)
    \/ \E i \in DOMAIN given : Count(i) \/ NotCounted(i)

Spec == Init /\ [][Next]_vars

-----------------------------------------------------------------------------
\* GET /api/feedback/metrics: a row for each question with counts.
Total(q) == MapThenSumSet(LAMBDA option : counts[<<q, option>>], Options)
Rows == {[question |-> q, total |-> Total(q)] : q \in {q \in Ids : Total(q) > 0}}

\* What "Feedback Pulse" shows as the total.
Pulse == MapThenSumSet(LAMBDA row : row.total, Rows)

Same(i, j) == given[i].question = given[j].question /\ given[i].resets = given[j].resets

\* Whoever answers a question first is not asked it again, in that tab or after
\* going to another page, until the feedback is reset: a second answer to it is
\* only given in a tab that went on showing the question
\* (nen-feedback-widget.tsx:111-198).
NotAskedAgain ==
    \A i, j \in DOMAIN given :
        i < j /\ Same(i, j) /\ (\A k \in 1..(i - 1) : ~Same(k, i)) => given[i].tab # given[j].tab

\* And the metrics count each answer given once at most, with those on their way
\* (feedback/route.ts:33).
AnsweredOnce ==
    /\ NotAskedAgain
    /\ Pulse + Cardinality(posts) <= Len(given)

-----------------------------------------------------------------------------

(***************************************************************************)
(* Inductive strengthening of AnsweredOnce.                                *)
(***************************************************************************)

Answers == [tab : Tabs, question : Ids, option : Options, resets : Nat]

\* Answer i was the first to its question since the feedback was reset last.
FirstAnswer(i) ==
    given[i].resets = resets /\ \A k \in 1..(i - 1) : ~Same(k, i)

\* The answers since the last reset are stored, and a tab whose question is
\* stored goes on showing one that another tab answered first.
AskedInv ==
    /\ resets \in Nat /\ DOMAIN tab = Tabs
    /\ given \in Seq(Answers)
    /\ \A i \in DOMAIN given :
           /\ given[i].resets <= resets
           /\ given[i].resets = resets => given[i].question \in stored
           /\ FirstAnswer(i) => tab[given[i].tab].question # given[i].question
    /\ \A t \in Tabs :
           /\ DOMAIN tab[t] = DOMAIN Fresh
           /\ tab[t].question \in Ids \cup {Done}
           /\ tab[t].question \in stored \ {Done} =>
                  \E i \in DOMAIN given : /\ given[i].question = tab[t].question
                                          /\ given[i].resets = resets

WidgetInv == AskedInv /\ NotAskedAgain

\* Answers on their way or counted were given, each once.
CountInv ==
    /\ counts \in [Ids \X Options -> Nat]
    /\ posts \subseteq DOMAIN given
    /\ IsFiniteSet(Rows) /\ Pulse \in Nat
    /\ Pulse + Cardinality(posts) <= Len(given)

=============================================================================
