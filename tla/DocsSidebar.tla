----------------------------- MODULE DocsSidebar -----------------------------
(***************************************************************************)
(* The sidebar of the documentation (apps/www, docs-sidebar.tsx): links to *)
(* the pages, in the version of the documentation being read, a version    *)
(* switch, and a search that is used with the keyboard or the mouse.       *)
(*                                                                         *)
(* A page of the documentation is its name and whether it is under         *)
(* /docs/v2; "" is the page /docs itself.  A query is the set of the       *)
(* entries of DOCS_INDEX it matches; {} is also an empty field.            *)
(***************************************************************************)
EXTENDS Naturals, Sequences, FiniteSets

CONSTANTS
    Queries,  \* what may be searched for
    Versions  \* the files under app/docs: [version |-> pages there are]

VARIABLES path, query, shown, active  \* pathname, searchQuery, showResults, activeIndex

vars == <<path, query, shown, active>>

\* The page of each entry, headings included.
DOCS_INDEX ==
    <<"", "", "", "", "quickstart", "installation", "installation", "installation", "installation",
      "usage", "usage", "usage", "usage", "seal", "architecture", "architecture", "architecture",
      "architecture", "crypto", "crypto", "crypto", "crypto", "crypto", "crypto", "protocol",
      "changelog", "threat-model", "audit-readiness", "api", "error-codes">>

VERSION_INDEPENDENT == {"error-codes", "changelog", "seal"}

Groups == {"", "quickstart", "installation", "usage", "seal", "architecture", "crypto", "protocol",
           "threat-model", "audit-readiness", "api", "error-codes", "changelog"}

Latest(page) == [v2 |-> FALSE, page |-> page]
V2(page) == [v2 |-> TRUE, page |-> page]

\* How many entries that match come before entry i.
Before(i) == Cardinality({j \in query \cap DOMAIN DOCS_INDEX : j < i})

\* The first five entries that match; entry i is result number Before(i).
SearchResults == {i \in query \cap DOMAIN DOCS_INDEX : Before(i) < 5}

Init ==
    /\ \E page \in Groups : path = Latest(page)
    /\ query = {} /\ shown = FALSE /\ active = 0

-----------------------------------------------------------------------------
\* Mutated form of WithVersion: pages of no version are given one.
WithVersionAlways(page) == IF path.v2 THEN V2(page) ELSE Latest(page)

WithVersion(page) ==
    IF path.v2 /\ page \notin VERSION_INDEPENDENT THEN V2(page) ELSE Latest(page)

FollowLink(page) ==
    /\ path' = WithVersion(page)
    /\ UNCHANGED <<query, shown, active>>

\* The select, which only reports a change.
SwitchVersion ==
    /\ path' = IF path.v2 THEN Latest(path.page)
               ELSE IF path.page \in VERSION_INDEPENDENT THEN V2("") ELSE V2(path.page)
    /\ UNCHANGED <<query, shown, active>>

\* A new text, which gives new results: the effect puts the first one forward.
Search(q) == query' = q /\ active' = 0

Type(q) == Search(q) /\ shown' = TRUE /\ UNCHANGED path

\* Cmd+K, or a click into the field.
Focus == shown' = TRUE /\ UNCHANGED <<path, query, active>>

\* Escape, or a click elsewhere.
Dismiss == shown' = FALSE /\ UNCHANGED <<path, query, active>>

\* The arrows go round the results.
Arrow(down) ==
    /\ shown /\ SearchResults # {}
    /\ LET n == Cardinality(SearchResults) IN active' = (IF down THEN active + 1 ELSE active + n - 1) % n
    /\ UNCHANGED <<path, query, shown>>

\* A result is opened as the index has it, not in the version being read.
Open(i) ==
    /\ shown
    /\ path' = Latest(DOCS_INDEX[i])
    /\ Search({}) /\ shown' = FALSE

Enter == \E i \in SearchResults : Before(i) = active /\ Open(i)
ClickResult == \E i \in SearchResults : Open(i)

Next ==
    \/ \E page \in Groups : FollowLink(page)
    \/ SwitchVersion \/ Focus \/ Dismiss \/ Enter \/ ClickResult
    \/ \E q \in Queries : Type(q)
    \/ \E down \in BOOLEAN : Arrow(down)

Spec == Init /\ [][Next]_vars

-----------------------------------------------------------------------------
\* By links, search and version switch, in any order, a reader only gets to
\* pages there are in the version, which is a matter of VERSION_INDEPENDENT
\* naming exactly the pages that were not copied to /docs/v2; and a result is
\* highlighted whenever there is one (docs-sidebar.tsx:87-118, 170-223).
LinksLeadToPages ==
    /\ path.page \in Versions[IF path.v2 THEN "v2" ELSE "latest"]
    /\ SearchResults # {} => active \in 0..(Cardinality(SearchResults) - 1)

-----------------------------------------------------------------------------

\* Inductive strengthening of LinksLeadToPages: the pages there are for it are
\* those the sidebar links to.
SidebarInv ==
    /\ path \in [v2 : BOOLEAN, page : Groups]
    /\ path.v2 => path.page \notin VERSION_INDEPENDENT
    /\ active \in Nat
    /\ SearchResults # {} => active \in 0..(Cardinality(SearchResults) - 1)

=============================================================================
