------------------------------- MODULE MCSite -------------------------------
(* An instance of the site's components for TLC. *)
EXTENDS Site, TLC

CONSTANTS cat, dog, t1, t2

MCResponse == <<<<2, 1>>, <<1>>>>
TwoFiles == {cat, dog}
TwoTabs == {t1, t2}

\* A visitor of the first time, and one who answered most questions before.
MCEarlier == {{}, {"ai", "pricing", "cloudflare", "performance", "faq"}}

\* The directories under app/docs and app/docs/v2.
SharedPages == {"", "quickstart", "installation", "usage", "architecture", "crypto", "protocol",
                "threat-model", "audit-readiness", "api"}
MCVersions == [latest |-> SharedPages \cup {"seal", "changelog", "error-codes"}, v2 |-> SharedPages]

MCQueries == {{}, {14}, {19, 20, 21}, {13, 26}, 1..30}

\* Nothing tells the two tabs, or the two files, apart.
Symmetry == Permutations(TwoTabs) \cup Permutations(TwoFiles)
=============================================================================
