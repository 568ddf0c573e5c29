------------------------------- MODULE MCSeal -------------------------------
(* Seal with two readers, two signers and a document with a nested object,   *)
(* two Dates and two undefined fields, one of them in the object.            *)
EXTENDS Seal

CONSTANTS r1, r2, g1, g2

TwoRecipients == {r1, r2}
TwoSigners == {g1, g2}

MCDocument ==
    Obj([user |-> Obj([ssn |-> Leaf("ssn"), born |-> Date("born"), left |-> Undefined]),
         note |-> Leaf("note"), seen |-> Date("seen"), gone |-> Undefined])

\* Existing paths, one through a leaf and one that is not there.
MCPaths ==
    {<<"user">>, <<"user", "ssn">>, <<"user", "born">>, <<"user", "left">>,
     <<"note">>, <<"seen">>, <<"gone">>, <<"note", "x">>, <<"none">>}

MCItems == [media |-> 2, signed |-> 2, document |-> 1, attestation |-> 2]
MCFaults == [media |-> 2, signed |-> 2, document |-> 2, attestation |-> 1]

Symmetry == Permutations(TwoRecipients) \cup Permutations(TwoSigners)
=============================================================================
