------------------------------ MODULE SealDemo ------------------------------
(***************************************************************************)
(* The sealed-upload demo of the site (apps/www, seal-demo.tsx): an image  *)
(* is sealed to a key pair made in the page, and opened again into an      *)
(* object URL for an <img>.  Object URLs keep their blobs alive until they *)
(* are revoked.  run works on the origUrl and decUrl of the render it was  *)
(* called from: the latest one for a chosen file, but for the sample the   *)
(* one in which the button was clicked, before the sample was fetched.     *)
(*                                                                         *)
(* sealBlob and openObjectURL are packages/nen-seal, modelled in Seal:     *)
(* here an envelope is the image in it.  A URL is its number and image.    *)
(***************************************************************************)
EXTENDS Naturals, Sequences

CONSTANTS
    Files,    \* images the visitor may choose
    Sample,   \* /icon.png
    MaxTries, \* bound on the uses of the two controls
    None

VARIABLES
    ready, error, busy, origUrl, decUrl, sealed,  \* state of the component
    made, revoked,                                \* numbers of object URLs
    calls,                                        \* onFile and useSample under way
    overlapped                                    \* the sample arrived after another call had begun

vars == <<ready, error, busy, origUrl, decUrl, sealed, made, revoked, calls, overlapped>>

Init ==
    /\ ready = FALSE /\ error = FALSE /\ busy = FALSE
    /\ origUrl = None /\ decUrl = None /\ sealed = None
    /\ made = 0 /\ revoked = {} /\ calls = <<>> /\ overlapped = FALSE

Url(image, n) == [image |-> image, n |-> n]
Numbers(urls) == {u.n : u \in urls \ {None}}

\* The effect of the first render: the key pair is made, or fails.
Mount(works) ==
    /\ ~ready /\ ~error
    /\ ready' = works /\ error' = ~works
    /\ UNCHANGED <<busy, origUrl, decUrl, sealed, made, revoked, calls, overlapped>>

\* Mutated form of Starts: the image opened before stays on the page.
StartsKeepingDec(image, closure) ==
    /\ busy' = TRUE /\ error' = FALSE
    /\ revoked' = revoked \cup Numbers(closure)
    /\ decUrl' = decUrl
    /\ made' = made + 1 /\ origUrl' = Url(image, made + 1)

\* The code of run before it awaits sealBlob, on the URLs `closure` holds.
Starts(image, closure) ==
    /\ busy' = TRUE /\ error' = FALSE
    /\ revoked' = revoked \cup Numbers(closure)
    /\ decUrl' = None
    /\ made' = made + 1 /\ origUrl' = Url(image, made + 1)

\* Both controls are disabled until the keys are there and while a run is busy.
Ready == ready /\ ~busy /\ Len(calls) < MaxTries

Others(i) == \E j \in DOMAIN calls : j # i /\ calls[j].at # "over"

OnFile(image) ==
    /\ Ready
    /\ Starts(image, {origUrl, decUrl})
    /\ calls' = Append(calls, [at |-> "sealing", image |-> image, closure |-> {}])
    /\ overlapped' = (overlapped \/ Others(0))
    /\ UNCHANGED <<ready, sealed>>

UseSample ==
    /\ Ready
    /\ calls' = Append(calls, [at |-> "fetching", image |-> Sample, closure |-> {origUrl, decUrl}])
    /\ overlapped' = (overlapped \/ Others(0))
    /\ UNCHANGED <<ready, error, busy, origUrl, decUrl, sealed, made, revoked>>

\* fetch and res.blob() are answered, or reject: then run is not called.
SampleArrives(i) ==
    /\ calls[i].at = "fetching"
    /\ Starts(Sample, calls[i].closure)
    /\ calls' = [calls EXCEPT ![i].at = "sealing"]
    /\ UNCHANGED <<ready, sealed, overlapped>>

SampleFails(i) ==
    /\ calls[i].at = "fetching"
    /\ calls' = [calls EXCEPT ![i].at = "over"]
    /\ UNCHANGED <<ready, error, busy, origUrl, decUrl, sealed, made, revoked, overlapped>>

\* sealBlob is answered: the envelope is shown, and opened into a URL.
Sealed(i) ==
    /\ calls[i].at = "sealing"
    /\ calls' = [calls EXCEPT ![i].at = "over"]
    /\ sealed' = calls[i].image
    /\ made' = made + 1 /\ decUrl' = Url(calls[i].image, made + 1)
    /\ busy' = FALSE
    /\ UNCHANGED <<ready, error, origUrl, revoked, overlapped>>

\* sealBlob rejects: the file could not be read.
SealFails(i) ==
    /\ calls[i].at = "sealing"
    /\ calls' = [calls EXCEPT ![i].at = "over"]
    /\ error' = TRUE /\ busy' = FALSE
    /\ UNCHANGED <<ready, origUrl, decUrl, sealed, made, revoked, overlapped>>

Next ==
    \/ \E works \in BOOLEAN : Mount(works)
    \/ \E image \in Files : OnFile(image)
    \/ UseSample
    \/ \E i \in DOMAIN calls : SampleArrives(i) \/ SampleFails(i) \/ Sealed(i) \/ SealFails(i)

Spec == Init /\ [][Next]_vars

-----------------------------------------------------------------------------
\* The three panels, by the image each shows.
ImageOf(url) == IF url = None THEN None ELSE url.image
Panels == [original |-> ImageOf(origUrl), ciphertext |-> sealed, decrypted |-> ImageOf(decUrl)]

\* No <img> is given a revoked URL, in whatever order the two controls are
\* used, although a late sample revokes the URLs of an older render; and if
\* the sample did not overlap another call, then once nothing is under way and
\* no error is shown the three panels show one image, and the only URLs not
\* revoked are those on the page (seal-demo.tsx:41-72).
ImagesAgree ==
    /\ Numbers({origUrl, decUrl}) \cap revoked = {}
    /\ ~overlapped /\ ~busy /\ ~error =>
           /\ \A a, b \in DOMAIN Panels : Panels[a] = Panels[b]
           /\ 1..made \ revoked = Numbers({origUrl, decUrl})

-----------------------------------------------------------------------------

(***************************************************************************)
(* Inductive strengthening of ImagesAgree.                                 *)
(***************************************************************************)
Images == Files \cup {Sample}
Urls == [image : Images, n : Nat]
CallsOf == [at : {"fetching", "sealing", "over"}, image : Images, closure : SUBSET (Urls \cup {None})]

FlagsOK == /\ ready \in BOOLEAN /\ error \in BOOLEAN
           /\ busy \in BOOLEAN /\ overlapped \in BOOLEAN

TypeOK ==
    /\ FlagsOK
    /\ origUrl \in Urls \cup {None} /\ decUrl \in Urls \cup {None} /\ sealed \in Images \cup {None}
    /\ made \in Nat /\ revoked \subseteq Nat
    /\ calls \in Seq(CallsOf)

\* Only URLs that were made are shown, held or revoked, and none shown is revoked;
\* only the sample is fetched.
UrlInv ==
    /\ revoked \subseteq 1..made
    /\ Numbers({origUrl, decUrl}) \subseteq (1..made) \ revoked
    /\ \A i \in DOMAIN calls : /\ Numbers(calls[i].closure) \subseteq 1..made
                               /\ calls[i].at = "fetching" => calls[i].image = Sample

\* While no two calls overlap: what the one under way will find on the page.
AloneInv ==
    ~overlapped =>
        /\ 1..made \ revoked = Numbers({origUrl, decUrl})
        /\ \A i, j \in DOMAIN calls : calls[i].at # "over" /\ calls[j].at # "over" => i = j
        /\ \A i \in DOMAIN calls :
               /\ calls[i].at = "fetching" => calls[i].closure = {origUrl, decUrl} /\ ~busy
               /\ calls[i].at = "sealing" => /\ busy /\ decUrl = None
                                             /\ ImageOf(origUrl) = calls[i].image
        /\ ~busy /\ ~error => ImageOf(origUrl) = sealed /\ ImageOf(decUrl) = sealed

UploadInv == TypeOK /\ UrlInv /\ AloneInv

=============================================================================
