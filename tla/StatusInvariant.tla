--------------------------- MODULE StatusInvariant ---------------------------
(***************************************************************************)
(* The strengthening of YoungIsShown and OneStatusDocument that every step *)
(* preserves while no addStatus overlaps with another coroutine: a status  *)
(* that was shared and is young is on every list that will be written.     *)
(***************************************************************************)
EXTENDS StatusUpdates

\* The statuses that were shared less than a day ago.
SharedYoung == {p \in Photo : upload[p].step = "shared"} \ old

\* All documents list them, of which there is one.
ShownOK == \A d \in docs : SharedYoung \subseteq d.photos

\* Without a document there are none.
NoneOK == docs = {} => SharedYoung = {}

\* addStatus goes on to write what it read, as long as nobody else writes.
UploadOK ==
    \A p \in Photo : upload[p].step = "write"
        => /\ SharedYoung \subseteq upload[p].read
           /\ upload[p].target = NoDoc => docs = {}

\* A cleanup goes on to write what it read and then the field.
SweepOK ==
    \A s \in Sweep :
        /\ sweep[s].step = "sift" => SharedYoung \subseteq sweep[s].read
        /\ sweep[s].step \in {"requery", "write"}
               => SharedYoung \subseteq newPhotoList

(* No young status is missing from a list that is shown or on its way.     *)
StatusInv ==
    /\ OneStatusDocument
    /\ ShownOK
    /\ NoneOK
    /\ UploadOK
    /\ SweepOK
=============================================================================
