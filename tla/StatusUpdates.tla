---------------------------- MODULE StatusUpdates ----------------------------
(***************************************************************************)
(* The status updates of one account.  Firestore keeps them in             *)
(*                                                                         *)
(*   status/<auto id>   one document per account: photoUrl, the list of    *)
(*                      its statuses, each with the time it was shared,    *)
(*                      here the set of those listed                       *)
(*                                                                         *)
(* addStatus reads the list and writes it back one longer.  Every change   *)
(* of the app's lifecycle starts statusDeleteAfter24Hours, on the home     *)
(* page, the message page and the status page: it reads the list, copies   *)
(* what is younger than a day to the field newPhotoList of the one shared  *)
(* FirebaseCommonController, and writes that field back.  Nothing orders   *)
(* these coroutines, and the field lives as long as the app.               *)
(***************************************************************************)
EXTENDS Naturals

CONSTANTS
    Photo,        \* the statuses the user may share, once each
    Sweep,        \* the runs of statusDeleteAfter24Hours: bounds their number
    DocId,        \* auto ids of status documents, in the order of a query
    MaxRestarts   \* bound on restarts of the app

ASSUME StatusAssumption ==
    /\ DocId \subseteq Nat \ {0}
    /\ MaxRestarts \in Nat

VARIABLES
    docs,           \* the documents of the account
    upload,         \* upload[p]: where addStatus of p stands
    sweep,          \* sweep[s]: where the run s of the cleanup stands
    newPhotoList,   \* the field of FirebaseCommonController
    old,            \* the statuses shared 24 hours ago or more
    restarts        \* restarts so far

vars == <<docs, upload, sweep, newPhotoList, old, restarts>>

-----------------------------------------------------------------------------
Doc == [id : DocId, photos : SUBSET Photo]

NoDoc == 0

Upload == [step : {"idle", "query", "write", "shared", "failed"},
           target : DocId \cup {NoDoc}, read : SUBSET Photo]

NoUpload == [step |-> "idle", target |-> NoDoc, read |-> {}]

\* due: the statuses that were old when the cleanup began, a history field.
Cleanup == [step : {"idle", "query", "sift", "requery", "write", "done"},
            target : DocId \cup {NoDoc}, read : SUBSET Photo, due : SUBSET Photo]

NoCleanup == [step |-> "idle", target |-> NoDoc, read |-> {}, due |-> {}]

\* The first document that a query on the account's uid returns.
First == {d \in docs : \A e \in docs : d.id <= e.id}

\* What a coroutine keeps of a query: the first document, or that there is none.
Answer == IF docs = {} THEN {[target |-> NoDoc, read |-> {}]}
          ELSE {[target |-> d.id, read |-> d.photos] : d \in First}

\* update: nothing happens, and the coroutine throws, if the document is gone.
Update(id, list) ==
    docs' = {IF d.id = id THEN [d EXCEPT !.photos = list] ELSE d : d \in docs}

-----------------------------------------------------------------------------
Init ==
    /\ docs = {}
    /\ upload = [p \in Photo |-> NoUpload]
    /\ sweep = [s \in Sweep |-> NoCleanup]
    /\ newPhotoList = {}
    /\ old = {}
    /\ restarts = 0

-----------------------------------------------------------------------------
(* addStatus.                                                              *)

\* The media is uploaded, if there is any, and the list is asked for.
Share(p) ==
    /\ upload[p].step = "idle"
    /\ upload' = [upload EXCEPT ![p].step = "query"]
    /\ UNCHANGED <<docs, sweep, newPhotoList, old, restarts>>

\* The query is answered; the status gets its time.
ReadStatus(p) ==
    /\ upload[p].step = "query"
    /\ \E a \in Answer :
           upload' = [upload EXCEPT ![p] =
                         [step |-> "write", target |-> a.target,
                          read |-> a.read]]
    /\ UNCHANGED <<docs, sweep, newPhotoList, old, restarts>>

\* Mutant: the list is replaced by the new status.
JustShared(p) == {p}

\* The list with the new status.
WithShared(p) == upload[p].read \cup {p}

\* Mutant: every status is a document of its own.
AlwaysAdd(p) == TRUE

\* No document of the account was found.
IsFirstStatus(p) == upload[p].target = NoDoc

\* The first status makes the document, the others replace its list.
WriteStatus(p) ==
    /\ upload[p].step = "write"
    /\ \/ /\ IsFirstStatus(p)
          /\ \E id \in DocId \ {d.id : d \in docs} :
                 docs' = docs \cup {[id |-> id, photos |-> {p}]}
          /\ upload' = [upload EXCEPT ![p] = [NoUpload EXCEPT !.step = "shared"]]
       \/ /\ ~IsFirstStatus(p)
          /\ Update(upload[p].target, WithShared(p))
          /\ upload' = [upload EXCEPT ![p] = [NoUpload EXCEPT !.step =
                 IF \E d \in docs : d.id = upload[p].target
                 THEN "shared" ELSE "failed"]]
    /\ UNCHANGED <<sweep, newPhotoList, old, restarts>>

-----------------------------------------------------------------------------
(* statusDeleteAfter24Hours.                                               *)

\* Mutant: the field is emptied when a run begins.
LifecycleClears(s) ==
    /\ sweep[s].step = "idle"
    /\ sweep' = [sweep EXCEPT ![s] =
                    [NoCleanup EXCEPT !.step = "query", !.due = old]]
    /\ newPhotoList' = {}
    /\ UNCHANGED <<docs, upload, old, restarts>>

\* The lifecycle of the app changes: each page that observes it starts a run.
Lifecycle(s) ==
    /\ sweep[s].step = "idle"
    /\ sweep' = [sweep EXCEPT ![s] =
                    [NoCleanup EXCEPT !.step = "query", !.due = old]]
    /\ UNCHANGED <<docs, upload, newPhotoList, old, restarts>>

\* Mutant: nobody looks whether the query found a document.
NeverMissing == FALSE

\* The account has no document: the first query is answered with none, and
\* docs[0] of the second one throws.
Missing == docs = {}

ReadForSweep(s) ==
    /\ sweep[s].step = "query"
    /\ \E a \in Answer :
           sweep' = [sweep EXCEPT ![s].step = IF Missing THEN "done" ELSE "sift",
                                  ![s].target = a.target, ![s].read = a.read]
    /\ UNCHANGED <<docs, upload, newPhotoList, old, restarts>>

\* Mutant: the comparison with 24 hours is the wrong way round.
OldOnes(list) == list \cap old

\* The statuses of a list that are younger than 24 hours.
Young(list) == list \ old

\* getPhotoUrl appends them to the field.  Its remove compares objects parsed
\* from different answers, which are never equal, and removes nothing.  When
\* the field is empty the document goes, else the account is queried again.
Sift(s) ==
    LET list == newPhotoList \cup Young(sweep[s].read) IN
    /\ sweep[s].step = "sift"
    /\ newPhotoList' = list
    /\ IF list = {}
       THEN /\ docs' = {d \in docs : d.id # sweep[s].target}
            /\ sweep' = [sweep EXCEPT ![s].step = "done"]
       ELSE /\ sweep' = [sweep EXCEPT ![s].step = "requery"]
            /\ UNCHANGED docs
    /\ UNCHANGED <<upload, old, restarts>>

ReadAgain(s) ==
    /\ sweep[s].step = "requery"
    /\ \E a \in Answer :
           sweep' = [sweep EXCEPT
                        ![s].step = IF Missing THEN "done" ELSE "write",
                        ![s].target = a.target]
    /\ UNCHANGED <<docs, upload, newPhotoList, old, restarts>>

\* The list that is written is the field itself, as it is by now.
Rewrite(s) ==
    /\ sweep[s].step = "write"
    /\ Update(sweep[s].target, newPhotoList)
    /\ sweep' = [sweep EXCEPT ![s].step = "done"]
    /\ UNCHANGED <<upload, newPhotoList, old, restarts>>

-----------------------------------------------------------------------------
(* Time and the operating system.                                          *)

\* A day has passed since p was shared.
Expire(p) ==
    /\ upload[p].step \in {"shared", "failed"}
    /\ p \notin old
    /\ old' = old \cup {p}
    /\ UNCHANGED <<docs, upload, sweep, newPhotoList, restarts>>

\* A new process has an empty field and none of the coroutines.
Restart ==
    /\ restarts < MaxRestarts
    /\ restarts' = restarts + 1
    /\ newPhotoList' = {}
    /\ upload' = [p \in Photo |->
                     IF upload[p].step \in {"query", "write"}
                     THEN [NoUpload EXCEPT !.step = "failed"] ELSE upload[p]]
    /\ sweep' = [s \in Sweep |->
                    IF sweep[s].step = "idle" THEN NoCleanup
                    ELSE [sweep[s] EXCEPT !.step = "done"]]
    /\ UNCHANGED <<docs, old>>

-----------------------------------------------------------------------------
UploadStep(p) ==
    \/ Share(p)
    \/ ReadStatus(p)
    \/ WriteStatus(p)
    \/ Expire(p)

SweepStep(s) ==
    \/ Lifecycle(s)
    \/ ReadForSweep(s)
    \/ Sift(s)
    \/ ReadAgain(s)
    \/ Rewrite(s)

Next ==
    \/ \E p \in Photo : UploadStep(p)
    \/ \E s \in Sweep : SweepStep(s)
    \/ Restart

Spec == Init /\ [][Next]_vars

-----------------------------------------------------------------------------
(* Type invariant of the documents, the coroutines and the shared field: a *)
(* cleanup past its query has a document to delete or to write to.         *)
TypeOK ==
    /\ docs \subseteq Doc
    /\ upload \in [Photo -> Upload]
    /\ sweep \in [Sweep -> Cleanup]
    /\ \A s \in Sweep : sweep[s].step \in {"sift", "requery", "write"}
                            => sweep[s].target # NoDoc
    /\ newPhotoList \subseteq Photo
    /\ old \subseteq Photo
    /\ restarts \in Nat

Uploading(p) == upload[p].step \in {"query", "write"}

\* An addStatus that runs is the only coroutine that does.
UploadsAlone ==
    \A p \in Photo : Uploading(p)
        => /\ \A q \in Photo \ {p} : ~Uploading(q)
           /\ \A s \in Sweep : sweep[s].step \in {"idle", "done"}

\* A status that was shared and is younger than a day is in the document the
\* status page shows, the first one.  It holds as long as no addStatus overlaps
\* with another coroutine (UploadsAlone), and however the cleanups overlap.
YoungIsShown ==
    \A p \in Photo : upload[p].step = "shared" /\ p \notin old
        => \E d \in First : p \in d.photos

\* An account has one document, the only one its page and its cleanup look at;
\* again under UploadsAlone.
OneStatusDocument == \A d, e \in docs : d = e

\* What a cleanup read and was young then is in the list it goes on to write:
\* the cleanups that share the field do not take statuses from each other.
SweepKeepsYoung ==
    \A s \in Sweep : sweep[s].step \in {"requery", "write"}
        => Young(sweep[s].read) \subseteq newPhotoList

\* statusDeleteAfter24Hours leaves no status in the document it writes that was
\* older than a day when it began.
ExpiredIsDeleted ==
    [][\A s \in Sweep :
           sweep[s].step = "write" /\ sweep'[s].step = "done"
               => \A d \in docs' : d.id = sweep[s].target /\ restarts' = restarts
                      => d.photos \cap sweep[s].due = {}]_vars
=============================================================================
