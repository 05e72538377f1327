---------------------------- MODULE StatusProofs ----------------------------
(***************************************************************************)
(* Proofs about the status updates: types and what the cleanups keep in    *)
(* every behaviour; what the status page shows while no addStatus overlaps *)
(* with another coroutine.                                                 *)
(***************************************************************************)
EXTENDS StatusInvariant, TLAPS

(* What a query answers: a document, or that there is none.                *)
LEMMA AnswerFacts ==
    ASSUME TypeOK, NEW a \in Answer
    PROVE  /\ a.target \in DocId \cup {NoDoc}
           /\ a.read \in SUBSET Photo
           /\ docs = {} => a.target = NoDoc /\ a.read = {}
           /\ docs # {} => /\ a.target # NoDoc
                           /\ \E d \in docs : a.target = d.id /\ a.read = d.photos
<1>1. CASE docs = {}
  BY <1>1 DEF Answer
<1>2. CASE docs # {}
  <2>1. PICK d \in First : a = [target |-> d.id, read |-> d.photos]
    BY <1>2 DEF Answer
  <2>2. d \in docs /\ d \in Doc
    BY <2>1 DEF First, TypeOK
  <2>3. d.id # NoDoc
    BY <2>2, StatusAssumption DEF Doc, NoDoc
  <2> QED
    BY <1>2, <2>1, <2>2, <2>3 DEF Doc
<1> QED
  BY <1>1, <1>2

(* update keeps documents well typed.                                      *)
LEMMA UpdateTyped ==
    ASSUME TypeOK, NEW id, NEW list \in SUBSET Photo, Update(id, list)
    PROVE  docs' \subseteq Doc
BY DEF TypeOK, Update, Doc

(* update replaces the list of one document and keeps their number.        *)
LEMMA UpdateKeeps ==
    ASSUME TypeOK, NEW id, NEW list \in SUBSET Photo, Update(id, list)
    PROVE  /\ (\A d \in docs : d.id # id) => docs' = docs
           /\ \A e \in docs' : e \in docs \/ e.photos = list
           /\ docs' = {} => docs = {}
           /\ OneStatusDocument => OneStatusDocument'
<1> DEFINE new(d) == IF d.id = id THEN [d EXCEPT !.photos = list] ELSE d
<1>1. docs' = {new(d) : d \in docs}
  BY DEF Update
<1>2. \A d \in docs : /\ d.id = id => new(d).photos = list
                      /\ d.id # id => new(d) = d
  BY DEF TypeOK, Doc
<1> HIDE DEF new
<1>3. (\A d \in docs : d.id # id) => docs' = docs
  BY <1>1, <1>2
<1>4. \A e \in docs' : e \in docs \/ e.photos = list
  BY <1>1, <1>2
<1>5. docs' = {} => docs = {}
  BY <1>1
<1>6. OneStatusDocument => OneStatusDocument'
  BY <1>1 DEF OneStatusDocument
<1> QED
  BY <1>3, <1>4, <1>5, <1>6

LEMMA InitType == Init => TypeOK
BY StatusAssumption
   DEF Init, TypeOK, Upload, NoUpload, Cleanup, NoCleanup, NoDoc

(* Every step preserves the type invariant.                                *)
LEMMA StepType == TypeOK /\ [Next]_vars => TypeOK'
<1> SUFFICES ASSUME TypeOK, [Next]_vars
             PROVE  TypeOK'
  OBVIOUS
<1> USE DEF TypeOK
<1>1. ASSUME NEW p \in Photo, Share(p)
      PROVE  TypeOK'
  BY <1>1 DEF Share, Upload
<1>2. ASSUME NEW p \in Photo, ReadStatus(p)
      PROVE  TypeOK'
  <2>1. PICK a \in Answer : upload' = [upload EXCEPT ![p] =
             [step |-> "write", target |-> a.target, read |-> a.read]]
    BY <1>2 DEF ReadStatus
  <2>2. [step |-> "write", target |-> a.target, read |-> a.read] \in Upload
    BY AnswerFacts DEF Upload
  <2> QED
    BY <1>2, <2>1, <2>2 DEF ReadStatus
<1>3. ASSUME NEW p \in Photo, WriteStatus(p)
      PROVE  TypeOK'
  <2>1. upload' \in [Photo -> Upload]
    BY <1>3 DEF WriteStatus, Upload, NoUpload, NoDoc
  <2>2. docs' \subseteq Doc
    <3>1. CASE IsFirstStatus(p)
      BY <1>3, <3>1 DEF WriteStatus, Doc
    <3>2. CASE ~IsFirstStatus(p)
      <4>1. WithShared(p) \in SUBSET Photo
        BY DEF WithShared, Upload
      <4> QED
        BY <1>3, <3>2, <4>1, UpdateTyped DEF WriteStatus
    <3> QED
      BY <3>1, <3>2
  <2> QED
    BY <1>3, <2>1, <2>2 DEF WriteStatus
<1>4. ASSUME NEW p \in Photo, Expire(p)
      PROVE  TypeOK'
  BY <1>4 DEF Expire
<1>5. ASSUME NEW s \in Sweep, Lifecycle(s)
      PROVE  TypeOK'
  BY <1>5 DEF Lifecycle, Cleanup, NoCleanup, NoDoc
<1>6. ASSUME NEW s \in Sweep, ReadForSweep(s)
      PROVE  TypeOK'
  <2>1. PICK a \in Answer : sweep' = [sweep EXCEPT
             ![s].step = IF Missing THEN "done" ELSE "sift",
             ![s].target = a.target, ![s].read = a.read]
    BY <1>6 DEF ReadForSweep
  <2>2. /\ a.target \in DocId \cup {NoDoc}
        /\ a.read \in SUBSET Photo
        /\ ~Missing => a.target # NoDoc
    BY AnswerFacts DEF Missing
  <2>3. PICK step \in {"done", "sift"} :
            /\ sweep' = [sweep EXCEPT ![s].step = step,
                                      ![s].target = a.target, ![s].read = a.read]
            /\ step = "sift" => a.target # NoDoc
    <3>1. CASE Missing
      BY <2>1, <3>1
    <3>2. CASE ~Missing
      BY <2>1, <2>2, <3>2
    <3> QED
      BY <3>1, <3>2
  <2>4. sweep' \in [Sweep -> Cleanup]
    BY <2>2, <2>3 DEF Cleanup
  <2>5. ASSUME NEW t \in Sweep, sweep'[t].step \in {"sift", "requery", "write"}
        PROVE  sweep'[t].target # NoDoc
    BY <2>3, <2>5 DEF Cleanup
  <2> QED
    BY <1>6, <2>4, <2>5 DEF ReadForSweep
<1>7. ASSUME NEW s \in Sweep, Sift(s)
      PROVE  TypeOK'
  <2>1. newPhotoList' \subseteq Photo
    BY <1>7 DEF Sift, Young, Cleanup
  <2>2. docs' \subseteq Doc
    BY <1>7 DEF Sift
  <2>3. /\ sweep' \in [Sweep -> Cleanup]
        /\ \A t \in Sweep : sweep'[t].step \in {"sift", "requery", "write"}
               => sweep'[t].target # NoDoc
    BY <1>7 DEF Sift, Cleanup
  <2> QED
    BY <1>7, <2>1, <2>2, <2>3 DEF Sift
<1>8. ASSUME NEW s \in Sweep, ReadAgain(s)
      PROVE  TypeOK'
  <2>1. PICK a \in Answer : sweep' = [sweep EXCEPT
             ![s].step = IF Missing THEN "done" ELSE "write",
             ![s].target = a.target]
    BY <1>8 DEF ReadAgain
  <2>2. /\ a.target \in DocId \cup {NoDoc}
        /\ a.read \in SUBSET Photo
        /\ ~Missing => a.target # NoDoc
    BY AnswerFacts DEF Missing
  <2>3. PICK step \in {"done", "write"} :
            /\ sweep' = [sweep EXCEPT ![s].step = step,
                                      ![s].target = a.target]
            /\ step = "write" => a.target # NoDoc
    <3>1. CASE Missing
      BY <2>1, <3>1
    <3>2. CASE ~Missing
      BY <2>1, <2>2, <3>2
    <3> QED
      BY <3>1, <3>2
  <2>4. sweep' \in [Sweep -> Cleanup]
    BY <2>2, <2>3 DEF Cleanup
  <2>5. ASSUME NEW t \in Sweep, sweep'[t].step \in {"sift", "requery", "write"}
        PROVE  sweep'[t].target # NoDoc
    BY <2>3, <2>5 DEF Cleanup
  <2> QED
    BY <1>8, <2>4, <2>5 DEF ReadAgain
<1>9. ASSUME NEW s \in Sweep, Rewrite(s)
      PROVE  TypeOK'
  <2>1. docs' \subseteq Doc
    BY <1>9, UpdateTyped DEF Rewrite
  <2> QED
    BY <1>9, <2>1 DEF Rewrite, Cleanup
<1>10. ASSUME Restart
       PROVE  TypeOK'
  <2>1. upload' \in [Photo -> Upload]
    BY <1>10 DEF Restart, Upload, NoUpload, NoDoc
  <2>2. /\ sweep' \in [Sweep -> Cleanup]
        /\ \A t \in Sweep : sweep'[t].step \in {"sift", "requery", "write"}
               => sweep'[t].target # NoDoc
    BY <1>10 DEF Restart, Cleanup, NoCleanup, NoDoc
  <2> QED
    BY <1>10, <2>1, <2>2 DEF Restart
<1>11. CASE UNCHANGED vars
  BY <1>11 DEF vars
<1> QED
  BY <1>1, <1>2, <1>3, <1>4, <1>5, <1>6, <1>7, <1>8, <1>9, <1>10, <1>11
     DEF Next, UploadStep, SweepStep

(* Documents, coroutines and the shared field stay well typed, and a       *)
(* cleanup past its query has a document (statusDeleteAfter24Hours).       *)
THEOREM StatusTyped == Spec => []TypeOK
BY InitType, StepType, PTL DEF Spec

-----------------------------------------------------------------------------
(* No step takes from the field what a cleanup read as young: the field    *)
(* grows until the process ends, and statuses only get older.              *)
LEMMA StepKeeps ==
    TypeOK /\ SweepKeepsYoung /\ [Next]_vars => SweepKeepsYoung'
<1> SUFFICES ASSUME TypeOK, SweepKeepsYoung, [Next]_vars,
                    NEW t \in Sweep, sweep'[t].step \in {"requery", "write"}
             PROVE  (sweep'[t].read \ old') \subseteq newPhotoList'
  BY DEF SweepKeepsYoung, Young
<1> USE DEF TypeOK, SweepKeepsYoung, Young
<1>1. ASSUME NEW p \in Photo, UploadStep(p)
      PROVE  (sweep'[t].read \ old') \subseteq newPhotoList'
  BY <1>1 DEF UploadStep, Share, ReadStatus, WriteStatus, Expire
<1>2. ASSUME NEW s \in Sweep, Lifecycle(s)
      PROVE  (sweep'[t].read \ old') \subseteq newPhotoList'
  BY <1>2 DEF Lifecycle, Cleanup, NoCleanup
<1>3. ASSUME NEW s \in Sweep, ReadForSweep(s)
      PROVE  (sweep'[t].read \ old') \subseteq newPhotoList'
  <2>1. t # s /\ sweep'[t] = sweep[t]
    BY <1>3 DEF ReadForSweep, Cleanup
  <2> QED
    BY <1>3, <2>1 DEF ReadForSweep
<1>4. ASSUME NEW s \in Sweep, Sift(s)
      PROVE  (sweep'[t].read \ old') \subseteq newPhotoList'
  BY <1>4 DEF Sift, Cleanup
<1>5. ASSUME NEW s \in Sweep, ReadAgain(s)
      PROVE  (sweep'[t].read \ old') \subseteq newPhotoList'
  <2>1. /\ sweep[t].step \in {"requery", "write"}
        /\ sweep'[t].read = sweep[t].read
    BY <1>5 DEF ReadAgain, Cleanup
  <2> QED
    BY <1>5, <2>1 DEF ReadAgain
<1>6. ASSUME NEW s \in Sweep, Rewrite(s)
      PROVE  (sweep'[t].read \ old') \subseteq newPhotoList'
  BY <1>6 DEF Rewrite, Cleanup
<1>7. CASE Restart
  BY <1>7 DEF Restart, Cleanup, NoCleanup
<1>8. CASE UNCHANGED vars
  BY <1>8 DEF vars
<1> QED
  BY <1>1, <1>2, <1>3, <1>4, <1>5, <1>6, <1>7, <1>8 DEF Next, SweepStep

(* However many cleanups overlap with each other and with addStatus, what  *)
(* one of them read as young is on the list it goes on to write            *)
(* (statusDeleteAfter24Hours, getPhotoUrl).                                *)
THEOREM CleanupsKeepYoung == Spec => []SweepKeepsYoung
<1>1. Init => SweepKeepsYoung
  BY DEF Init, SweepKeepsYoung, NoCleanup
<1> QED
  BY <1>1, StepKeeps, StatusTyped, PTL DEF Spec

-----------------------------------------------------------------------------
(* What a query answers lists every young status that was shared.          *)
LEMMA AnswerShows ==
    ASSUME TypeOK, StatusInv, NEW a \in Answer
    PROVE  /\ SharedYoung \subseteq a.read
           /\ a.target = NoDoc => docs = {}
BY AnswerFacts DEF StatusInv, ShownOK, NoneOK

(* The steps of an addStatus, while it is the only coroutine that runs.    *)
LEMMA UploadShows ==
    ASSUME TypeOK, StatusInv, UploadsAlone, NEW p \in Photo, UploadStep(p)
    PROVE  StatusInv'
<1> USE DEF TypeOK
<1>1. CASE Share(p)
  <2>1. /\ \A q \in Photo : upload'[q].step \in {"write", "shared"}
               => upload'[q] = upload[q]
        /\ SharedYoung' = SharedYoung
    BY <1>1 DEF Share, SharedYoung, Upload
  <2> QED
    BY <1>1, <2>1 DEF Share, StatusInv, OneStatusDocument, ShownOK, NoneOK,
                      UploadOK, SweepOK
<1>2. CASE ReadStatus(p)
  <2>1. PICK a \in Answer : upload' = [upload EXCEPT ![p] =
             [step |-> "write", target |-> a.target, read |-> a.read]]
    BY <1>2 DEF ReadStatus
  <2>2. SharedYoung' = SharedYoung
    BY <1>2, <2>1 DEF ReadStatus, SharedYoung, Upload
  <2>3. UploadOK'
    BY <1>2, <2>1, <2>2, AnswerShows DEF ReadStatus, StatusInv, UploadOK, Upload
  <2> QED
    BY <1>2, <2>2, <2>3 DEF ReadStatus, StatusInv, OneStatusDocument, ShownOK,
                            NoneOK, SweepOK
<1>3. CASE WriteStatus(p)
  <2>1. /\ \A q \in Photo \ {p} : upload[q].step # "write"
        /\ \A s \in Sweep : sweep[s].step \in {"idle", "done"}
    BY <1>3 DEF WriteStatus, UploadsAlone, Uploading
  <2>2. UploadOK'
    BY <1>3, <2>1 DEF WriteStatus, UploadOK, Upload, NoUpload
  <2>3. SweepOK'
    BY <1>3, <2>1 DEF WriteStatus, SweepOK
  <2>4. (OneStatusDocument /\ ShownOK /\ NoneOK)'
    <3>1. CASE IsFirstStatus(p)
      <4>1. docs = {} /\ SharedYoung = {}
        BY <1>3, <3>1 DEF WriteStatus, IsFirstStatus, StatusInv, UploadOK, NoneOK
      <4>2. PICK id \in DocId : docs' = {[id |-> id, photos |-> {p}]}
        BY <1>3, <3>1, <4>1 DEF WriteStatus
      <4>3. SharedYoung' \subseteq {p}
        BY <1>3, <3>1, <4>1 DEF WriteStatus, SharedYoung, Upload, NoUpload
      <4> QED
        <5>1. \A d \in docs' : d = [id |-> id, photos |-> {p}] /\ d.photos = {p}
          BY <4>2
        <5>2. docs' # {}
          BY <4>2
        <5> QED
          BY <4>3, <5>1, <5>2 DEF OneStatusDocument, ShownOK, NoneOK
    <3>2. CASE ~IsFirstStatus(p) /\ \E d \in docs : d.id = upload[p].target
      <4>1. PICK d \in Doc : docs = {d} /\ d.id = upload[p].target
        BY <3>2 DEF StatusInv, OneStatusDocument
      <4>2. docs' = {[d EXCEPT !.photos = WithShared(p)]}
        BY <1>3, <3>2, <4>1 DEF WriteStatus, Update
      <4>3. SharedYoung' \subseteq SharedYoung \cup {p}
        BY <1>3, <3>2 DEF WriteStatus, SharedYoung, Upload, NoUpload
      <4>4. SharedYoung \cup {p} \subseteq WithShared(p)
        BY <1>3 DEF WriteStatus, WithShared, StatusInv, UploadOK
      <4> QED
        BY <4>1, <4>2, <4>3, <4>4 DEF OneStatusDocument, ShownOK, NoneOK, Doc
    <3>3. CASE ~IsFirstStatus(p) /\ \A d \in docs : d.id # upload[p].target
      <4>1. docs' = docs
        <5>1. WithShared(p) \in SUBSET Photo
          BY DEF WithShared, Upload
        <5> QED
          BY <1>3, <3>3, <5>1, UpdateKeeps DEF WriteStatus
      <4>2. SharedYoung' \subseteq SharedYoung
        BY <1>3, <3>3 DEF WriteStatus, SharedYoung, Upload, NoUpload
      <4> QED
        BY <4>1, <4>2 DEF StatusInv, OneStatusDocument, ShownOK, NoneOK
    <3> QED
      BY <3>1, <3>2, <3>3
  <2> QED
    BY <2>2, <2>3, <2>4 DEF StatusInv
<1>4. CASE Expire(p)
  <2>1. SharedYoung' \subseteq SharedYoung
    BY <1>4 DEF Expire, SharedYoung
  <2> QED
    BY <1>4, <2>1 DEF Expire, StatusInv, OneStatusDocument, ShownOK, NoneOK,
                      UploadOK, SweepOK
<1> QED
  BY <1>1, <1>2, <1>3, <1>4 DEF UploadStep

(* The steps of a cleanup, while no addStatus runs.                        *)
LEMMA SweepShows ==
    ASSUME TypeOK, StatusInv, UploadsAlone, NEW s \in Sweep, SweepStep(s)
    PROVE  StatusInv'
<1> USE DEF TypeOK
<1>1. upload' = upload /\ SharedYoung' = SharedYoung
  BY DEF SweepStep, Lifecycle, ReadForSweep, Sift, ReadAgain, Rewrite, SharedYoung
<1>2. CASE Lifecycle(s)
  <2>1. SweepOK'
    BY <1>1, <1>2 DEF Lifecycle, SweepOK, StatusInv, Cleanup, NoCleanup
  <2> QED
    BY <1>1, <1>2, <2>1 DEF Lifecycle, StatusInv, OneStatusDocument, ShownOK,
                            NoneOK, UploadOK
<1>3. CASE ReadForSweep(s)
  <2>1. PICK a \in Answer :
            /\ \A t \in Sweep \ {s} : sweep'[t] = sweep[t]
            /\ sweep'[s].step \in {"done", "sift"}
            /\ sweep'[s].read = a.read
    BY <1>3 DEF ReadForSweep, Cleanup
  <2>2. SweepOK'
    BY <1>1, <1>3, <2>1, AnswerShows DEF ReadForSweep, SweepOK, StatusInv
  <2> QED
    BY <1>1, <1>3, <2>2 DEF ReadForSweep, StatusInv, OneStatusDocument, ShownOK,
                            NoneOK, UploadOK
<1>4. CASE Sift(s)
  <2>1. /\ SharedYoung \subseteq newPhotoList'
        /\ newPhotoList \subseteq newPhotoList'
    BY <1>4 DEF Sift, Young, SharedYoung, StatusInv, SweepOK
  <2>2. docs' \subseteq docs /\ (docs' # docs => SharedYoung = {})
    BY <1>4, <2>1 DEF Sift
  <2>3. SweepOK'
    BY <1>1, <1>4, <2>1 DEF Sift, SweepOK, StatusInv, Cleanup
  <2> QED
    BY <1>1, <2>2, <2>3 DEF StatusInv, OneStatusDocument, ShownOK, NoneOK, UploadOK
<1>5. CASE ReadAgain(s)
  <2>1. /\ \A t \in Sweep \ {s} : sweep'[t] = sweep[t]
        /\ sweep[s].step = "requery"
        /\ sweep'[s].step \in {"done", "write"}
    BY <1>5 DEF ReadAgain, Cleanup
  <2>2. SweepOK'
    BY <1>1, <1>5, <2>1 DEF ReadAgain, SweepOK, StatusInv
  <2> QED
    BY <1>1, <1>5, <2>2 DEF ReadAgain, StatusInv, OneStatusDocument, ShownOK,
                            NoneOK, UploadOK
<1>6. CASE Rewrite(s)
  <2>1. SharedYoung \subseteq newPhotoList
    BY <1>6 DEF Rewrite, StatusInv, SweepOK
  <2>2. (OneStatusDocument /\ ShownOK /\ NoneOK)'
    BY <1>1, <1>6, <2>1, UpdateKeeps DEF Rewrite, StatusInv, ShownOK, NoneOK
  <2>3. UploadOK'
    BY <1>1, <1>6 DEF Rewrite, UploadsAlone, Uploading, UploadOK
  <2>4. SweepOK'
    BY <1>1, <1>6 DEF Rewrite, SweepOK, StatusInv, Cleanup
  <2> QED
    BY <2>2, <2>3, <2>4 DEF StatusInv
<1> QED
  BY <1>2, <1>3, <1>4, <1>5, <1>6 DEF SweepStep

(* A step from a state in which no addStatus overlaps with another         *)
(* coroutine keeps every young status listed.                              *)
LEMMA StepShows ==
    TypeOK /\ StatusInv /\ UploadsAlone /\ [Next]_vars => StatusInv'
<1> SUFFICES ASSUME TypeOK, StatusInv, UploadsAlone, [Next]_vars
             PROVE  StatusInv'
  OBVIOUS
<1>1. CASE Restart
  <2>1. /\ SharedYoung' = SharedYoung
        /\ \A p \in Photo : upload'[p].step # "write"
        /\ \A s \in Sweep : sweep'[s].step \in {"idle", "done"}
    BY <1>1 DEF Restart, SharedYoung, TypeOK, Upload, NoUpload, Cleanup, NoCleanup
  <2> QED
    BY <1>1, <2>1 DEF Restart, StatusInv, OneStatusDocument, ShownOK, NoneOK,
                      UploadOK, SweepOK
<1>2. CASE UNCHANGED vars
  BY <1>2 DEF vars, StatusInv, OneStatusDocument, ShownOK, NoneOK, UploadOK,
              SweepOK, SharedYoung
<1> QED
  BY <1>1, <1>2, UploadShows, SweepShows DEF Next

(* While no addStatus overlaps with another coroutine, no list that is     *)
(* shown or on its way misses a young status, however the cleanups         *)
(* overlap (addStatus, statusDeleteAfter24Hours).                          *)
THEOREM YoungIsListed == Spec /\ []UploadsAlone => []StatusInv
<1>1. Init => StatusInv
  BY DEF Init, StatusInv, OneStatusDocument, ShownOK, NoneOK, UploadOK, SweepOK,
         SharedYoung, NoUpload, NoCleanup
<1> QED
  BY <1>1, StepShows, StatusTyped, PTL DEF Spec

(* Then the status page shows every young status ...                       *)
THEOREM StatusPageComplete == Spec /\ []UploadsAlone => []YoungIsShown
<1>1. TypeOK /\ StatusInv => YoungIsShown
  <2> SUFFICES ASSUME TypeOK, StatusInv,
                      NEW p \in Photo, upload[p].step = "shared", p \notin old
               PROVE  \E d \in First : p \in d.photos
    BY DEF YoungIsShown
  <2>1. p \in SharedYoung
    BY DEF SharedYoung
  <2>2. PICK d \in docs : TRUE
    BY <2>1 DEF StatusInv, NoneOK
  <2>3. p \in d.photos
    BY <2>1, <2>2 DEF StatusInv, ShownOK
  <2>4. d.id \in Nat /\ \A e \in docs : e = d
    BY <2>2, StatusAssumption DEF StatusInv, OneStatusDocument, TypeOK, Doc
  <2> QED
    BY <2>2, <2>3, <2>4 DEF First
<1> QED
  BY <1>1, YoungIsListed, StatusTyped, PTL

(* ... and the account has one status document.                            *)
THEOREM AccountHasOneDocument == Spec /\ []UploadsAlone => []OneStatusDocument
<1>1. StatusInv => OneStatusDocument
  BY DEF StatusInv
<1> QED
  BY <1>1, YoungIsListed, PTL
=============================================================================
