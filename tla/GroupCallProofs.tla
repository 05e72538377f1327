--------------------------- MODULE GroupCallProofs ---------------------------
(***************************************************************************)
(* RingInv and OwnInv are inductive: for all users, calls and lists of     *)
(* members.                                                                *)
(***************************************************************************)
EXTENDS GroupCallInvariant, TLAPS

LEMMA PendingTyped ==
    ASSUME TypeOK, NEW u \in User
    PROVE  Pending(u) \subseteq Write
BY DEF TypeOK, Pending

LEMMA ViewTyped ==
    ASSUME TypeOK, NEW u \in User, NEW v \in User
    PROVE  View(u, v) \subseteq Doc
<1>1. Pending(u) \subseteq Write
  BY PendingTyped
<1>2. calling[v] \subseteq Doc
  BY DEF TypeOK
<1>3. \A w \in Write : w.doc \in Doc
  BY DEF Write
<1> QED
  BY <1>1, <1>2, <1>3 DEF View

(* Deletions are writes of one document at most.                           *)
LEMMA DeletionTyped ==
    ASSUME NEW v \in User, NEW S \in SUBSET Doc, NEW s \in Deletions(v, S)
    PROVE  /\ s \in Seq(Write)
           /\ \A i \in DOMAIN s : \E d \in S : s[i] = Deletion(v, d)
<1>1. CASE S = {}
  BY <1>1 DEF Deletions
<1>2. CASE S # {}
  <2>1. PICK d \in First(S) : s = <<Deletion(v, d)>>
    BY <1>2 DEF Deletions
  <2>2. d \in S /\ d \in Doc
    BY DEF First
  <2>3. Deletion(v, d) \in Write
    BY <2>2 DEF Deletion, Write
  <2> QED
    BY <2>1, <2>2, <2>3
<1> QED
  BY <1>1, <1>2

LEMMA BareTyped ==
    ASSUME NEW c \in CallId
    PROVE  /\ BareDocs(c) \in Seq(Write)
           /\ \A i \in DOMAIN BareDocs(c) : BareDocs(c)[i].op = "set"
<1>1. Receivers[c] \in Seq(User)
  BY GroupCallAssumption
<1> DEFINE r == Receivers[c]
<1>2. /\ Len(r) \in Nat
      /\ DOMAIN r = 1 .. Len(r)
      /\ \A i \in 1 .. Len(r) : r[i] \in User
  <2>1. r \in Seq(User)
    BY <1>1
  <2> HIDE DEF r
  <2> QED
    BY <2>1
<1>3. Stamp[c] \in Nat
  BY GroupCallAssumption
<1> DEFINE bare(i) == [op |-> "set", owner |-> r[i],
                       doc |-> [id |-> Stamp[c], call |-> c, to |-> r[i], kind |-> "bare"]]
<1>4. BareDocs(c) = [i \in 1 .. Len(r) |-> bare(i)]
  BY <1>2 DEF BareDocs
<1>5. \A i \in 1 .. Len(r) : bare(i) \in Write
  BY <1>2, <1>3 DEF Write, Doc
<1> HIDE DEF bare
<1>6. [i \in 1 .. Len(r) |-> bare(i)] \in Seq(Write)
  BY <1>2, <1>5
<1>7. \A i \in 1 .. Len(r) : bare(i).op = "set"
  BY DEF bare
<1> QED
  BY <1>4, <1>6, <1>7

(* Issuing adds writes to one outbox.                                      *)
LEMMA IssueFacts ==
    ASSUME TypeOK, NEW u \in User, NEW writes \in Seq(Write), Issue(u, writes)
    PROVE  /\ outbox' \in [User -> Seq(Write)]
           /\ \A v \in User : \A w \in Pending(v)' :
                  w \in Pending(v) \/ \E i \in DOMAIN writes : w = writes[i]
<1>1. outbox \in [User -> Seq(Write)]
  BY DEF TypeOK
<1> DEFINE s == outbox[u]
<1>2. s \in Seq(Write)
  BY <1>1
<1>3. outbox' = [outbox EXCEPT ![u] = s \o writes]
  BY DEF Issue
<1>4. s \o writes \in Seq(Write)
  BY <1>2
<1>5. outbox' \in [User -> Seq(Write)] /\ outbox'[u] = s \o writes
  BY <1>1, <1>3, <1>4
<1>6. \A v \in User \ {u} : outbox'[v] = outbox[v]
  BY <1>1, <1>3
<1>7. \A i \in DOMAIN (s \o writes) :
          \/ i \in DOMAIN s /\ (s \o writes)[i] = s[i]
          \/ i - Len(s) \in DOMAIN writes /\ (s \o writes)[i] = writes[i - Len(s)]
  <2> HIDE DEF s
  <2> QED
    BY <1>2
<1>8. ASSUME NEW v \in User, NEW w \in Pending(v)'
      PROVE  w \in Pending(v) \/ \E i \in DOMAIN writes : w = writes[i]
  <2>1. CASE v = u
    <3>1. PICK i \in DOMAIN (s \o writes) : w = (s \o writes)[i]
      BY <2>1, <1>5 DEF Pending
    <3>2. CASE i \in DOMAIN s /\ (s \o writes)[i] = s[i]
      BY <3>1, <3>2, <2>1 DEF Pending
    <3>3. CASE i - Len(s) \in DOMAIN writes /\ (s \o writes)[i] = writes[i - Len(s)]
      BY <3>1, <3>3
    <3> QED
      BY <3>1, <3>2, <3>3, <1>7
  <2>2. CASE v # u
    BY <2>2, <1>6 DEF Pending
  <2> QED
    BY <2>1, <2>2
<1> QED
  BY <1>5, <1>8

(* Committing takes the first write of one outbox.                         *)
LEMMA CommitFacts ==
    ASSUME TypeOK, NEW u \in User, Commit(u)
    PROVE  /\ Head(outbox[u]) \in Pending(u)
           /\ outbox' \in [User -> Seq(Write)]
           /\ \A v \in User : Pending(v)' \subseteq Pending(v)
<1>1. outbox \in [User -> Seq(Write)]
  BY DEF TypeOK
<1>2. outbox[u] \in Seq(Write) /\ outbox[u] # <<>>
  BY <1>1 DEF Commit
<1>3. outbox' = [outbox EXCEPT ![u] = Tail(outbox[u])]
  BY DEF Commit
<1>4. Tail(outbox[u]) \in Seq(Write)
  BY <1>2
<1> DEFINE s == outbox[u]
<1>5. /\ 1 \in DOMAIN s /\ Head(s) = s[1]
      /\ \A i \in DOMAIN Tail(s) : i + 1 \in DOMAIN s /\ Tail(s)[i] = s[i + 1]
  <2>1. s \in Seq(Write) /\ s # <<>>
    BY <1>2
  <2> HIDE DEF s
  <2> QED
    BY <2>1
<1>6. Head(outbox[u]) \in Pending(u)
  BY <1>5 DEF Pending
<1>7. outbox' \in [User -> Seq(Write)] /\ outbox'[u] = Tail(outbox[u])
  BY <1>1, <1>3, <1>4
<1>8. ASSUME NEW v \in User
      PROVE  Pending(v)' \subseteq Pending(v)
  <2>1. CASE v = u
    BY <2>1, <1>5, <1>7 DEF Pending
  <2>2. CASE v # u
    <3>1. outbox'[v] = outbox[v]
      BY <2>2, <1>1, <1>3
    <3> QED
      BY <3>1 DEF Pending
  <2> QED
    BY <2>1, <2>2
<1> QED
  BY <1>6, <1>7, <1>8
-----------------------------------------------------------------------------
(* Type correctness.                                                       *)

LEMMA InitType == Init => TypeOK
BY GroupCallAssumption DEF Init, TypeOK, InviteStep, EndStep

(* An awaited add puts one document under calling.                         *)
LEMMA AddFacts ==
    ASSUME TypeOK, NEW u \in User, NEW v \in User, NEW c \in CallId, NEW m \in User,
           NEW kind \in {"copy", "ring"}, Add(u, v, c, m, kind)
    PROVE  /\ calling' \in [User -> SUBSET Doc]
           /\ \A w \in User : calling[w] \subseteq calling'[w]
           /\ \E d \in calling'[v] : d.kind = kind /\ d.call = c
<1>1. PICK id \in DocId \ {d.id : d \in calling[v]} :
          calling' = [calling EXCEPT ![v] = @ \cup
                         {[id |-> id, call |-> c, to |-> m, kind |-> kind]}]
  BY DEF Add
<1> DEFINE new == [id |-> id, call |-> c, to |-> m, kind |-> kind]
<1>2. new \in Doc
  BY GroupCallAssumption DEF Doc
<1>3. new.kind = kind /\ new.call = c
  OBVIOUS
<1> HIDE DEF new
<1>4. calling \in [User -> SUBSET Doc] /\ calling' = [calling EXCEPT ![v] = @ \cup {new}]
  BY <1>1 DEF TypeOK, new
<1> QED
  BY <1>2, <1>3, <1>4

(* What a set of documents found at v, an element of which is deleted, is. *)
LEMMA QueryTyped ==
    ASSUME TypeOK, NEW u \in User, NEW v \in User, NEW w \in User
    PROVE  /\ PlacedBy(u, v, w) \in SUBSET Doc
           /\ ReceivedBy(u, v) \in SUBSET Doc
BY ViewTyped DEF PlacedBy, ReceivedBy

LEMMA CallStepType ==
    ASSUME TypeOK, NEW c \in CallId, CallStep(c)
    PROVE  TypeOK'
<1>0. Caller[c] \in User
  BY GroupCallAssumption
<1>1. CASE Dial(c)
  <2>1. invite' \in [CallId -> [User -> InviteStep]]
    BY <1>1 DEF Dial, TypeOK, InviteStep
  <2> QED
    BY <1>1, <2>1 DEF Dial, TypeOK, callVars, clientVars, endVars
<1>2. ASSUME NEW m \in User, Lookup(c, m)
      PROVE  TypeOK'
  <2>1. invite' \in [CallId -> [User -> InviteStep]]
    BY <1>2 DEF Lookup, TypeOK, InviteStep
  <2> QED
    BY <1>2, <2>1 DEF Lookup, TypeOK, callVars, clientVars, endVars
<1>3. ASSUME NEW m \in User, AddCopy(c, m)
      PROVE  TypeOK'
  <2>1. calling' \in [User -> SUBSET Doc]
    BY <1>0, <1>3, AddFacts DEF AddCopy
  <2>2. invite' \in [CallId -> [User -> InviteStep]]
    BY <1>3 DEF AddCopy, TypeOK, InviteStep
  <2> QED
    BY <1>3, <2>1, <2>2 DEF AddCopy, TypeOK, clientVars, endVars
<1>4. ASSUME NEW m \in User, AddRing(c, m)
      PROVE  TypeOK'
  <2>1. calling' \in [User -> SUBSET Doc]
    BY <1>0, <1>4, AddFacts DEF AddRing
  <2>2. invite' \in [CallId -> [User -> InviteStep]]
    BY <1>4 DEF AddRing, TypeOK, InviteStep
  <2>3. /\ page' \in [User -> CallId \cup {Home}]
        /\ listed' \subseteq {u \in User : page'[u] # Home}
    <3>1. CASE page[Caller[c]] = Home
      <4>1. page' = [page EXCEPT ![Caller[c]] = c] /\ listed' = listed \cup {Caller[c]}
        BY <1>4, <3>1 DEF AddRing
      <4>2. page' \in [User -> CallId \cup {Home}]
        BY <1>0, <4>1 DEF TypeOK
      <4>3. c # Home
        BY GroupCallAssumption
      <4> QED
        BY <1>0, <4>1, <4>2, <4>3 DEF TypeOK
    <3>2. CASE page[Caller[c]] # Home
      BY <1>4, <3>2 DEF AddRing, TypeOK
    <3> QED
      BY <3>1, <3>2
  <2>4. UNCHANGED <<outbox, noted, sweeps, ending, deed, killed>>
    BY <1>4 DEF AddRing, endVars
  <2> QED
    BY <2>1, <2>2, <2>3, <2>4 DEF TypeOK
<1>5. ASSUME NEW m \in User, Sweep(c, m)
      PROVE  TypeOK'
  <2>1. PICK deletion \in Deletions(m, PlacedBy(Caller[c], m, m)) :
            Issue(Caller[c], deletion)
    BY <1>5 DEF Sweep
  <2>2. deletion \in Seq(Write)
    BY <1>0, QueryTyped, DeletionTyped
  <2>3. outbox' \in [User -> Seq(Write)]
    BY <1>0, <2>1, <2>2, IssueFacts
  <2>4. sweeps' \subseteq CallId \X User
    BY <1>5 DEF Sweep, TypeOK
  <2>5. UNCHANGED <<calling, invite, page, listed, noted, ending, deed, killed>>
    BY <1>5 DEF Sweep, clientVars
  <2> QED
    BY <2>3, <2>4, <2>5 DEF TypeOK
<1> QED
  BY <1>1, <1>2, <1>3, <1>4, <1>5 DEF CallStep

(* Leaving a call page takes its list along.                               *)
LEMMA LeaveType ==
    ASSUME TypeOK, NEW u \in User, page' = [page EXCEPT ![u] = Home],
           listed' = WithoutList(u)
    PROVE  /\ page' \in [User -> CallId \cup {Home}]
           /\ listed' \subseteq {v \in User : page'[v] # Home}
BY DEF TypeOK, WithoutList

LEMMA UserStepType ==
    ASSUME TypeOK, NEW u \in User, UserStep(u)
    PROVE  TypeOK'
<1>1. CASE Join(u)
  <2>1. noted' \subseteq CallId
    BY <1>1 DEF Join, TypeOK
  <2>2. UNCHANGED <<calling, outbox, invite, page, listed, sweeps, ending, deed, killed>>
    BY <1>1 DEF Join, callVars, endVars
  <2> QED
    BY <2>1, <2>2 DEF TypeOK
<1>2. CASE HangUp(u)
  <2>1. page[u] \in CallId
    BY <1>2 DEF HangUp, TypeOK
  <2>2. Member(page[u]) \subseteq User
    BY <2>1, GroupCallAssumption DEF Member
  <2> DEFINE asked == {<<page[u], m>> : m \in Member(page[u])}
  <2>3. asked \subseteq CallId \X User
    BY <2>1, <2>2
  <2>4. sweeps' = sweeps \cup asked \/ sweeps' = sweeps
    BY <1>2 DEF HangUp
  <2> HIDE DEF asked
  <2>5. sweeps' \subseteq CallId \X User
    BY <2>3, <2>4 DEF TypeOK
  <2>6. \/ ending' = [ending EXCEPT ![u][page[u]] = "list"]
        \/ ending' = [ending EXCEPT ![u][page[u]] = "caller"]
    BY <1>2 DEF HangUp
  <2>7. ending' \in [User -> [CallId -> EndStep]]
    <3>1. ASSUME NEW c \in CallId, NEW e \in EndStep,
                 ending' = [ending EXCEPT ![u][c] = e]
          PROVE  ending' \in [User -> [CallId -> EndStep]]
      <4>1. ending \in [User -> [CallId -> EndStep]]
        BY DEF TypeOK
      <4> QED
        BY <3>1, <4>1
    <3>2. "list" \in EndStep /\ "caller" \in EndStep
      BY DEF EndStep
    <3> QED
      BY <2>1, <2>6, <3>1, <3>2
  <2>8. sweeps' \subseteq CallId \X User /\ ending' \in [User -> [CallId -> EndStep]]
    BY <2>5, <2>7
  <2>9. deed' \subseteq User \X CallId
    BY <1>2, <2>1 DEF HangUp, TypeOK
  <2> QED
    BY <1>2, <2>8, <2>9 DEF HangUp, TypeOK, callVars, clientVars
<1>3. CASE Commit(u)
  <2> DEFINE w == Head(outbox[u])
  <2>1. w \in Write
    BY <1>3, CommitFacts, PendingTyped
  <2>2. w.owner \in User /\ w.doc \in Doc
    BY <2>1 DEF Write
  <2>3. calling' \in [User -> SUBSET Doc]
    BY <1>3, <2>2 DEF Commit, TypeOK
  <2> QED
    BY <1>3, <2>3, CommitFacts DEF Commit, TypeOK, clientVars, endVars
<1>4. CASE Kill(u)
  <2>1. invite' \in [CallId -> [User -> InviteStep]]
    BY <1>4 DEF Kill, TypeOK, InviteStep
  <2>2. ending' \in [User -> [CallId -> EndStep]]
    BY <1>4 DEF Kill, TypeOK, EndStep
  <2>3. sweeps' \subseteq CallId \X User /\ killed' \subseteq User
    BY <1>4 DEF Kill, TypeOK
  <2> QED
    BY <1>4, <2>1, <2>2, <2>3, LeaveType DEF Kill, TypeOK, callVars
<1>5. ASSUME NEW c \in CallId, Accept(u, c)
      PROVE  TypeOK'
  BY <1>5, GroupCallAssumption DEF Accept, WithoutList, TypeOK, callVars, endVars
<1>6. ASSUME NEW c \in CallId, Reject(u, c)
      PROVE  TypeOK'
  BY <1>6 DEF Reject, TypeOK, EndStep, callVars, clientVars
<1>7. ASSUME NEW c \in CallId, EndAtCallerOfList(u, c)
      PROVE  TypeOK'
  <2>1. PICK deletion \in Deletions(u, PlacedBy(u, u, u)) :
            Issue(u, deletion \o BareDocs(c))
    BY <1>7 DEF EndAtCallerOfList
  <2>2. deletion \o BareDocs(c) \in Seq(Write)
    BY QueryTyped, DeletionTyped, BareTyped
  <2>3. outbox' \in [User -> Seq(Write)]
    BY <2>1, <2>2, IssueFacts
  <2>4. ending' \in [User -> [CallId -> EndStep]]
    BY <1>7 DEF EndAtCallerOfList, TypeOK, EndStep
  <2> QED
    BY <1>7, <2>3, <2>4, LeaveType DEF EndAtCallerOfList, TypeOK
<1>8. ASSUME NEW c \in CallId, EndAtCaller(u, c)
      PROVE  TypeOK'
  <2>0. Caller[c] \in User
    BY GroupCallAssumption
  <2>1. PICK deletion \in Deletions(Caller[c], PlacedBy(u, Caller[c], Caller[c])) :
            Issue(u, deletion)
    BY <1>8 DEF EndAtCaller
  <2>2. deletion \in Seq(Write)
    BY <2>0, QueryTyped, DeletionTyped
  <2>3. outbox' \in [User -> Seq(Write)]
    BY <2>1, <2>2, IssueFacts
  <2>4. ending' \in [User -> [CallId -> EndStep]]
    BY <1>8 DEF EndAtCaller, TypeOK, EndStep
  <2> QED
    BY <1>8, <2>3, <2>4 DEF EndAtCaller, TypeOK, clientVars
<1>9. ASSUME NEW c \in CallId, EndAtReceiver(u, c)
      PROVE  TypeOK'
  <2>1. PICK deletion \in Deletions(u, ReceivedBy(u, u)) : Issue(u, deletion)
    BY <1>9 DEF EndAtReceiver, OwnReceiver
  <2>2. deletion \in Seq(Write)
    BY QueryTyped, DeletionTyped
  <2>3. outbox' \in [User -> Seq(Write)]
    BY <2>1, <2>2, IssueFacts
  <2>4. ending' \in [User -> [CallId -> EndStep]]
    BY <1>9 DEF EndAtReceiver, TypeOK, EndStep
  <2> QED
    BY <1>9, <2>3, <2>4, LeaveType DEF EndAtReceiver, TypeOK
<1> QED
  BY <1>1, <1>2, <1>3, <1>4, <1>5, <1>6, <1>7, <1>8, <1>9 DEF UserStep

LEMMA StepType == TypeOK /\ [Next]_vars => TypeOK'
<1> SUFFICES ASSUME TypeOK, [Next]_vars
             PROVE  TypeOK'
  OBVIOUS
<1>1. CASE UNCHANGED vars
  BY <1>1 DEF vars, callVars, clientVars, endVars, TypeOK
<1>2. ASSUME NEW c \in CallId, CallStep(c)
      PROVE  TypeOK'
  BY <1>2, CallStepType
<1>3. ASSUME NEW u \in User, UserStep(u)
      PROVE  TypeOK'
  BY <1>3, UserStepType
<1> QED
  BY <1>1, <1>2, <1>3 DEF Next

(* The documents, writes, lookups and pages of GroupCall are well typed in *)
(* every reachable state: audioAndVideoCall of a group, PickupBody and     *)
(* endCall put nothing else under calling.                                 *)
THEOREM GroupCallIsTyped == Spec => []TypeOK
BY InitType, StepType, PTL DEF Spec
-----------------------------------------------------------------------------
(* Rings of members.                                                       *)

LEMMA InitRings == Init => RingInv
<1> SUFFICES ASSUME Init
             PROVE  RingInv
  OBVIOUS
<1>1. OutboxOK
  BY DEF Init, OutboxOK, Pending
<1>2. EndingOK
  BY DEF Init, EndingOK
<1>3. RingIsOwn
  BY GroupCallAssumption DEF Init, RingIsOwn, Member
<1> QED
  BY <1>1, <1>2, <1>3, InitType DEF RingInv

(* A step that removes no document and completes no lookup keeps the rings. *)
LEMMA RingsKept ==
    ASSUME RingIsOwn, deed \subseteq deed',
           \A v \in User : calling[v] \subseteq calling'[v],
           \A c \in CallId, m \in User :
               invite'[c][m] = "done" => invite[c][m] = "done"
    PROVE  RingIsOwn'
<1>1. \A c \in CallId : Member(c) \subseteq User
  BY GroupCallAssumption DEF Member
<1> QED
  BY <1>1 DEF RingIsOwn

LEMMA OutboxKept ==
    ASSUME OutboxOK, deed \subseteq deed',
           \A v \in User : \A w \in Pending(v)' : w \in Pending(v) \/ DeletionOK(w)'
    PROVE  OutboxOK'
<1>1. ASSUME NEW w, DeletionOK(w)
      PROVE  DeletionOK(w)'
  BY <1>1 DEF DeletionOK, HasEnded
<1> QED
  BY <1>1 DEF OutboxOK

(* Issuing deletions of documents that may go.                             *)
LEMMA IssueKeeps ==
    ASSUME TypeOK, OutboxOK, NEW u \in User, NEW writes \in Seq(Write),
           Issue(u, writes), deed \subseteq deed',
           \A i \in DOMAIN writes : DeletionOK(writes[i])'
    PROVE  OutboxOK'
<1>1. \A v \in User : \A w \in Pending(v)' :
          w \in Pending(v) \/ \E i \in DOMAIN writes : w = writes[i]
  BY IssueFacts
<1>2. \A v \in User : \A w \in Pending(v)' : w \in Pending(v) \/ DeletionOK(w)'
  BY <1>1
<1> QED
  BY <1>2, OutboxKept

(* A query for the calls v placed finds documents v dialled.               *)
LEMMA PlacedMayGo ==
    ASSUME TypeOK, NEW u \in User, NEW v \in User,
           NEW s \in Deletions(v, PlacedBy(u, v, v))
    PROVE  s \in Seq(Write) /\ \A i \in DOMAIN s : DeletionOK(s[i])'
<1>1. PlacedBy(u, v, v) \in SUBSET Doc
  BY QueryTyped
<1>2. /\ s \in Seq(Write)
      /\ \A i \in DOMAIN s : \E d \in PlacedBy(u, v, v) : s[i] = Deletion(v, d)
  BY <1>1, DeletionTyped
<1>3. \A d \in PlacedBy(u, v, v) : DeletionOK(Deletion(v, d))'
  BY DEF PlacedBy, Deletion, DeletionOK
<1> QED
  BY <1>2, <1>3

LEMMA CallStepRings ==
    ASSUME RingInv, NEW c \in CallId, CallStep(c)
    PROVE  OutboxOK' /\ EndingOK' /\ RingIsOwn'
<1>0. TypeOK /\ OutboxOK /\ EndingOK /\ RingIsOwn /\ Caller[c] \in User
  BY GroupCallAssumption DEF RingInv
<1>1. CASE Dial(c)
  <2>1. UNCHANGED <<calling, outbox, ending, deed>>
    BY <1>1 DEF Dial, callVars, endVars
  <2>2. \A e \in CallId, m \in User : invite'[e][m] = "done" => invite[e][m] = "done"
    BY <1>0, <1>1 DEF Dial, TypeOK
  <2> QED
    BY <1>0, <2>1, <2>2, RingsKept, OutboxKept DEF EndingOK, Pending
<1>2. ASSUME NEW m \in User, Lookup(c, m)
      PROVE  OutboxOK' /\ EndingOK' /\ RingIsOwn'
  <2>1. UNCHANGED <<calling, outbox, ending, deed>>
    BY <1>2 DEF Lookup, callVars, endVars
  <2>2. \A e \in CallId, n \in User : invite'[e][n] = "done" => invite[e][n] = "done"
    BY <1>0, <1>2 DEF Lookup, TypeOK
  <2> QED
    BY <1>0, <2>1, <2>2, RingsKept, OutboxKept DEF EndingOK, Pending
<1>3. ASSUME NEW m \in User, AddCopy(c, m)
      PROVE  OutboxOK' /\ EndingOK' /\ RingIsOwn'
  <2>1. UNCHANGED <<outbox, ending, deed>>
    BY <1>3 DEF AddCopy, endVars
  <2>2. \A v \in User : calling[v] \subseteq calling'[v]
    BY <1>0, <1>3, AddFacts DEF AddCopy
  <2>3. \A e \in CallId, n \in User : invite'[e][n] = "done" => invite[e][n] = "done"
    BY <1>0, <1>3 DEF AddCopy, TypeOK
  <2> QED
    BY <1>0, <2>1, <2>2, <2>3, RingsKept, OutboxKept DEF EndingOK, Pending
<1>4. ASSUME NEW m \in User, AddRing(c, m)
      PROVE  OutboxOK' /\ EndingOK' /\ RingIsOwn'
  <2>1. UNCHANGED <<outbox, ending, deed>>
    BY <1>4 DEF AddRing, endVars
  <2>2. /\ \A v \in User : calling[v] \subseteq calling'[v]
        /\ \E d \in calling'[m] : d.kind = "ring" /\ d.call = c
    BY <1>0, <1>4, AddFacts DEF AddRing
  <2>3. \A e \in CallId, n \in User :
            invite'[e][n] = "done" => invite[e][n] = "done" \/ (e = c /\ n = m)
    BY <1>0, <1>4 DEF AddRing, TypeOK
  <2>4. \A e \in CallId : Member(e) \subseteq User
    BY GroupCallAssumption DEF Member
  <2>5. RingIsOwn'
    BY <1>0, <2>1, <2>2, <2>3, <2>4 DEF RingIsOwn
  <2> QED
    BY <1>0, <2>1, <2>5, OutboxKept DEF EndingOK, Pending
<1>5. ASSUME NEW m \in User, Sweep(c, m)
      PROVE  OutboxOK' /\ EndingOK' /\ RingIsOwn'
  <2>1. PICK deletion \in Deletions(m, PlacedBy(Caller[c], m, m)) :
            Issue(Caller[c], deletion)
    BY <1>5 DEF Sweep
  <2>2. UNCHANGED <<calling, invite, ending, deed>>
    BY <1>5 DEF Sweep
  <2>3. OutboxOK'
    BY <1>0, <2>1, <2>2, PlacedMayGo, IssueKeeps
  <2> QED
    BY <1>0, <2>2, <2>3, RingsKept DEF EndingOK
<1> QED
  BY <1>1, <1>2, <1>3, <1>4, <1>5 DEF CallStep

(* A committed deletion takes no ring of a member who has ended nothing.   *)
LEMMA CommitRings ==
    ASSUME RingInv, NEW u \in User, Commit(u)
    PROVE  RingIsOwn'
<1> DEFINE w == Head(outbox[u])
<1>1. TypeOK /\ RingIsOwn /\ w \in Write /\ DeletionOK(w)
  BY CommitFacts, PendingTyped DEF RingInv, OutboxOK
<1>2. w.owner \in User
  BY <1>1 DEF Write
<1>3. /\ calling' = [calling EXCEPT ![w.owner] =
                         IF w.op = "delete" THEN @ \ {w.doc} ELSE @ \cup {w.doc}]
      /\ UNCHANGED <<invite, deed>>
  BY DEF Commit
<1> HIDE DEF w
<1>4. SUFFICES ASSUME NEW c \in CallId, NEW m \in Member(c) \ {Caller[c]},
                      invite[c][m] = "done", ~HasEnded(m)
               PROVE  \E d \in calling'[m] : d.kind = "ring" /\ d.call = c
  BY <1>3 DEF RingIsOwn, HasEnded
<1>5. PICK d \in calling[m] : d.kind = "ring" /\ d.call = c
  BY <1>1, <1>4 DEF RingIsOwn, HasEnded
<1>6. m \in User
  BY GroupCallAssumption DEF Member
<1>7. ~(w.op = "delete" /\ w.owner = m /\ w.doc = d)
  BY <1>1, <1>4, <1>5 DEF DeletionOK
<1>8. calling \in [User -> SUBSET Doc]
  BY <1>1 DEF TypeOK
<1>9. d \in calling'[m]
  BY <1>2, <1>3, <1>5, <1>6, <1>7, <1>8
<1> QED
  BY <1>5, <1>9

(* Setting one step of an endCall.                                         *)
LEMMA EndingKept ==
    ASSUME TypeOK, EndingOK, deed \subseteq deed', NEW u \in User, NEW c \in CallId,
           NEW e, ending' = [ending EXCEPT ![u][c] = e], e = "no" \/ <<u, c>> \in deed'
    PROVE  EndingOK'
BY DEF TypeOK, EndingOK

LEMMA UserStepRings ==
    ASSUME RingInv, NEW u \in User, UserStep(u)
    PROVE  OutboxOK' /\ EndingOK' /\ RingIsOwn'
<1>0. TypeOK /\ OutboxOK /\ EndingOK /\ RingIsOwn
  BY DEF RingInv
<1>1. CASE Join(u)
  <2>1. UNCHANGED <<calling, outbox, invite, ending, deed>>
    BY <1>1 DEF Join, callVars, endVars
  <2> QED
    BY <1>0, <2>1, RingsKept, OutboxKept DEF EndingOK, Pending
<1>2. CASE HangUp(u)
  <2>1. page[u] \in CallId
    BY <1>0, <1>2 DEF HangUp, TypeOK
  <2>2. UNCHANGED <<calling, outbox, invite>> /\ deed' = deed \cup {<<u, page[u]>>}
    BY <1>2 DEF HangUp, callVars
  <2>3. \/ ending' = [ending EXCEPT ![u][page[u]] = "list"]
        \/ ending' = [ending EXCEPT ![u][page[u]] = "caller"]
    BY <1>2 DEF HangUp
  <2>4. EndingOK'
    BY <1>0, <2>1, <2>2, <2>3, EndingKept
  <2> QED
    BY <1>0, <2>2, <2>4, RingsKept, OutboxKept DEF Pending
<1>3. CASE Commit(u)
  <2>1. UNCHANGED <<ending, deed>>
    BY <1>3 DEF Commit, endVars
  <2>2. OutboxOK'
    BY <1>0, <1>3, <2>1, CommitFacts, OutboxKept
  <2> QED
    BY <1>0, <1>3, <2>1, <2>2, CommitRings DEF EndingOK
<1>4. CASE Kill(u)
  <2>1. UNCHANGED <<calling, outbox, deed>>
    BY <1>4 DEF Kill, callVars
  <2>2. \A c \in CallId, m \in User : invite'[c][m] = "done" => invite[c][m] = "done"
    BY <1>4 DEF Kill
  <2>3. EndingOK'
    BY <1>0, <1>4, <2>1 DEF Kill, EndingOK, TypeOK
  <2> QED
    BY <1>0, <2>1, <2>2, <2>3, RingsKept, OutboxKept DEF Pending
<1>5. ASSUME NEW c \in CallId, Accept(u, c)
      PROVE  OutboxOK' /\ EndingOK' /\ RingIsOwn'
  <2>1. UNCHANGED <<calling, outbox, invite, ending, deed>>
    BY <1>5 DEF Accept, callVars, endVars
  <2> QED
    BY <1>0, <2>1, RingsKept, OutboxKept DEF EndingOK, Pending
<1>6. ASSUME NEW c \in CallId, Reject(u, c)
      PROVE  OutboxOK' /\ EndingOK' /\ RingIsOwn'
  <2>1. /\ UNCHANGED <<calling, outbox, invite>> /\ deed' = deed \cup {<<u, c>>}
        /\ ending' = [ending EXCEPT ![u][c] = "caller"]
    BY <1>6 DEF Reject, callVars
  <2>2. EndingOK'
    BY <1>0, <2>1, EndingKept
  <2> QED
    BY <1>0, <2>1, <2>2, RingsKept, OutboxKept DEF Pending
<1>7. ASSUME NEW c \in CallId, EndAtCallerOfList(u, c)
      PROVE  OutboxOK' /\ EndingOK' /\ RingIsOwn'
  <2>1. PICK deletion \in Deletions(u, PlacedBy(u, u, u)) :
            Issue(u, deletion \o BareDocs(c))
    BY <1>7 DEF EndAtCallerOfList
  <2>2. /\ UNCHANGED <<calling, invite, deed>>
        /\ ending' = [ending EXCEPT ![u][c] = "no"]
    BY <1>7 DEF EndAtCallerOfList
  <2>3. deletion \in Seq(Write) /\ \A i \in DOMAIN deletion : DeletionOK(deletion[i])'
    BY <1>0, PlacedMayGo
  <2>4. BareDocs(c) \in Seq(Write) /\ \A i \in DOMAIN BareDocs(c) : DeletionOK(BareDocs(c)[i])'
    BY BareTyped DEF DeletionOK
  <2> DEFINE writes == deletion \o BareDocs(c)
  <2>5. writes \in Seq(Write) /\ \A i \in DOMAIN writes : DeletionOK(writes[i])'
    <3> DEFINE bare == BareDocs(c)
    <3>1. bare \in Seq(Write)
      BY <2>4
    <3> HIDE DEF bare
    <3>2. /\ deletion \o bare \in Seq(Write)
          /\ \A i \in DOMAIN (deletion \o bare) :
                 \/ i \in DOMAIN deletion /\ (deletion \o bare)[i] = deletion[i]
                 \/ /\ i - Len(deletion) \in DOMAIN bare
                    /\ (deletion \o bare)[i] = bare[i - Len(deletion)]
      BY <2>3, <3>1
    <3> QED
      BY <2>3, <2>4, <3>2 DEF bare
  <2>6. OutboxOK'
    BY <1>0, <2>1, <2>2, <2>5, IssueKeeps
  <2>7. EndingOK'
    BY <1>0, <2>2, EndingKept
  <2> QED
    BY <1>0, <2>2, <2>6, <2>7, RingsKept
<1>8. ASSUME NEW c \in CallId, EndAtCaller(u, c)
      PROVE  OutboxOK' /\ EndingOK' /\ RingIsOwn'
  <2>0. Caller[c] \in User
    BY GroupCallAssumption
  <2>1. PICK deletion \in Deletions(Caller[c], PlacedBy(u, Caller[c], Caller[c])) :
            Issue(u, deletion)
    BY <1>8 DEF EndAtCaller
  <2>2. /\ UNCHANGED <<calling, invite, deed>>
        /\ ending' = [ending EXCEPT ![u][c] = "receiver"]
        /\ ending[u][c] = "caller"
    BY <1>8 DEF EndAtCaller, clientVars
  <2>3. OutboxOK'
    BY <1>0, <2>0, <2>1, <2>2, PlacedMayGo, IssueKeeps
  <2>4. <<u, c>> \in deed
    BY <1>0, <2>2 DEF EndingOK
  <2>5. EndingOK'
    BY <1>0, <2>2, <2>4, EndingKept
  <2> QED
    BY <1>0, <2>2, <2>3, <2>5, RingsKept
<1>9. ASSUME NEW c \in CallId, EndAtReceiver(u, c)
      PROVE  OutboxOK' /\ EndingOK' /\ RingIsOwn'
  <2>1. PICK deletion \in Deletions(u, ReceivedBy(u, u)) : Issue(u, deletion)
    BY <1>9 DEF EndAtReceiver, OwnReceiver
  <2>2. /\ UNCHANGED <<calling, invite, deed>>
        /\ ending' = [ending EXCEPT ![u][c] = "no"]
        /\ ending[u][c] = "receiver"
    BY <1>9 DEF EndAtReceiver
  <2>3. HasEnded(u)'
    BY <1>0, <2>2 DEF EndingOK, HasEnded
  <2>4. deletion \in Seq(Write) /\ \A i \in DOMAIN deletion : deletion[i].owner = u
    <3>1. ReceivedBy(u, u) \in SUBSET Doc
      BY <1>0, QueryTyped
    <3> QED
      BY <3>1, DeletionTyped DEF Deletion
  <2>5. \A i \in DOMAIN deletion : DeletionOK(deletion[i])'
    BY <2>3, <2>4 DEF DeletionOK
  <2>6. OutboxOK'
    BY <1>0, <2>1, <2>2, <2>4, <2>5, IssueKeeps
  <2>7. EndingOK'
    BY <1>0, <2>2, EndingKept
  <2> QED
    BY <1>0, <2>2, <2>6, <2>7, RingsKept
<1> QED
  BY <1>1, <1>2, <1>3, <1>4, <1>5, <1>6, <1>7, <1>8, <1>9 DEF UserStep

LEMMA StepRings == RingInv /\ [Next]_vars => RingInv'
<1> SUFFICES ASSUME RingInv, [Next]_vars
             PROVE  RingInv'
  OBVIOUS
<1>0. TypeOK'
  BY StepType DEF RingInv
<1>1. CASE UNCHANGED vars
  <2>1. UNCHANGED <<calling, outbox, invite, ending, deed>>
    BY <1>1 DEF vars, callVars, clientVars, endVars
  <2> QED
    BY <1>0, <2>1, RingsKept, OutboxKept DEF RingInv, EndingOK, Pending
<1>2. ASSUME NEW c \in CallId, CallStep(c)
      PROVE  RingInv'
  BY <1>0, <1>2, CallStepRings DEF RingInv
<1>3. ASSUME NEW u \in User, UserStep(u)
      PROVE  RingInv'
  BY <1>0, <1>3, UserStepRings DEF RingInv
<1> QED
  BY <1>1, <1>2, <1>3 DEF Next

(* A member other than the caller keeps ringing until it hangs up or       *)
(* rejects a call itself: no endCall of another member takes its ring.     *)
THEOREM GroupRingIsOwn == Spec => []RingIsOwn
<1>1. RingInv => RingIsOwn
  BY DEF RingInv
<1> QED
  BY <1>1, InitRings, StepRings, PTL DEF Spec
-----------------------------------------------------------------------------
(* The end of a member's own ring.                                         *)

(* A lookup that is done stays so, and a call is placed once.              *)
LEMMA InviteStays ==
    ASSUME TypeOK, [Next]_vars, NEW c \in CallId, NEW m \in User
    PROVE  /\ invite[c][m] = "done" => invite'[c][m] = "done"
           /\ invite[c][m] # "none" => invite'[c][m] # "none"
<1>0. invite \in [CallId -> [User -> InviteStep]]
  BY DEF TypeOK
<1>1. ASSUME NEW e \in CallId, CallStep(e)
      PROVE  /\ invite[c][m] = "done" => invite'[c][m] = "done"
             /\ invite[c][m] # "none" => invite'[c][m] # "none"
  <2>1. CASE Dial(e)
    BY <1>0, <2>1 DEF Dial, Placed
  <2>2. ASSUME NEW n \in User, Lookup(e, n)
        PROVE  /\ invite[c][m] = "done" => invite'[c][m] = "done"
               /\ invite[c][m] # "none" => invite'[c][m] # "none"
    BY <1>0, <2>2 DEF Lookup, FailureEnds
  <2>3. ASSUME NEW n \in User, AddCopy(e, n) \/ AddRing(e, n)
        PROVE  /\ invite[c][m] = "done" => invite'[c][m] = "done"
               /\ invite[c][m] # "none" => invite'[c][m] # "none"
    BY <1>0, <2>3 DEF AddCopy, AddRing
  <2>4. ASSUME NEW n \in User, Sweep(e, n)
        PROVE  invite' = invite
    BY <2>4 DEF Sweep
  <2> QED
    BY <1>1, <2>1, <2>2, <2>3, <2>4 DEF CallStep
<1>2. ASSUME NEW u \in User, UserStep(u)
      PROVE  invite' = invite \/ Kill(u)
  BY <1>2 DEF UserStep, Join, HangUp, Commit, Accept, Reject, EndAtCallerOfList, EndAtCaller,
              EndAtReceiver
<1>3. ASSUME NEW u \in User, Kill(u)
      PROVE  /\ invite[c][m] = "done" => invite'[c][m] = "done"
             /\ invite[c][m] # "none" => invite'[c][m] # "none"
  BY <1>3 DEF Kill
<1>4. CASE UNCHANGED vars
  BY <1>4 DEF vars
<1> QED
  BY <1>1, <1>2, <1>3, <1>4 DEF Next

(* What u's device shows at v is committed, but for bare documents.        *)
LEMMA ShownFacts ==
    ASSUME SetsOK, NEW u \in User, NEW v \in User, NEW d \in View(u, v), d.kind # "bare"
    PROVE  d \in calling[v] /\ Deletion(v, d) \notin Pending(u)
BY DEF View, SetsOK, Deletion

LEMMA RingingFacts ==
    ASSUME SetsOK, DocsOK, NEW u \in User, NEW c \in Ringing(u)
    PROVE  invite[c][u] = "done"
<1>1. PICK d \in View(u, u) : d.kind = "ring" /\ d.call = c
  BY DEF Ringing, First
<1>2. d \in calling[u]
  BY <1>1, ShownFacts
<1> QED
  BY <1>1, <1>2 DEF DocsOK

(* The one document an awaited add puts under calling.                     *)
LEMMA AddedFacts ==
    ASSUME TypeOK, NEW u \in User, NEW v \in User, NEW c \in CallId, NEW m \in User,
           NEW kind \in {"copy", "ring"}, Add(u, v, c, m, kind)
    PROVE  \E d \in Doc : /\ d.kind = kind /\ d.call = c /\ d.to = m
                          /\ calling'[v] = calling[v] \cup {d}
                          /\ \A w \in User \ {v} : calling'[w] = calling[w]
<1>1. PICK id \in DocId \ {d.id : d \in calling[v]} :
          calling' = [calling EXCEPT ![v] = @ \cup
                         {[id |-> id, call |-> c, to |-> m, kind |-> kind]}]
  BY DEF Add
<1> DEFINE new == [id |-> id, call |-> c, to |-> m, kind |-> kind]
<1>2. new \in Doc
  BY GroupCallAssumption DEF Doc
<1>3. new.kind = kind /\ new.call = c /\ new.to = m
  OBVIOUS
<1> HIDE DEF new
<1>4. calling \in [User -> SUBSET Doc] /\ calling' = [calling EXCEPT ![v] = @ \cup {new}]
  BY <1>1 DEF TypeOK, new
<1> QED
  BY <1>2, <1>3, <1>4

(* Only awaited adds put documents with the fields of a call there.        *)
LEMMA CallingSteps ==
    ASSUME TypeOK, SetsOK, [Next]_vars
    PROVE  \/ \E c \in CallId : \E m \in User : AddCopy(c, m) \/ AddRing(c, m)
           \/ \A u \in User : \A d \in calling'[u] : d \in calling[u] \/ d.kind = "bare"
<1>1. ASSUME NEW c \in CallId, CallStep(c)
      PROVE  calling' = calling \/ \E m \in User : AddCopy(c, m) \/ AddRing(c, m)
  BY <1>1 DEF CallStep, Dial, Lookup, Sweep, callVars
<1>2. ASSUME NEW u \in User, UserStep(u)
      PROVE  calling' = calling \/ Commit(u)
  BY <1>2 DEF UserStep, Join, HangUp, Kill, Accept, Reject, EndAtCallerOfList, EndAtCaller,
              EndAtReceiver, callVars
<1>3. ASSUME NEW u \in User, Commit(u)
      PROVE  \A v \in User : \A d \in calling'[v] : d \in calling[v] \/ d.kind = "bare"
  <2> DEFINE w == Head(outbox[u])
  <2>1. w \in Pending(u) /\ w \in Write
    BY <1>3, CommitFacts, PendingTyped
  <2>2. w.op \in {"delete", "set"} /\ (w.op = "set" => w.doc.kind = "bare")
    BY <2>1 DEF SetsOK, Write
  <2>3. calling' = [calling EXCEPT ![w.owner] =
                        IF w.op = "delete" THEN @ \ {w.doc} ELSE @ \cup {w.doc}]
    BY <1>3 DEF Commit
  <2>4. calling \in [User -> SUBSET Doc]
    BY DEF TypeOK
  <2> HIDE DEF w
  <2> QED
    BY <2>2, <2>3, <2>4
<1>4. CASE UNCHANGED vars
  BY <1>4 DEF vars, callVars
<1> QED
  BY <1>1, <1>2, <1>3, <1>4 DEF Next

LEMMA DocsPreserved ==
    ASSUME TypeOK, DocsOK, SetsOK, [Next]_vars
    PROVE  DocsOK'
<1>0. /\ calling \in [User -> SUBSET Doc]
      /\ invite \in [CallId -> [User -> InviteStep]]
      /\ \A u \in User : \A d \in calling[u] : d.call \in CallId /\ d.to \in User
  BY DEF TypeOK, Doc
<1>1. ASSUME NEW u \in User, NEW d \in calling[u]
      PROVE  /\ d.kind = "ring" => d.to = u /\ invite'[d.call][u] = "done"
             /\ d.kind = "copy" => Caller[d.call] = u /\ invite'[d.call][d.to] # "none"
  BY <1>0, InviteStays DEF DocsOK
<1>2. CASE \A u \in User : \A d \in calling'[u] : d \in calling[u] \/ d.kind = "bare"
  <2>1. ASSUME NEW u \in User, NEW d \in calling'[u], NEW e \in calling'[u],
               d.kind = "ring", e.kind = "ring", e.call = d.call
        PROVE  e = d
    BY <1>2, <2>1 DEF DocsOK
  <2> QED
    BY <1>1, <1>2, <2>1 DEF DocsOK
<1>3. ASSUME NEW c \in CallId, NEW m \in User, AddCopy(c, m)
      PROVE  DocsOK'
  <2> DEFINE u == Caller[c]
  <2>0. u \in User
    BY GroupCallAssumption
  <2>1. PICK new \in Doc : /\ new.kind = "copy" /\ new.call = c /\ new.to = m
                           /\ calling'[u] = calling[u] \cup {new}
                           /\ \A w \in User \ {u} : calling'[w] = calling[w]
    BY <1>3, <2>0, AddedFacts DEF AddCopy
  <2>2. invite'[c][m] # "none"
    BY <1>0, <1>3 DEF AddCopy
  <2>3. ASSUME NEW v \in User, NEW d \in calling'[v]
        PROVE  d \in calling[v] \/ (v = u /\ d = new)
    BY <2>1
  <2>4. ASSUME NEW v \in User, NEW d \in calling'[v], NEW e \in calling'[v],
               d.kind = "ring", e.kind = "ring", e.call = d.call
        PROVE  e = d
    BY <2>1, <2>3, <2>4 DEF DocsOK
  <2>5. ASSUME NEW v \in User, NEW d \in calling'[v]
        PROVE  /\ d.kind = "ring" => d.to = v /\ invite'[d.call][v] = "done"
               /\ d.kind = "copy" => Caller[d.call] = v /\ invite'[d.call][d.to] # "none"
    BY <1>1, <2>1, <2>2, <2>3
  <2> QED
    BY <2>4, <2>5 DEF DocsOK
<1>4. ASSUME NEW c \in CallId, NEW m \in User, AddRing(c, m)
      PROVE  DocsOK'
  <2>0. Caller[c] \in User
    BY GroupCallAssumption
  <2>1. PICK new \in Doc : /\ new.kind = "ring" /\ new.call = c /\ new.to = m
                           /\ calling'[m] = calling[m] \cup {new}
                           /\ \A w \in User \ {m} : calling'[w] = calling[w]
    BY <1>4, <2>0, AddedFacts DEF AddRing
  <2>2. invite'[c][m] = "done" /\ invite[c][m] # "done"
    BY <1>0, <1>4 DEF AddRing
  <2>3. ASSUME NEW v \in User, NEW d \in calling'[v]
        PROVE  d \in calling[v] \/ (v = m /\ d = new)
    BY <2>1
  <2>4. \A d \in calling[m] : d.kind = "ring" => d.call # c
    BY <2>2 DEF DocsOK
  <2>5. ASSUME NEW v \in User, NEW d \in calling'[v], NEW e \in calling'[v],
               d.kind = "ring", e.kind = "ring", e.call = d.call
        PROVE  e = d
    BY <2>1, <2>3, <2>4, <2>5 DEF DocsOK
  <2>6. ASSUME NEW v \in User, NEW d \in calling'[v]
        PROVE  /\ d.kind = "ring" => d.to = v /\ invite'[d.call][v] = "done"
               /\ d.kind = "copy" => Caller[d.call] = v /\ invite'[d.call][d.to] # "none"
    BY <1>1, <2>1, <2>2, <2>3
  <2> QED
    BY <2>5, <2>6 DEF DocsOK
<1> QED
  BY <1>2, <1>3, <1>4, CallingSteps

(* What a step issues: deletions and bare documents.                       *)
LEMMA IssuedFacts ==
    ASSUME TypeOK, [Next]_vars, NEW v \in User, NEW w \in Pending(v)'
    PROVE  w \in Pending(v) \/ w.op = "delete" \/ w.doc.kind = "bare"
<1>1. ASSUME NEW u \in User, NEW o \in User, NEW S \in SUBSET Doc,
             NEW s \in Deletions(o, S), Issue(u, s)
      PROVE  w \in Pending(v) \/ w.op = "delete"
  <2>1. s \in Seq(Write) /\ \A i \in DOMAIN s : s[i].op = "delete"
    BY <1>1, DeletionTyped DEF Deletion
  <2> QED
    BY <1>1, <2>1, IssueFacts
<1>2. ASSUME NEW c \in CallId, CallStep(c)
      PROVE  w \in Pending(v) \/ w.op = "delete"
  <2>0. Caller[c] \in User
    BY GroupCallAssumption
  <2>1. ASSUME NEW m \in User, Sweep(c, m)
        PROVE  w \in Pending(v) \/ w.op = "delete"
    <3>1. PICK s \in Deletions(m, PlacedBy(Caller[c], m, m)) : Issue(Caller[c], s)
      BY <2>1 DEF Sweep
    <3> QED
      BY <1>1, <2>0, <3>1, QueryTyped
  <2>2. outbox' = outbox \/ \E m \in User : Sweep(c, m)
    BY <1>2 DEF CallStep, Dial, Lookup, AddCopy, AddRing, callVars
  <2>3. outbox' = outbox => w \in Pending(v)
    BY DEF Pending
  <2> QED
    BY <2>1, <2>2, <2>3
<1>3. ASSUME NEW u \in User, UserStep(u)
      PROVE  w \in Pending(v) \/ w.op = "delete" \/ w.doc.kind = "bare"
  <2>1. CASE outbox' = outbox
    BY <2>1 DEF Pending
  <2>2. CASE Commit(u)
    BY <2>2, CommitFacts
  <2>3. ASSUME NEW c \in CallId, EndAtCaller(u, c)
        PROVE  w \in Pending(v) \/ w.op = "delete"
    <3>1. Caller[c] \in User
      BY GroupCallAssumption
    <3>2. PICK s \in Deletions(Caller[c], PlacedBy(u, Caller[c], Caller[c])) : Issue(u, s)
      BY <2>3 DEF EndAtCaller
    <3> QED
      BY <1>1, <3>1, <3>2, QueryTyped
  <2>4. ASSUME NEW c \in CallId, EndAtReceiver(u, c)
        PROVE  w \in Pending(v) \/ w.op = "delete"
    <3>1. PICK s \in Deletions(u, ReceivedBy(u, u)) : Issue(u, s)
      BY <2>4 DEF EndAtReceiver, OwnReceiver
    <3> QED
      BY <1>1, <3>1, QueryTyped
  <2>5. ASSUME NEW c \in CallId, EndAtCallerOfList(u, c)
        PROVE  w \in Pending(v) \/ w.op = "delete" \/ w.doc.kind = "bare"
    <3>1. PICK s \in Deletions(u, PlacedBy(u, u, u)) : Issue(u, s \o BareDocs(c))
      BY <2>5 DEF EndAtCallerOfList
    <3>2. s \in Seq(Write) /\ \A i \in DOMAIN s : s[i].op = "delete"
      BY DeletionTyped, QueryTyped DEF Deletion
    <3> DEFINE bare == BareDocs(c)
    <3>3. bare \in Seq(Write)
      BY BareTyped
    <3>4. \A i \in DOMAIN bare : bare[i].doc.kind = "bare"
      BY DEF BareDocs
    <3> HIDE DEF bare
    <3>5. /\ s \o bare \in Seq(Write)
          /\ \A i \in DOMAIN (s \o bare) :
                 \/ i \in DOMAIN s /\ (s \o bare)[i] = s[i]
                 \/ i - Len(s) \in DOMAIN bare /\ (s \o bare)[i] = bare[i - Len(s)]
      BY <3>2, <3>3
    <3>6. Issue(u, s \o bare)
      BY <3>1 DEF bare
    <3>7. w \in Pending(v) \/ \E i \in DOMAIN (s \o bare) : w = (s \o bare)[i]
      BY <3>5, <3>6, IssueFacts
    <3> QED
      BY <3>2, <3>4, <3>5, <3>7
  <2>6. \/ outbox' = outbox \/ Commit(u)
        \/ \E c \in CallId : EndAtCallerOfList(u, c) \/ EndAtCaller(u, c) \/ EndAtReceiver(u, c)
    BY <1>3 DEF UserStep, Join, HangUp, Kill, Accept, Reject, callVars
  <2> QED
    BY <2>1, <2>2, <2>3, <2>4, <2>5, <2>6
<1>4. CASE UNCHANGED vars
  BY <1>4 DEF vars, callVars, Pending
<1> QED
  BY <1>2, <1>3, <1>4 DEF Next

LEMMA SetsPreserved ==
    ASSUME TypeOK, SetsOK, [Next]_vars
    PROVE  SetsOK'
<1>1. ASSUME NEW u \in User, NEW w \in Pending(u)', w.op = "set"
      PROVE  w.doc.kind = "bare"
  BY <1>1, IssuedFacts DEF SetsOK
<1> QED
  BY <1>1 DEF SetsOK

(* What a step does to the pages, the lists and the endCalls.              *)
LEMMA PageSteps ==
    ASSUME TypeOK, [Next]_vars, NEW u \in User
    PROVE  \/ page'[u] = Home /\ u \notin listed'
           \/ page'[u] = page[u] /\ (u \in listed' => u \in listed)
           \/ \E c \in CallId : page'[u] = c /\ u = Caller[c]
           \/ \E c \in CallId : page'[u] = c /\ u \notin listed' /\ c \in Ringing(u)
<1> DEFINE Goal == \/ page'[u] = Home /\ u \notin listed'
                   \/ page'[u] = page[u] /\ (u \in listed' => u \in listed)
                   \/ \E c \in CallId : page'[u] = c /\ u = Caller[c]
                   \/ \E c \in CallId : page'[u] = c /\ u \notin listed' /\ c \in Ringing(u)
<1>0. page \in [User -> CallId \cup {Home}]
  BY DEF TypeOK
<1>1. ASSUME NEW c \in CallId, CallStep(c)
      PROVE  Goal
  <2>1. ASSUME NEW m \in User, AddRing(c, m)
        PROVE  Goal
    BY <1>0, <2>1 DEF AddRing
  <2>2. UNCHANGED <<page, listed>> \/ \E m \in User : AddRing(c, m)
    BY <1>1 DEF CallStep, Dial, Lookup, AddCopy, Sweep, clientVars
  <2> QED
    BY <2>1, <2>2
<1>2. ASSUME NEW v \in User, UserStep(v)
      PROVE  Goal
  <2>1. CASE UNCHANGED <<page, listed>>
    BY <2>1
  <2>2. CASE page' = [page EXCEPT ![v] = Home] /\ listed' = WithoutList(v)
    BY <1>0, <2>2 DEF WithoutList
  <2>3. ASSUME NEW c \in CallId, Accept(v, c)
        PROVE  Goal
    BY <1>0, <2>3 DEF Accept, WithoutList
  <2>4. \/ UNCHANGED <<page, listed>>
        \/ page' = [page EXCEPT ![v] = Home] /\ listed' = WithoutList(v)
        \/ \E c \in CallId : Accept(v, c)
    BY <1>2 DEF UserStep, Join, HangUp, Commit, Kill, Reject, EndAtCallerOfList, EndAtCaller,
                EndAtReceiver, clientVars
  <2> QED
    BY <2>1, <2>2, <2>3, <2>4
<1>3. CASE UNCHANGED vars
  BY <1>3 DEF vars, clientVars
<1> QED
  BY <1>1, <1>2, <1>3 DEF Next

LEMMA EndingSteps ==
    ASSUME TypeOK, [Next]_vars, NEW u \in User, NEW c \in CallId
    PROVE  /\ <<u, c>> \in deed => <<u, c>> \in deed'
           /\ \/ <<u, c>> \in deed' => <<u, c>> \in deed
              \/ /\ c \in Ringing(u) \/ page[u] = c
                 /\ ending'[u][c] # "no"
           /\ \/ ending'[u][c] = ending[u][c]
              \/ ending'[u][c] = "list" /\ page[u] = c /\ u \in listed
              \/ ending'[u][c] \in {"caller", "receiver"}
              \/ ending[u][c] = "list" \/ Kill(u) \/ EndAtReceiver(u, c)
<1> DEFINE Deed == /\ <<u, c>> \in deed => <<u, c>> \in deed'
                   /\ \/ <<u, c>> \in deed' => <<u, c>> \in deed
                      \/ /\ c \in Ringing(u) \/ page[u] = c
                         /\ ending'[u][c] # "no"
           Ending == \/ ending'[u][c] = ending[u][c]
                     \/ ending'[u][c] = "list" /\ page[u] = c /\ u \in listed
                     \/ ending'[u][c] \in {"caller", "receiver"}
                     \/ ending[u][c] = "list" \/ Kill(u) \/ EndAtReceiver(u, c)
<1>0. ending \in [User -> [CallId -> EndStep]]
  BY DEF TypeOK
<1>1. CASE UNCHANGED <<ending, deed>>
  BY <1>1
<1>2. ASSUME NEW v \in User, UserStep(v)
      PROVE  Deed /\ Ending
  <2>1. CASE Join(v) \/ Commit(v) \/ \E e \in CallId : Accept(v, e)
    <3>1. UNCHANGED <<ending, deed>>
      BY <2>1 DEF Join, Commit, Accept, endVars
    <3> QED
      BY <1>1, <3>1
  <2>2. CASE HangUp(v)
    <3> DEFINE e == page[v]
    <3>1. e \in CallId
      BY <2>2 DEF HangUp, TypeOK
    <3>2. /\ deed' = deed \cup {<<v, e>>}
          /\ \/ v \in listed /\ ending' = [ending EXCEPT ![v][e] = "list"]
             \/ ending' = [ending EXCEPT ![v][e] = "caller"]
      BY <2>2 DEF HangUp
    <3> HIDE DEF e
    <3>3. CASE u = v /\ c = e
      BY <1>0, <3>1, <3>2, <3>3 DEF e
    <3>4. CASE ~(u = v /\ c = e)
      BY <1>0, <3>1, <3>2, <3>4
    <3> QED
      BY <3>3, <3>4
  <2>3. CASE Kill(v)
    BY <1>0, <2>3 DEF Kill
  <2>4. ASSUME NEW e \in CallId, Reject(v, e)
        PROVE  Deed /\ Ending
    <3>1. /\ deed' = deed \cup {<<v, e>>} /\ e \in Ringing(v)
          /\ ending' = [ending EXCEPT ![v][e] = "caller"]
      BY <2>4 DEF Reject
    <3>2. CASE u = v /\ c = e
      BY <1>0, <3>1, <3>2
    <3>3. CASE ~(u = v /\ c = e)
      BY <1>0, <3>1, <3>3
    <3> QED
      BY <3>2, <3>3
  <2>5. ASSUME NEW e \in CallId, EndAtCallerOfList(v, e) \/ EndAtCaller(v, e) \/ EndAtReceiver(v, e)
        PROVE  Deed /\ Ending
    BY <1>0, <2>5 DEF EndAtCallerOfList, EndAtCaller, EndAtReceiver
  <2> QED
    BY <1>2, <2>1, <2>2, <2>3, <2>4, <2>5 DEF UserStep
<1>3. ASSUME NEW e \in CallId, CallStep(e)
      PROVE  UNCHANGED <<ending, deed>>
  BY <1>3 DEF CallStep, Dial, Lookup, AddCopy, AddRing, Sweep, endVars
<1>4. CASE UNCHANGED vars
  BY <1>4 DEF vars, endVars
<1> QED
  BY <1>1, <1>2, <1>3, <1>4 DEF Next

LEMMA ListPreserved ==
    ASSUME TypeOK, ListOK, [Next]_vars
    PROVE  ListOK'
<1>0. Home \notin CallId /\ listed' \subseteq {u \in User : page'[u] # Home}
  BY GroupCallAssumption, StepType DEF TypeOK
<1>1. ASSUME NEW u \in User, u \in listed'
      PROVE  Caller[page'[u]] = u
  BY <1>0, <1>1, PageSteps DEF ListOK
<1>2. ASSUME NEW u \in User, NEW c \in CallId, ending'[u][c] = "list"
      PROVE  Caller[c] = u
  <2>1. CASE Kill(u) \/ EndAtReceiver(u, c)
    BY <1>2, <2>1 DEF Kill, EndAtReceiver, TypeOK
  <2>2. CASE ~(Kill(u) \/ EndAtReceiver(u, c))
    BY <1>2, <2>2, EndingSteps DEF ListOK
  <2> QED
    BY <2>1, <2>2
<1> QED
  BY <1>1, <1>2 DEF ListOK

LEMMA RungPreserved ==
    ASSUME TypeOK, DocsOK, SetsOK, RungOK, [Next]_vars
    PROVE  RungOK'
<1>0. Home \notin CallId
  BY GroupCallAssumption
<1>1. ASSUME NEW u \in User, NEW c \in CallId, u # Caller[c],
             page'[u] = c \/ <<u, c>> \in deed'
      PROVE  invite[c][u] = "done"
  <2>1. CASE page'[u] = c
    BY <1>0, <1>1, <2>1, PageSteps, RingingFacts DEF RungOK
  <2>2. CASE <<u, c>> \in deed'
    BY <1>1, <2>2, EndingSteps, RingingFacts DEF RungOK
  <2> QED
    BY <1>1, <2>1, <2>2
<1>2. ASSUME NEW u \in User, NEW c \in CallId, u # Caller[c],
             page'[u] = c \/ <<u, c>> \in deed'
      PROVE  invite'[c][u] = "done"
  BY <1>1, <1>2, InviteStays
<1> QED
  BY <1>2 DEF RungOK

(* A deletion leaves the outbox by deleting its document.                  *)
LEMMA DeletionsStay ==
    ASSUME TypeOK, [Next]_vars, NEW u \in User, NEW v \in User, NEW d \in Doc,
           Deletion(v, d) \in Pending(u)
    PROVE  Deletion(v, d) \in Pending(u)' \/ d \notin calling'[v]
<1>0. outbox \in [User -> Seq(Write)]
  BY DEF TypeOK
<1>1. ASSUME NEW x \in User, NEW s \in Seq(Write), Issue(x, s)
      PROVE  Deletion(v, d) \in Pending(u)'
  <2> DEFINE b == outbox[x]
  <2>1. b \in Seq(Write)
    BY <1>0
  <2>2. outbox' = [outbox EXCEPT ![x] = b \o s]
    BY <1>1 DEF Issue
  <2>3. PICK i \in DOMAIN outbox[u] : Deletion(v, d) = outbox[u][i]
    BY DEF Pending
  <2>4. \A j \in DOMAIN b : j \in DOMAIN (b \o s) /\ (b \o s)[j] = b[j]
    <3> HIDE DEF b
    <3> QED
      BY <2>1, <1>1
  <2>5. CASE u = x
    <3>1. outbox'[u] = b \o s
      BY <1>0, <2>2, <2>5
    <3> QED
      BY <2>3, <2>4, <2>5, <3>1 DEF Pending
  <2>6. CASE u # x
    <3>1. outbox'[u] = outbox[u]
      BY <1>0, <2>2, <2>6
    <3> QED
      BY <3>1 DEF Pending
  <2> QED
    BY <2>5, <2>6
<1>2. ASSUME NEW x \in User, Commit(x)
      PROVE  Deletion(v, d) \in Pending(u)' \/ d \notin calling'[v]
  <2> DEFINE b == outbox[x]
             w == Head(b)
  <2>1. b \in Seq(Write) /\ b # <<>>
    BY <1>0, <1>2 DEF Commit
  <2>2. /\ outbox' = [outbox EXCEPT ![x] = Tail(b)]
        /\ calling' = [calling EXCEPT ![w.owner] =
                           IF w.op = "delete" THEN @ \ {w.doc} ELSE @ \cup {w.doc}]
    BY <1>2 DEF Commit
  <2>3. PICK i \in DOMAIN outbox[u] : Deletion(v, d) = outbox[u][i]
    BY DEF Pending
  <2>4. \A j \in DOMAIN b : b[j] = Head(b) \/ (j - 1 \in DOMAIN Tail(b) /\ Tail(b)[j - 1] = b[j])
    <3> HIDE DEF b
    <3> QED
      BY <2>1
  <2>5. CASE u # x
    <3>1. outbox'[u] = outbox[u]
      BY <1>0, <2>2, <2>5
    <3> QED
      BY <3>1 DEF Pending
  <2>6. CASE u = x /\ Deletion(v, d) # w
    <3>1. outbox'[u] = Tail(b)
      BY <1>0, <2>2, <2>6
    <3>2. i - 1 \in DOMAIN Tail(b) /\ Tail(b)[i - 1] = Deletion(v, d)
      BY <2>3, <2>4, <2>6
    <3> QED
      BY <3>1, <3>2 DEF Pending
  <2>7. CASE Deletion(v, d) = w
    <3>1. w.op = "delete" /\ w.owner = v /\ w.doc = d
      BY <2>7 DEF Deletion
    <3> HIDE DEF w
    <3>2. calling'[v] = calling[v] \ {d}
      BY <2>2, <3>1 DEF TypeOK
    <3> QED
      BY <3>2
  <2> QED
    BY <2>5, <2>6, <2>7
<1>3. ASSUME NEW c \in CallId, CallStep(c)
      PROVE  Deletion(v, d) \in Pending(u)'
  <2>0. Caller[c] \in User
    BY GroupCallAssumption
  <2>1. outbox' = outbox \/ \E m \in User : Sweep(c, m)
    BY <1>3 DEF CallStep, Dial, Lookup, AddCopy, AddRing, callVars
  <2>2. ASSUME NEW m \in User, Sweep(c, m)
        PROVE  Deletion(v, d) \in Pending(u)'
    BY <1>1, <2>0, <2>2, QueryTyped, DeletionTyped DEF Sweep
  <2>3. outbox' = outbox => Deletion(v, d) \in Pending(u)'
    BY DEF Pending
  <2> QED
    BY <2>1, <2>2, <2>3
<1>4. ASSUME NEW x \in User, UserStep(x)
      PROVE  Deletion(v, d) \in Pending(u)' \/ d \notin calling'[v]
  <2>1. \/ outbox' = outbox \/ Commit(x)
        \/ \E c \in CallId : EndAtCallerOfList(x, c) \/ EndAtCaller(x, c) \/ EndAtReceiver(x, c)
    BY <1>4 DEF UserStep, Join, HangUp, Kill, Accept, Reject, callVars
  <2>2. outbox' = outbox => Deletion(v, d) \in Pending(u)'
    BY DEF Pending
  <2>3. ASSUME NEW c \in CallId, EndAtCaller(x, c) \/ EndAtReceiver(x, c)
        PROVE  Deletion(v, d) \in Pending(u)'
    <3>0. Caller[c] \in User
      BY GroupCallAssumption
    <3>1. \E o \in User : \E S \in SUBSET Doc : \E s \in Deletions(o, S) : Issue(x, s)
      <4>1. PlacedBy(x, Caller[c], Caller[c]) \in SUBSET Doc /\ ReceivedBy(x, x) \in SUBSET Doc
        BY <3>0, QueryTyped
      <4> QED
        BY <2>3, <3>0, <4>1 DEF EndAtCaller, EndAtReceiver, OwnReceiver
    <3> QED
      BY <1>1, <3>1, DeletionTyped
  <2>4. ASSUME NEW c \in CallId, EndAtCallerOfList(x, c)
        PROVE  Deletion(v, d) \in Pending(u)'
    <3>1. PICK s \in Deletions(x, PlacedBy(x, x, x)) : Issue(x, s \o BareDocs(c))
      BY <2>4 DEF EndAtCallerOfList
    <3>2. s \o BareDocs(c) \in Seq(Write)
      BY QueryTyped, DeletionTyped, BareTyped
    <3> QED
      BY <1>1, <3>1, <3>2
  <2> QED
    BY <1>2, <2>1, <2>2, <2>3, <2>4
<1>5. CASE UNCHANGED vars
  BY <1>5 DEF vars, callVars, Pending
<1> QED
  BY <1>3, <1>4, <1>5 DEF Next

(* While no other call is placed to it, a member's last query finds the    *)
(* ring and nothing else, and deletes it.                                  *)
LEMMA LastQuery ==
    ASSUME TypeOK, DocsOK, SetsOK, NEW c \in CallId, NEW m \in Member(c) \ {Caller[c]},
           \A e \in CallId \ {c} : invite[e][m] = "none",
           EndAtReceiver(m, c),
           NEW d \in calling[m], d.kind = "ring", d.call = c
    PROVE  Deletion(m, d) \in Pending(m)'
<1>0. m \in User /\ calling[m] \subseteq Doc /\ outbox \in [User -> Seq(Write)]
  BY GroupCallAssumption DEF Member, TypeOK
<1>1. ASSUME NEW e \in View(m, m), e.kind # "bare", e.to = m
      PROVE  e = d
  <2>1. e \in calling[m] /\ e \in Doc
    BY <1>0, <1>1, ShownFacts
  <2>2. e.kind \in {"copy", "ring"} /\ e.call \in CallId
    BY <1>1, <2>1 DEF Doc
  <2>3. invite[e.call][m] # "none"
    BY <1>0, <1>1, <2>1, <2>2 DEF DocsOK
  <2>4. e.call = c
    BY <2>2, <2>3
  <2>5. e.kind = "ring"
    BY <1>0, <2>1, <2>2, <2>4 DEF DocsOK
  <2> QED
    BY <1>0, <2>1, <2>4, <2>5 DEF DocsOK
<1>2. d.to = m
  BY <1>0 DEF DocsOK
<1>3. PICK s \in Deletions(m, ReceivedBy(m, m)) : Issue(m, s)
  BY DEF EndAtReceiver, OwnReceiver
<1> DEFINE b == outbox[m]
<1>4. b \in Seq(Write)
  BY <1>0
<1>5. s \in Seq(Write)
  BY <1>0, QueryTyped, DeletionTyped
<1>6. outbox' = [outbox EXCEPT ![m] = b \o s]
  BY <1>3 DEF Issue
<1>7. outbox'[m] = b \o s
  BY <1>0, <1>6
<1>8. /\ \A i \in DOMAIN b : i \in DOMAIN (b \o s) /\ (b \o s)[i] = b[i]
      /\ \A i \in DOMAIN s : Len(b) + i \in DOMAIN (b \o s) /\ (b \o s)[Len(b) + i] = s[i]
  <2> HIDE DEF b
  <2> QED
    BY <1>4, <1>5
<1>9. CASE d \in View(m, m)
  <2>1. ReceivedBy(m, m) = {d}
    BY <1>1, <1>2, <1>9 DEF ReceivedBy
  <2>2. First({d}) = {d}
    <3>1. d.id \in Nat
      BY <1>0 DEF Doc
    <3> QED
      BY <3>1 DEF First
  <2>3. s = <<Deletion(m, d)>>
    BY <2>1, <2>2 DEF Deletions
  <2>4. 1 \in DOMAIN s /\ s[1] = Deletion(m, d)
    BY <2>3
  <2> QED
    BY <1>7, <1>8, <2>4 DEF Pending
<1>10. CASE d \notin View(m, m)
  <2>1. Deletion(m, d) \in Pending(m)
    BY <1>10 DEF View, Deletion
  <2> QED
    BY <1>7, <1>8, <2>1 DEF Pending
<1> QED
  BY <1>9, <1>10

LEMMA OwnRingPreserved ==
    ASSUME OwnInv, [Next]_vars, SetsOK'
    PROVE  OwnRingEnds'
<1>0. TypeOK /\ DocsOK /\ SetsOK /\ ListOK /\ RungOK /\ OwnRingEnds
  BY DEF OwnInv
<1> SUFFICES ASSUME NEW c \in CallId, NEW m \in Member(c) \ {Caller[c]},
                    <<m, c>> \in deed', ending'[m][c] = "no", m \notin killed',
                    \A e \in CallId \ {c} : invite'[e][m] = "none",
                    NEW d \in View(m, m)', d.kind = "ring", d.call = c
             PROVE  FALSE
  BY DEF OwnRingEnds, Member
<1>1. m \in User /\ m # Caller[c]
  BY GroupCallAssumption DEF Member
<1>2. \A e \in CallId \ {c} : invite[e][m] = "none"
  BY <1>0, <1>1, InviteStays
<1>3. d \in calling'[m] /\ Deletion(m, d) \notin Pending(m)'
  BY <1>1 DEF View, SetsOK, Deletion
<1>4. <<m, c>> \in deed
  BY <1>0, <1>1, EndingSteps
<1>5. invite[c][m] = "done"
  BY <1>0, <1>1, <1>4 DEF RungOK
<1>6. d \in calling[m]
  <2>1. ASSUME NEW e \in CallId, NEW n \in User, AddCopy(e, n)
        PROVE  d \in calling[m]
    <3>1. Caller[e] \in User
      BY GroupCallAssumption
    <3>2. PICK new \in Doc : /\ new.kind = "copy"
                             /\ calling'[Caller[e]] = calling[Caller[e]] \cup {new}
                             /\ \A w \in User \ {Caller[e]} : calling'[w] = calling[w]
      BY <1>0, <2>1, <3>1, AddedFacts DEF AddCopy
    <3> QED
      BY <1>1, <1>3, <3>2
  <2>2. ASSUME NEW e \in CallId, NEW n \in User, AddRing(e, n)
        PROVE  d \in calling[m]
    <3>1. Caller[e] \in User
      BY GroupCallAssumption
    <3>2. PICK new \in Doc : /\ new.kind = "ring" /\ new.call = e
                             /\ calling'[n] = calling[n] \cup {new}
                             /\ \A w \in User \ {n} : calling'[w] = calling[w]
      BY <1>0, <2>2, <3>1, AddedFacts DEF AddRing
    <3>3. ~(e = c /\ n = m)
      BY <1>5, <2>2 DEF AddRing
    <3> QED
      BY <1>1, <1>3, <3>2, <3>3
  <2> QED
    BY <1>0, <1>1, <1>3, <2>1, <2>2, CallingSteps
<1>7. d \in Doc
  BY <1>0, <1>1, <1>6 DEF TypeOK
<1>8. Deletion(m, d) \notin Pending(m)
  BY <1>0, <1>1, <1>3, <1>7, DeletionsStay
<1>9. d \in View(m, m)
  BY <1>6, <1>8 DEF View, Deletion
<1>10. m \notin killed /\ ~Kill(m)
  <2>1. killed \subseteq killed'
    BY DEF Next, CallStep, Dial, Lookup, AddCopy, AddRing, Sweep, UserStep, Join, HangUp,
           Commit, Kill, Accept, Reject, EndAtCallerOfList, EndAtCaller, EndAtReceiver, vars
  <2>2. Kill(m) => m \in killed'
    BY DEF Kill
  <2> QED
    BY <2>1, <2>2
<1>11. ending[m][c] # "no"
  BY <1>0, <1>1, <1>2, <1>4, <1>9, <1>10 DEF OwnRingEnds
<1>12. ending[m][c] # "list"
  BY <1>0, <1>1 DEF ListOK
<1>13. EndAtReceiver(m, c)
  BY <1>0, <1>1, <1>10, <1>11, <1>12, EndingSteps
<1> QED
  BY <1>0, <1>2, <1>3, <1>6, <1>13, LastQuery

LEMMA InitOwn == Init => OwnInv
<1> SUFFICES ASSUME Init
             PROVE  OwnInv
  OBVIOUS
<1>1. DocsOK /\ SetsOK
  BY DEF Init, DocsOK, SetsOK, Pending
<1>2. ListOK /\ RungOK
  BY GroupCallAssumption DEF Init, ListOK, RungOK
<1>3. OwnRingEnds
  BY DEF Init, OwnRingEnds
<1> QED
  BY <1>1, <1>2, <1>3, InitType DEF OwnInv

LEMMA StepOwn == OwnInv /\ [Next]_vars => OwnInv'
<1> SUFFICES ASSUME OwnInv, [Next]_vars
             PROVE  OwnInv'
  OBVIOUS
<1>1. TypeOK /\ DocsOK /\ SetsOK /\ ListOK /\ RungOK
  BY DEF OwnInv
<1>2. TypeOK' /\ DocsOK' /\ SetsOK' /\ ListOK' /\ RungOK'
  BY <1>1, StepType, DocsPreserved, SetsPreserved, ListPreserved, RungPreserved
<1> QED
  BY <1>2, OwnRingPreserved DEF OwnInv

(* A member's own endCall takes the ring of the call with it, however the  *)
(* caller's lookups, adds and endCall run beside it: its last query finds  *)
(* the ring and nothing else, and nobody rings the member for a call again. *)
THEOREM OwnRingIsEnded == Spec => []OwnRingEnds
<1>1. OwnInv => OwnRingEnds
  BY DEF OwnInv
<1> QED
  BY <1>1, InitOwn, StepOwn, PTL DEF Spec
=============================================================================
