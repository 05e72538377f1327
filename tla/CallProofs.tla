----------------------------- MODULE CallProofs -----------------------------
(***************************************************************************)
(* Theorems about CallSignalling: its type correctness, the inductive      *)
(* invariant CallInv, and the safety properties that follow from it, for   *)
(* any number of users and calls.                                          *)
(***************************************************************************)
EXTENDS CallInvariant, SequenceTheorems, TLAPS

-----------------------------------------------------------------------------
(* Writes and the outbox.                                                  *)

\* A report is two status writes of the call, whichever handler issues it.
LEMMA ReportIsWrites ==
    ASSUME NEW c \in CallId, NEW s \in Status, NEW r \in Status,
           NEW t \in {"keep", "null", "now"}
    PROVE  /\ Report(c, s, r, t) \in Seq(Write)
           /\ Len(Report(c, s, r, t)) = 2
           /\ Report(c, s, r, t)[1] = SetStatus(Caller[c], c, s, t)
           /\ Report(c, s, r, t)[2] = SetStatus(Receiver[c], c, r, t)
<1>1. Caller[c] \in User /\ Receiver[c] \in User
  BY CallAssumption
<1>2. /\ SetStatus(Caller[c], c, s, t) \in Write
      /\ SetStatus(Receiver[c], c, r, t) \in Write
  BY <1>1 DEF SetStatus, Write, StatusWrite
<1>. QED
  BY <1>2 DEF Report

\* endCall issues at most one deletion, of a document its query returned.
LEMMA DeletionsAreWrites ==
    ASSUME NEW v \in User, NEW S \in SUBSET Doc, NEW w \in Deletions(v, S)
    PROVE  /\ w \in Seq(Write)
           /\ Len(w) <= 1
           /\ \A i \in 1..Len(w) : \E d \in S :
                  w[i] = [kind |-> "delete", owner |-> v, doc |-> d]
<1>1. CASE S = {}
  <2>1. w = <<>>
    BY <1>1 DEF Deletions
  <2>. QED
    BY <2>1
<1>2. CASE S # {}
  <2>1. PICK d \in First(S) :
            w = <<[kind |-> "delete", owner |-> v, doc |-> d]>>
    BY <1>2 DEF Deletions
  <2>2. d \in S
    BY DEF First
  <2>3. [kind |-> "delete", owner |-> v, doc |-> d] \in Write
    BY <2>2 DEF Write, DeleteWrite
  <2>. QED
    BY <2>1, <2>2, <2>3
<1>. QED
  BY <1>1, <1>2

\* Issuing writes keeps the outboxes sequences of writes.
LEMMA IssueType ==
    ASSUME outbox \in [User -> Seq(Write)], NEW u \in User,
           NEW writes \in Seq(Write), Issue(u, writes)
    PROVE  outbox' \in [User -> Seq(Write)]
<1>1. outbox[u] \o writes \in Seq(Write)
  BY ConcatProperties
<1>. QED
  BY <1>1 DEF Issue

-----------------------------------------------------------------------------
(* Type correctness.                                                       *)

LEMMA InitType == Init => TypeOK
  BY CallAssumption
  DEF Init, TypeOK, Entry, Status, DialStep, NotDialling, Phase, EndStep, Deed

LEMMA DialType ==
    ASSUME TypeOK, NEW u \in User, NEW c \in CallId, Dial(u, c)
    PROVE  TypeOK'
  BY DEF Dial, TypeOK, DialStep

LEMMA AddDocType ==
    ASSUME calling \in [User -> SUBSET Doc], NEW v \in User,
           NEW c \in CallId, AddDoc(v, c)
    PROVE  calling' \in [User -> SUBSET Doc]
  BY DEF AddDoc, Doc

LEMMA AddCallerDocType ==
    ASSUME TypeOK, NEW u \in User, AddCallerDoc(u)
    PROVE  TypeOK'
<1>1. dial[u] \in DialStep
  BY DEF AddCallerDoc, TypeOK, NotDialling
<1>2. calling' \in [User -> SUBSET Doc]
  BY <1>1, AddDocType DEF AddCallerDoc, TypeOK, DialStep
<1>3. dial' \in [User -> DialStep \cup {NotDialling}]
  BY <1>1 DEF AddCallerDoc, TypeOK, DialStep
<1>. QED
  BY <1>2, <1>3 DEF AddCallerDoc, TypeOK

LEMMA AddReceiverDocType ==
    ASSUME TypeOK, NEW u \in User, AddReceiverDoc(u)
    PROVE  TypeOK'
<1>1. dial[u] \in DialStep
  BY DEF AddReceiverDoc, TypeOK, NotDialling
<1>2. dial[u].call \in CallId /\ Receiver[dial[u].call] \in User
  BY <1>1, CallAssumption DEF DialStep
<1>3. calling' \in [User -> SUBSET Doc]
  BY <1>2, AddDocType DEF AddReceiverDoc, TypeOK
<1>. QED
  BY <1>2, <1>3 DEF AddReceiverDoc, TypeOK, Phase

LEMMA AcceptType ==
    ASSUME TypeOK, NEW u \in User, NEW c \in CallId, Accept(u, c)
    PROVE  TypeOK'
  BY DEF Accept, TypeOK, Phase, Deed

LEMMA RejectType ==
    ASSUME TypeOK, NEW u \in User, NEW c \in CallId, Reject(u, c)
    PROVE  TypeOK'
  BY DEF Reject, TypeOK, EndStep, Deed

LEMMA CreateEngineType ==
    ASSUME TypeOK, NEW u \in User, NEW c \in CallId, CreateEngine(u, c)
    PROVE  TypeOK'
  BY DEF CreateEngine, TypeOK, Phase

LEMMA JoinChannelType ==
    ASSUME TypeOK, NEW u \in User, NEW c \in CallId, JoinChannel(u, c)
    PROVE  TypeOK'
<1>1. Report(c, "calling", "missedCall", "null") \in Seq(Write)
  BY ReportIsWrites DEF Status
<1>2. outbox' \in [User -> Seq(Write)]
  BY <1>1, IssueType DEF JoinChannel, TypeOK
<1>. QED
  BY <1>2 DEF JoinChannel, TypeOK, Phase

LEMMA UserJoinedType ==
    ASSUME TypeOK, NEW u \in User, NEW c \in CallId, NEW v \in User,
           UserJoined(u, c, v)
    PROVE  TypeOK'
<1>1. Report(c, "pickedUp", "pickedUp", "now") \in Seq(Write)
  BY ReportIsWrites DEF Status
<1>2. outbox' \in [User -> Seq(Write)]
  BY <1>1, IssueType DEF UserJoined, TypeOK
<1>3. peers' \in [User -> [CallId -> SUBSET User]]
  BY DEF UserJoined, TypeOK
<1>4. deed' \subseteq Deed
  BY DEF UserJoined, TypeOK, Deed
<1>. QED
  BY <1>2, <1>3, <1>4 DEF UserJoined, TypeOK

LEMMA UserOfflineType ==
    ASSUME TypeOK, NEW u \in User, NEW c \in CallId, NEW v \in User,
           UserOffline(u, c, v)
    PROVE  TypeOK'
<1>1. Report(c, "ended", "ended", "keep") \in Seq(Write)
  BY ReportIsWrites DEF Status
<1>2. outbox' \in [User -> Seq(Write)]
  BY <1>1, IssueType DEF UserOffline, TypeOK
<1>3. peers' \in [User -> [CallId -> SUBSET User]]
  BY DEF UserOffline, TypeOK
<1>. QED
  BY <1>2, <1>3 DEF UserOffline, TypeOK

LEMMA LeaveType ==
    ASSUME session \in [User -> [CallId -> Phase]],
           peers \in [User -> [CallId -> SUBSET User]],
           NEW u \in User, NEW c \in CallId, Leave(u, c)
    PROVE  /\ session' \in [User -> [CallId -> Phase]]
           /\ peers' \in [User -> [CallId -> SUBSET User]]
  BY DEF Leave, Phase

LEMMA LeaveChannelType ==
    ASSUME TypeOK, NEW u \in User, NEW c \in CallId, LeaveChannel(u, c)
    PROVE  TypeOK'
<1>1. Report(c, "ended", "ended", "keep") \in Seq(Write)
  BY ReportIsWrites DEF Status
<1>2. outbox' \in [User -> Seq(Write)]
  BY <1>1, IssueType DEF LeaveChannel, TypeOK
<1>. QED
  BY <1>2 DEF LeaveChannel, TypeOK, Phase

LEMMA ReleaseEngineType ==
    ASSUME TypeOK, NEW u \in User, NEW c \in CallId, ReleaseEngine(u, c)
    PROVE  TypeOK'
  BY DEF ReleaseEngine, TypeOK, Phase

LEMMA HangUpType ==
    ASSUME TypeOK, NEW u \in User, NEW c \in CallId, HangUp(u, c)
    PROVE  TypeOK'
<1>1. /\ session' \in [User -> [CallId -> Phase]]
      /\ peers' \in [User -> [CallId -> SUBSET User]]
  BY LeaveType DEF HangUp, TypeOK
<1>2. quiet' \subseteq User \X CallId
  BY DEF HangUp, TypeOK
<1>3. ending' \in [User -> [CallId -> EndStep]]
  BY DEF HangUp, TypeOK, EndStep
<1>4. deed' \subseteq Deed
  BY DEF HangUp, TypeOK, Deed
<1>. QED
  BY <1>1, <1>2, <1>3, <1>4 DEF HangUp, TypeOK

LEMMA EndCallAtCallerType ==
    ASSUME TypeOK, NEW u \in User, NEW c \in CallId, EndCallAtCaller(u, c)
    PROVE  TypeOK'
<1>1. Caller[c] \in User
  BY CallAssumption
<1>. DEFINE found == DialledBy(u, c)
<1>2. found \in SUBSET Doc
  BY <1>1 DEF DialledBy, View, TypeOK
<1>3. PICK deletion \in Deletions(Caller[c], found) : Issue(u, deletion)
  BY DEF EndCallAtCaller
<1>4. outbox' \in [User -> Seq(Write)]
  <2>. HIDE DEF found
  <2>1. deletion \in Seq(Write)
    BY <1>1, <1>2, <1>3, DeletionsAreWrites
  <2>. QED
    BY <1>3, <2>1, IssueType DEF TypeOK
<1>. QED
  BY <1>4 DEF EndCallAtCaller, TypeOK, EndStep

LEMMA FinishType ==
    ASSUME TypeOK, NEW u \in User, NEW c \in CallId,
           NEW deletion \in Seq(Write), Finish(u, c, deletion),
           faults' \in Nat
    PROVE  TypeOK'
<1>1. deletion \o LastReport(u, c) \in Seq(Write)
  <2>1. LastReport(u, c) \in Seq(Write)
    BY ReportIsWrites DEF LastReport, Status
  <2>. QED
    BY <2>1, ConcatProperties
<1>2. outbox' \in [User -> Seq(Write)]
  BY <1>1, IssueType DEF Finish, TypeOK
<1>3. /\ session' \in [User -> [CallId -> Phase]]
      /\ peers' \in [User -> [CallId -> SUBSET User]]
  BY LeaveType DEF Finish, TypeOK
<1>. QED
  BY <1>2, <1>3 DEF Finish, TypeOK, EndStep

LEMMA EndCallAtReceiverType ==
    ASSUME TypeOK, NEW u \in User, NEW c \in CallId, EndCallAtReceiver(u, c)
    PROVE  TypeOK'
<1>1. Receiver[c] \in User
  BY CallAssumption
<1>. DEFINE found == ReceivedBy(u, c)
<1>2. found \in SUBSET Doc
  BY <1>1 DEF ReceivedBy, View, TypeOK
<1>3. PICK deletion \in Deletions(Receiver[c], found) : Finish(u, c, deletion)
  BY DEF EndCallAtReceiver
<1>. HIDE DEF found
<1>4. deletion \in Seq(Write)
  BY <1>1, <1>2, <1>3, DeletionsAreWrites
<1>5. faults' \in Nat
  BY DEF EndCallAtReceiver, TypeOK
<1>. QED
  BY <1>3, <1>4, <1>5, FinishType

LEMMA EndCallThrowsType ==
    ASSUME TypeOK, NEW u \in User, NEW c \in CallId, EndCallThrows(u, c)
    PROVE  TypeOK'
<1>1. <<>> \in Seq(Write)
  OBVIOUS
<1>2. faults' \in Nat
  BY DEF EndCallThrows, TypeOK
<1>. QED
  BY <1>1, <1>2, FinishType DEF EndCallThrows

LEMMA CommitType ==
    ASSUME TypeOK, NEW u \in User, Commit(u)
    PROVE  TypeOK'
<1>. DEFINE w == Head(outbox[u])
<1>1. w \in Write /\ Tail(outbox[u]) \in Seq(Write)
  BY HeadTailProperties DEF Commit, TypeOK
<1>2. outbox' \in [User -> Seq(Write)]
  BY <1>1 DEF Commit, TypeOK
<1>3. CASE w.kind = "status"
  <2>1. w \in StatusWrite
    BY <1>1, <1>3 DEF Write, DeleteWrite
  <2>2. \A e \in Entry : Merge(e, w) \in Entry
    BY <2>1 DEF Merge, StatusWrite, Entry
  <2>3. w.owner \in User /\ w.call \in CallId
    BY <2>1 DEF StatusWrite
  <2>4. history' = [history EXCEPT ![w.owner][w.call] = Merge(@, w)]
    BY <1>3 DEF Commit
  <2>5. history' \in [User -> [CallId -> Entry]]
    <3>. HIDE DEF w
    <3>. QED
      BY <2>2, <2>3, <2>4 DEF TypeOK
  <2>. QED
    BY <1>2, <1>3, <2>5 DEF Commit, TypeOK, clientVars
<1>4. CASE w.kind # "status"
  <2>1. w \in DeleteWrite
    BY <1>1, <1>4 DEF Write, StatusWrite
  <2>2. w.owner \in User
    BY <2>1 DEF DeleteWrite
  <2>3. calling' = [calling EXCEPT ![w.owner] = @ \ {w.doc}]
    BY <1>4 DEF Commit
  <2>4. calling' \in [User -> SUBSET Doc]
    <3>. HIDE DEF w
    <3>. QED
      BY <2>2, <2>3 DEF TypeOK
  <2>. QED
    BY <1>2, <1>4, <2>4 DEF Commit, TypeOK, clientVars
<1>. QED
  BY <1>3, <1>4

LEMMA KillType ==
    ASSUME TypeOK, NEW u \in User, Kill(u)
    PROVE  TypeOK'
  BY DEF Kill, TypeOK, Phase, EndStep

LEMMA NextType == TypeOK /\ [Next]_vars => TypeOK'
<1>. SUFFICES ASSUME TypeOK, [Next]_vars
              PROVE  TypeOK'
  OBVIOUS
<1>1. ASSUME NEW u \in User, NEW c \in CallId, CallStep(u, c)
      PROVE  TypeOK'
  BY <1>1, DialType, AcceptType, RejectType, CreateEngineType,
     JoinChannelType, UserJoinedType, UserOfflineType, LeaveChannelType,
     ReleaseEngineType, HangUpType, EndCallAtCallerType,
     EndCallAtReceiverType, EndCallThrowsType
  DEF CallStep
<1>2. ASSUME NEW u \in User, DeviceStep(u)
      PROVE  TypeOK'
  BY <1>2, AddCallerDocType, AddReceiverDocType, CommitType, KillType
  DEF DeviceStep
<1>3. CASE UNCHANGED vars
  BY <1>3 DEF vars, clientVars, TypeOK
<1>. QED
  BY <1>1, <1>2, <1>3 DEF Next

\* The documents, the writes in flight and the clients' state keep their
\* types, whatever the clients do.
THEOREM TypeCorrect == Spec => []TypeOK
<1>. QED
  BY InitType, NextType, PTL DEF Spec

-----------------------------------------------------------------------------
(* What one step can do to a justification.                                *)

\* Deeds, placed calls and faults are only added.
Grows ==
    /\ deed \subseteq deed'
    /\ placed \subseteq placed'
    /\ faults > 0 => faults' > 0

LEMMA ReasonGrows ==
    ASSUME Grows, NEW c \in CallId
    PROVE  /\ Accepted(c) => Accepted(c)'
           /\ Rejected(c) => Rejected(c)'
           /\ Broken(c) => Broken(c)'
           /\ Crossed(c) => Crossed(c)'
<1>1. Accepted(c) => Accepted(c)'
  BY DEF Grows, Accepted
<1>2. Rejected(c) => Rejected(c)'
  BY DEF Grows, Rejected
<1>3. Crossed(c) => Crossed(c)'
  BY DEF Grows, Crossed
<1>4. HungUp(c) => HungUp(c)'
  BY DEF Grows, HungUp
<1>5. Broken(c) => Broken(c)'
  BY <1>3, <1>4 DEF Grows, Broken
<1>. QED
  BY <1>1, <1>2, <1>3, <1>5

LEMMA JustifiedGrows ==
    ASSUME Grows, NEW c \in CallId, NEW s, Justified(s, c)
    PROVE  Justified(s, c)'
  BY ReasonGrows DEF Justified

LEMMA JustifiedWriteGrows ==
    ASSUME Grows, NEW w \in Write, JustifiedWrite(w)
    PROVE  JustifiedWrite(w)'
<1>1. CASE w.kind = "status"
  <2>1. w.call \in CallId
    BY <1>1 DEF Write, StatusWrite, DeleteWrite
  <2>. QED
    BY <1>1, <2>1, JustifiedGrows DEF JustifiedWrite
<1>2. CASE w.kind # "status"
  <2>1. RemovedOnBehalf(w.owner, w.doc)
    BY <1>2 DEF JustifiedWrite
  <2>2. RemovedOnBehalf(w.owner, w.doc)'
    BY <2>1 DEF Grows, RemovedOnBehalf, HasEnded
  <2>. QED
    BY <1>2, <2>2 DEF JustifiedWrite
<1>. QED
  BY <1>1, <1>2

\* A step that leaves the state a conjunct of CallInv speaks of alone
\* preserves that conjunct.
LEMMA Frame ==
    ASSUME CallInv, Grows
    PROVE  /\ UNCHANGED calling => CallingOK'
           /\ UNCHANGED <<dial, session>> => DialOK'
           /\ UNCHANGED page => PageOK'
           /\ UNCHANGED session => SessionOK'
           /\ UNCHANGED <<session, peers>> => PeersOK'
           /\ UNCHANGED ending => EndingOK'
           /\ UNCHANGED history => HistoryOK'
           /\ UNCHANGED outbox => OutboxOK'
<1>. USE DEF CallInv
<1>1. ASSUME UNCHANGED calling PROVE CallingOK'
  BY <1>1 DEF CallingOK, Grows
<1>2. ASSUME UNCHANGED <<dial, session>> PROVE DialOK'
  BY <1>2 DEF DialOK, Grows
<1>3. ASSUME UNCHANGED page PROVE PageOK'
  BY <1>3 DEF PageOK, Grows
<1>4. ASSUME UNCHANGED session PROVE SessionOK'
  BY <1>4, ReasonGrows DEF SessionOK, Grows
<1>5. ASSUME UNCHANGED <<session, peers>> PROVE PeersOK'
  BY <1>5, ReasonGrows DEF PeersOK
<1>6. ASSUME UNCHANGED ending PROVE EndingOK'
  BY <1>6, ReasonGrows DEF EndingOK, Grows
<1>7. ASSUME UNCHANGED history PROVE HistoryOK'
  BY <1>7, JustifiedGrows DEF HistoryOK
<1>8. ASSUME UNCHANGED outbox PROVE OutboxOK'
  <2>1. \A u \in User : \A i \in 1..Len(outbox[u]) : outbox[u][i] \in Write
    BY ElementOfSeq DEF TypeOK
  <2>. QED
    BY <1>8, <2>1, JustifiedWriteGrows DEF OutboxOK
<1>. QED
  BY <1>1, <1>2, <1>3, <1>4, <1>5, <1>6, <1>7, <1>8

\* Appending justified writes to an outbox keeps every outbox justified.
LEMMA IssueJustified ==
    ASSUME CallInv, Grows, NEW u \in User, NEW writes \in Seq(Write),
           \A i \in 1..Len(writes) : JustifiedWrite(writes[i]),
           Issue(u, writes)
    PROVE  OutboxOK'
<1>1. outbox \in [User -> Seq(Write)]
  BY DEF CallInv, TypeOK
<1>2. SUFFICES ASSUME NEW v \in User, NEW i \in 1..Len(outbox'[v])
               PROVE  JustifiedWrite(outbox[v][i])'
  BY DEF OutboxOK
<1>3. \A j \in 1..Len(outbox[v]) : JustifiedWrite(outbox[v][j])
  BY DEF CallInv, OutboxOK
<1>4. outbox'[v] = IF v = u THEN outbox[u] \o writes ELSE outbox[v]
  BY <1>1 DEF Issue
<1>5. outbox'[v] \in Seq(Write)
  BY <1>1, IssueType
<1>6. outbox'[v][i] \in Write
  BY <1>5, ElementOfSeq
<1>7. JustifiedWrite(outbox'[v][i])
  <2>1. CASE v # u
    BY <1>3, <1>4, <2>1
  <2>2. CASE v = u
    <3>1. Len(outbox[u]) \in Nat /\ Len(writes) \in Nat
      BY <1>1, LenProperties
    <3>2. /\ Len(outbox[u] \o writes) = Len(outbox[u]) + Len(writes)
          /\ \A j \in 1..(Len(outbox[u]) + Len(writes)) :
                 (outbox[u] \o writes)[j] =
                     IF j <= Len(outbox[u]) THEN outbox[u][j]
                     ELSE writes[j - Len(outbox[u])]
      BY <1>1, ConcatProperties
    <3>3. i \in 1..(Len(outbox[u]) + Len(writes))
      BY <1>4, <2>2, <3>2
    <3>4. CASE i <= Len(outbox[u])
      BY <1>3, <1>4, <2>2, <3>1, <3>2, <3>3, <3>4
    <3>5. CASE ~(i <= Len(outbox[u]))
      <4>1. i - Len(outbox[u]) \in 1..Len(writes)
        BY <3>1, <3>3, <3>5
      <4>. QED
        BY <1>4, <2>2, <3>2, <3>3, <3>5, <4>1
    <3>. QED
      BY <3>4, <3>5
  <2>. QED
    BY <2>1, <2>2
<1>8. PICK w \in Write : w = outbox'[v][i]
  BY <1>6
<1>9. JustifiedWrite(w)'
  BY <1>7, <1>8, JustifiedWriteGrows
<1>. QED
  BY <1>8, <1>9

LEMMA ReportJustified ==
    ASSUME NEW c \in CallId, NEW s \in Status, NEW r \in Status,
           NEW t \in {"keep", "null", "now"},
           Justified(s, c), Justified(r, c)
    PROVE  \A i \in 1..Len(Report(c, s, r, t)) :
               JustifiedWrite(Report(c, s, r, t)[i])
<1>1. \A v, x : JustifiedWrite(SetStatus(v, c, x, t)) <=> Justified(x, c)
  BY DEF JustifiedWrite, SetStatus
<1>2. /\ JustifiedWrite(Report(c, s, r, t)[1])
      /\ JustifiedWrite(Report(c, s, r, t)[2])
  BY <1>1, ReportIsWrites
<1>3. Len(Report(c, s, r, t)) = 2
  BY ReportIsWrites
<1>4. \A i \in 1..2 : i = 1 \/ i = 2
  OBVIOUS
<1>. QED
  BY <1>2, <1>3, <1>4

\* What a change of one engine's phase must respect.
LEMMA EngineStep ==
    ASSUME CallInv, Grows, NEW u \in User, NEW c \in placed, NEW x,
           session' = [session EXCEPT ![u][c] = x],
           u = Caller[c] \/ (u = Receiver[c] /\ Accepted(c)'),
           x = "leaving" => <<"hangup", u, c>> \in deed',
           session[u][c] = "joined" => x = "joined" \/ Broken(c)',
           \A v \in User, d \in CallId : peers'[v][d] \subseteq peers[v][d]
    PROVE  /\ SessionOK'
           /\ PeersOK'
           /\ UNCHANGED dial /\ (session[u][c] # "none" \/ u # Caller[c])
                  => DialOK'
<1>. USE DEF CallInv
<1>1. c \in CallId /\ session \in [User -> [CallId -> Phase]]
  BY DEF TypeOK
<1>2. SessionOK'
  BY <1>1, ReasonGrows DEF SessionOK, Grows
<1>3. PeersOK'
  <2>1. SUFFICES ASSUME NEW v \in User, NEW d \in CallId,
                        NEW w \in peers'[v][d], ~Broken(d)'
                 PROVE  session'[w][d] = "joined"
    BY DEF PeersOK
  <2>2. w \in User /\ session[w][d] = "joined"
    BY <2>1, ReasonGrows DEF PeersOK, TypeOK
  <2>. QED
    BY <1>1, <2>1, <2>2
<1>4. ASSUME UNCHANGED dial, session[u][c] # "none" \/ u # Caller[c]
      PROVE  DialOK'
  BY <1>1, <1>4 DEF DialOK, Grows
<1>. QED
  BY <1>2, <1>3, <1>4

\* A ring is the receiver's copy of a call that was placed.
LEMMA RingIsReceivers ==
    ASSUME CallInv, NEW u \in User, NEW c \in Ringing(u)
    PROVE  c \in placed /\ u = Receiver[c]
<1>1. PICK d \in calling[u] : c = d.call /\ u # Caller[c]
  BY DEF Ringing, First, View, HasDialled
<1>. QED
  BY <1>1 DEF CallInv, CallingOK, Parties

-----------------------------------------------------------------------------
(* Every action preserves CallInv.                                         *)

LEMMA InitInv == Init => CallInv
<1>. SUFFICES ASSUME Init
              PROVE  CallInv
  OBVIOUS
<1>1. TypeOK
  BY InitType
<1>2. CallingOK /\ DialOK /\ PageOK /\ SessionOK /\ PeersOK /\ EndingOK
  BY DEF Init, CallingOK, DialOK, PageOK, SessionOK, PeersOK, EndingOK
<1>3. HistoryOK
  BY DEF Init, HistoryOK, Justified
<1>4. OutboxOK
  BY DEF Init, OutboxOK
<1>. QED
  BY <1>1, <1>2, <1>3, <1>4 DEF CallInv

LEMMA DialInv ==
    ASSUME CallInv, NEW u \in User, NEW c \in CallId, Dial(u, c)
    PROVE  CallInv'
<1>. USE DEF Dial
<1>1. TypeOK'
  BY DialType DEF CallInv
<1>2. Grows
  BY DEF Grows
<1>3. DialOK'
  <2>1. dial \in [User -> DialStep \cup {NotDialling}]
    BY DEF CallInv, TypeOK
  <2>2. session[u][c] = "none"
    BY DEF CallInv, SessionOK
  <2>. QED
    BY <2>1, <2>2 DEF CallInv, DialOK
<1>. QED
  BY <1>1, <1>2, <1>3, Frame DEF CallInv

LEMMA AddDocInv ==
    ASSUME CallInv, NEW v \in User, NEW c \in placed, v \in Parties(c),
           AddDoc(v, c), UNCHANGED placed
    PROVE  CallingOK'
<1>1. calling \in [User -> SUBSET Doc]
  BY DEF CallInv, TypeOK
<1>2. PICK id : calling' =
          [calling EXCEPT ![v] = @ \cup {[id |-> id, call |-> c]}]
  BY DEF AddDoc
<1>. QED
  BY <1>1, <1>2 DEF CallInv, CallingOK

LEMMA AddCallerDocInv ==
    ASSUME CallInv, NEW u \in User, AddCallerDoc(u)
    PROVE  CallInv'
<1>1. TypeOK'
  BY AddCallerDocType DEF CallInv
<1>2. Grows
  BY DEF Grows, AddCallerDoc
<1>3. dial[u] # NotDialling
  BY DEF AddCallerDoc, NotDialling
<1>4. dial[u].call \in placed /\ u = Caller[dial[u].call]
  BY <1>3 DEF CallInv, DialOK
<1>5. CallingOK'
  BY <1>4, AddDocInv DEF AddCallerDoc, Parties
<1>6. DialOK'
  <2>1. dial \in [User -> DialStep \cup {NotDialling}]
    BY DEF CallInv, TypeOK
  <2>2. dial[u] \in DialStep
    BY <1>3, <2>1
  <2>3. dial'[u].call = dial[u].call
    BY <2>1, <2>2 DEF AddCallerDoc, DialStep
  <2>4. \A v \in User \ {u} : dial'[v] = dial[v]
    BY <2>1 DEF AddCallerDoc
  <2>5. session[u][dial[u].call] = "none"
    BY <1>3 DEF CallInv, DialOK
  <2>. QED
    BY <1>4, <2>3, <2>4, <2>5 DEF CallInv, DialOK, AddCallerDoc
<1>. QED
  BY <1>1, <1>2, <1>5, <1>6, Frame DEF CallInv, AddCallerDoc

LEMMA AddReceiverDocInv ==
    ASSUME CallInv, NEW u \in User, AddReceiverDoc(u)
    PROVE  CallInv'
<1>1. TypeOK'
  BY AddReceiverDocType DEF CallInv
<1>2. Grows
  BY DEF Grows, AddReceiverDoc
<1>. DEFINE c == dial[u].call
<1>3. dial[u] # NotDialling
  BY DEF AddReceiverDoc, NotDialling
<1>4. c \in placed /\ c \in CallId /\ u = Caller[c]
  BY <1>3 DEF CallInv, DialOK, TypeOK
<1>5. CallingOK'
  <2>1. Receiver[c] \in User /\ Receiver[c] \in Parties(c)
    BY <1>4, CallAssumption DEF Parties
  <2>. QED
    BY <1>4, <2>1, AddDocInv DEF AddReceiverDoc
<1>6. session' = [session EXCEPT ![u][c] = "asking"]
  BY DEF AddReceiverDoc
<1>7. session[u][c] = "none"
  BY <1>3 DEF CallInv, DialOK
<1>8. SessionOK' /\ PeersOK'
  BY <1>2, <1>4, <1>6, <1>7, EngineStep DEF AddReceiverDoc
<1>9. DialOK'
  <2>1. \A v \in User \ {u} : dial'[v] = dial[v]
    BY DEF CallInv, TypeOK, AddReceiverDoc
  <2>2. dial'[u] = NotDialling
    BY DEF CallInv, TypeOK, AddReceiverDoc
  <2>3. \A v \in User \ {u} : session'[v] = session[v]
    BY <1>6 DEF CallInv, TypeOK
  <2>. QED
    BY <2>1, <2>2, <2>3, <1>2 DEF CallInv, DialOK, Grows
<1>10. PageOK'
  BY <1>4 DEF CallInv, PageOK, TypeOK, AddReceiverDoc, Parties
<1>. QED
  BY <1>1, <1>2, <1>5, <1>8, <1>9, <1>10, Frame DEF CallInv, AddReceiverDoc

LEMMA AcceptInv ==
    ASSUME CallInv, NEW u \in User, NEW c \in CallId, Accept(u, c)
    PROVE  CallInv'
<1>1. TypeOK'
  BY AcceptType DEF CallInv
<1>2. Grows
  BY DEF Grows, Accept
<1>3. c \in placed /\ u = Receiver[c] /\ u # Caller[c]
  BY RingIsReceivers, CallAssumption DEF Accept
<1>4. PageOK'
  BY <1>3 DEF CallInv, PageOK, TypeOK, Accept, Parties
<1>5. SessionOK' /\ PeersOK' /\ DialOK'
  <2>. DEFINE x == IF session[u][c] \in {"none", "left"} THEN "asking"
                                                        ELSE session[u][c]
  <2>1. session' = [session EXCEPT ![u][c] = x]
    BY DEF Accept
  <2>2. Accepted(c)'
    BY <1>3 DEF Accept, Accepted
  <2>3. x # "leaving" /\ (session[u][c] = "joined" => x = "joined")
    BY DEF Accept
  <2>. HIDE DEF x
  <2>. QED
    BY <1>2, <1>3, <2>1, <2>2, <2>3, EngineStep DEF Accept
<1>. QED
  BY <1>1, <1>2, <1>4, <1>5, Frame DEF CallInv, Accept

LEMMA RejectInv ==
    ASSUME CallInv, NEW u \in User, NEW c \in CallId, Reject(u, c)
    PROVE  CallInv'
<1>1. TypeOK'
  BY RejectType DEF CallInv
<1>2. Grows
  BY DEF Grows, Reject
<1>3. u = Receiver[c]
  BY RingIsReceivers DEF Reject
<1>4. EndingOK'
  <2>1. Rejected(c)'
    BY <1>3 DEF Reject, Rejected
  <2>2. ending' = [ending EXCEPT ![u][c] = "rejectCaller"]
    BY DEF Reject
  <2>. QED
    BY <1>2, <1>3, <2>1, <2>2, ReasonGrows
    DEF CallInv, EndingOK, TypeOK, Grows
<1>. QED
  BY <1>1, <1>2, <1>4, Frame DEF CallInv, Reject

LEMMA CreateEngineInv ==
    ASSUME CallInv, NEW u \in User, NEW c \in CallId, CreateEngine(u, c)
    PROVE  CallInv'
<1>1. TypeOK'
  BY CreateEngineType DEF CallInv
<1>2. Grows
  BY DEF Grows, CreateEngine
<1>3. c \in placed /\ (u = Caller[c] \/ (u = Receiver[c] /\ Accepted(c)'))
  BY <1>2, ReasonGrows DEF CallInv, SessionOK, CreateEngine
<1>4. SessionOK' /\ PeersOK' /\ DialOK'
  BY <1>2, <1>3, EngineStep DEF CreateEngine
<1>. QED
  BY <1>1, <1>2, <1>4, Frame DEF CallInv, CreateEngine

LEMMA JoinChannelInv ==
    ASSUME CallInv, NEW u \in User, NEW c \in CallId, JoinChannel(u, c)
    PROVE  CallInv'
<1>1. TypeOK'
  BY JoinChannelType DEF CallInv
<1>2. Grows
  BY DEF Grows, JoinChannel
<1>3. c \in placed /\ (u = Caller[c] \/ (u = Receiver[c] /\ Accepted(c)'))
  BY <1>2, ReasonGrows DEF CallInv, SessionOK, JoinChannel
<1>4. SessionOK' /\ PeersOK' /\ DialOK'
  BY <1>2, <1>3, EngineStep DEF JoinChannel
<1>5. OutboxOK'
  <2>1. Justified("calling", c) /\ Justified("missedCall", c)
    BY DEF Justified
  <2>. DEFINE writes == Report(c, "calling", "missedCall", "null")
  <2>2. /\ writes \in Seq(Write)
        /\ \A i \in 1..Len(writes) : JustifiedWrite(writes[i])
    BY <2>1, ReportIsWrites, ReportJustified DEF Status
  <2>3. Issue(u, writes) \/ UNCHANGED outbox
    BY DEF JoinChannel
  <2>. HIDE DEF writes
  <2>. QED
    BY <1>2, <2>2, <2>3, IssueJustified, Frame
<1>. QED
  BY <1>1, <1>2, <1>4, <1>5, Frame DEF CallInv, JoinChannel

LEMMA UserJoinedInv ==
    ASSUME CallInv, NEW u \in User, NEW c \in CallId, NEW v \in User,
           UserJoined(u, c, v)
    PROVE  CallInv'
<1>1. TypeOK'
  BY UserJoinedType DEF CallInv
<1>2. Grows
  BY DEF Grows, UserJoined
<1>3. PICK d \in CallId : session[v][d] = "joined"
  BY DEF UserJoined, HasJoined, InChannel
<1>4. d \in placed /\ (v = Caller[d] \/ (v = Receiver[d] /\ Accepted(d)))
  BY <1>3 DEF CallInv, SessionOK
<1>5. d # c => Crossed(c)
  BY <1>4 DEF Crossed
<1>6. PeersOK'
  <2>1. peers' = [peers EXCEPT ![u][c] = @ \cup {v}]
    BY DEF UserJoined
  <2>2. Broken(c) \/ session[v][c] = "joined"
    BY <1>3, <1>5 DEF Broken
  <2>3. \A x \in User, e \in CallId : \A y \in peers'[x][e] :
            Broken(e) \/ session[y][e] = "joined"
    BY <2>1, <2>2 DEF CallInv, PeersOK, TypeOK
  <2>. QED
    BY <1>2, <2>3, ReasonGrows DEF PeersOK, UserJoined
<1>7. OutboxOK'
  <2>1. CASE u = Caller[c]
    <3>1. v # Caller[c]
      BY <2>1 DEF UserJoined, HasJoined
    <3>2. Justified("pickedUp", c)
      BY <1>4, <1>5, <3>1 DEF Justified
    <3>. DEFINE writes == Report(c, "pickedUp", "pickedUp", "now")
    <3>3. /\ writes \in Seq(Write)
          /\ \A i \in 1..Len(writes) : JustifiedWrite(writes[i])
      BY <3>2, ReportIsWrites, ReportJustified DEF Status
    <3>4. Issue(u, writes)
      BY <2>1 DEF UserJoined, IsCaller
    <3>. HIDE DEF writes
    <3>. QED
      BY <1>2, <3>3, <3>4, IssueJustified
  <2>2. CASE u # Caller[c]
    BY <1>2, <2>2, Frame DEF UserJoined, IsCaller
  <2>. QED
    BY <2>1, <2>2
<1>. QED
  BY <1>1, <1>2, <1>6, <1>7, Frame DEF CallInv, UserJoined

\* Reporting a broken call as ended, or keeping quiet about it.
LEMMA EndedReportJustified ==
    ASSUME CallInv, Grows, NEW u \in User, NEW c \in CallId, Broken(c),
           \/ UNCHANGED outbox
           \/ Issue(u, Report(c, "ended", "ended", "keep"))
    PROVE  OutboxOK'
<1>. DEFINE writes == Report(c, "ended", "ended", "keep")
<1>1. Justified("ended", c)
  BY DEF Justified
<1>2. /\ writes \in Seq(Write)
      /\ \A i \in 1..Len(writes) : JustifiedWrite(writes[i])
  BY <1>1, ReportIsWrites, ReportJustified DEF Status
<1>. HIDE DEF writes
<1>3. UNCHANGED outbox \/ Issue(u, writes)
  BY DEF writes
<1>. QED
  BY <1>2, <1>3, IssueJustified, Frame

LEMMA UserOfflineInv ==
    ASSUME CallInv, NEW u \in User, NEW c \in CallId, NEW v \in User,
           UserOffline(u, c, v)
    PROVE  CallInv'
<1>1. TypeOK'
  BY UserOfflineType DEF CallInv
<1>2. Grows
  BY DEF Grows, UserOffline
<1>3. Broken(c)
  <2>1. session[v][c] # "joined"
    BY DEF UserOffline, HasGone, InChannel
  <2>. QED
    BY <2>1 DEF CallInv, PeersOK, UserOffline, HasGone
<1>4. PeersOK'
  <2>1. \A x \in User, e \in CallId : peers'[x][e] \subseteq peers[x][e]
    BY DEF CallInv, TypeOK, UserOffline
  <2>. QED
    BY <1>2, <2>1, ReasonGrows DEF CallInv, PeersOK, UserOffline
<1>5. OutboxOK'
  BY <1>2, <1>3, EndedReportJustified DEF UserOffline
<1>. QED
  BY <1>1, <1>2, <1>4, <1>5, Frame DEF CallInv, UserOffline

LEMMA LeaveChannelInv ==
    ASSUME CallInv, NEW u \in User, NEW c \in CallId, LeaveChannel(u, c)
    PROVE  CallInv'
<1>1. TypeOK'
  BY LeaveChannelType DEF CallInv
<1>2. Grows
  BY DEF Grows, LeaveChannel
<1>3. /\ c \in placed
      /\ u = Caller[c] \/ (u = Receiver[c] /\ Accepted(c))
      /\ <<"hangup", u, c>> \in deed
  BY DEF CallInv, SessionOK, LeaveChannel
<1>4. SessionOK' /\ PeersOK' /\ DialOK'
  BY <1>2, <1>3, EngineStep, ReasonGrows DEF LeaveChannel
<1>5. PageOK'
  <2>1. page' = [page EXCEPT ![u] = Home]
    BY DEF LeaveChannel
  <2>. QED
    BY <1>2, <2>1 DEF CallInv, PageOK, TypeOK, Grows
<1>6. OutboxOK'
  <2>1. Broken(c)
    BY <1>3 DEF Broken, HungUp, Parties
  <2>. QED
    BY <1>2, <2>1, EndedReportJustified DEF LeaveChannel
<1>. QED
  BY <1>1, <1>2, <1>4, <1>5, <1>6, Frame DEF CallInv, LeaveChannel

LEMMA ReleaseEngineInv ==
    ASSUME CallInv, NEW u \in User, NEW c \in CallId, ReleaseEngine(u, c)
    PROVE  CallInv'
<1>1. TypeOK'
  BY ReleaseEngineType DEF CallInv
<1>2. Grows
  BY DEF Grows, ReleaseEngine
<1>3. c \in placed /\ (u = Caller[c] \/ (u = Receiver[c] /\ Accepted(c)'))
  BY <1>2, ReasonGrows DEF CallInv, SessionOK, ReleaseEngine
<1>4. SessionOK' /\ PeersOK' /\ DialOK'
  BY <1>2, <1>3, EngineStep DEF ReleaseEngine
<1>. QED
  BY <1>1, <1>2, <1>4, Frame DEF CallInv, ReleaseEngine

\* A party that hung up may tear its engine down: its peers find the call
\* broken.
LEMMA LeaveInv ==
    ASSUME CallInv, Grows, NEW u \in User, NEW c \in CallId, Leave(u, c),
           u \in Parties(c), <<"hangup", u, c>> \in deed', UNCHANGED dial
    PROVE  SessionOK' /\ PeersOK' /\ DialOK'
<1>. DEFINE x == CASE session[u][c] = "joined" -> "leaving"
                   [] session[u][c] = "starting" -> "left"
                   [] OTHER -> session[u][c]
<1>1. session' = [session EXCEPT ![u][c] = x]
  BY DEF Leave
<1>2. \A v \in User, d \in CallId : peers'[v][d] \subseteq peers[v][d]
  BY DEF Leave, CallInv, TypeOK
<1>3. Broken(c)'
  BY DEF Broken, HungUp, Parties
<1>4. CASE session[u][c] = "none"
  <2>1. x = session[u][c]
    BY <1>4
  <2>2. UNCHANGED session
    <3>. HIDE DEF x
    <3>. QED
      BY <1>1, <2>1 DEF CallInv, TypeOK
  <2>3. PeersOK'
    BY <1>2, <2>2, ReasonGrows DEF CallInv, PeersOK
  <2>. QED
    BY <2>2, <2>3, Frame
<1>5. CASE session[u][c] # "none"
  <2>1. c \in placed /\ (u = Caller[c] \/ (u = Receiver[c] /\ Accepted(c)'))
    BY <1>5, ReasonGrows DEF CallInv, SessionOK
  <2>. HIDE DEF x
  <2>. QED
    BY <1>1, <1>2, <1>3, <1>5, <2>1, EngineStep
<1>. QED
  BY <1>4, <1>5

LEMMA HangUpInv ==
    ASSUME CallInv, NEW u \in User, NEW c \in CallId, HangUp(u, c)
    PROVE  CallInv'
<1>1. TypeOK'
  BY HangUpType DEF CallInv
<1>2. Grows
  BY DEF Grows, HangUp
<1>3. u \in Parties(c) /\ <<"hangup", u, c>> \in deed'
  BY CallAssumption DEF CallInv, PageOK, HangUp
<1>4. EndingOK'
  <2>1. ending' = [ending EXCEPT ![u][c] = "hangCaller"]
    BY DEF HangUp
  <2>. QED
    BY <1>2, <1>3, <2>1, ReasonGrows DEF CallInv, EndingOK, TypeOK, Grows
<1>5. SessionOK' /\ PeersOK' /\ DialOK'
  <2>1. CASE c \in Video
    BY <1>2, <2>1, Frame DEF HangUp
  <2>2. CASE c \notin Video
    BY <1>2, <1>3, <2>2, LeaveInv DEF HangUp
  <2>. QED
    BY <2>1, <2>2
<1>. QED
  BY <1>1, <1>2, <1>4, <1>5, Frame DEF CallInv, HangUp

\* While endCall runs, the call was hung up or rejected by one of its parties.
LEMMA EndingHasCause ==
    ASSUME CallInv, NEW u \in User, NEW c \in CallId, ending[u][c] # "no"
    PROVE  \E v \in Parties(c) : HasEnded(v, c)
<1>1. ending[u][c] \in EndStep
  BY DEF CallInv, TypeOK
<1>2. CASE ending[u][c] \in {"hangCaller", "hangReceiver"}
  BY <1>2 DEF CallInv, EndingOK, HasEnded
<1>3. CASE ending[u][c] \in {"rejectCaller", "rejectReceiver"}
  BY <1>3 DEF CallInv, EndingOK, HasEnded, Rejected, Parties
<1>. QED
  BY <1>1, <1>2, <1>3 DEF EndStep

\* Deleting documents that share a party with the call, at that party.
LEMMA DeletionJustified ==
    ASSUME CallInv, NEW u \in User, NEW c \in CallId, ending[u][c] # "no",
           NEW v \in User, NEW S \in SUBSET Doc, NEW w \in Deletions(v, S),
           \/ v = Caller[c] /\ \A d \in S : Caller[d.call] = v
           \/ v = Receiver[c] /\ \A d \in S : Receiver[d.call] = v
    PROVE  \A i \in 1..Len(w) : JustifiedWrite(w[i])
<1>1. SUFFICES ASSUME NEW i \in 1..Len(w)
               PROVE  JustifiedWrite(w[i])
  OBVIOUS
<1>2. PICK d \in S : w[i] = [kind |-> "delete", owner |-> v, doc |-> d]
  BY DeletionsAreWrites
<1>3. RemovedOnBehalf(v, d)
  BY EndingHasCause DEF RemovedOnBehalf
<1>. QED
  BY <1>2, <1>3 DEF JustifiedWrite

LEMMA EndCallAtCallerInv ==
    ASSUME CallInv, NEW u \in User, NEW c \in CallId, EndCallAtCaller(u, c)
    PROVE  CallInv'
<1>1. TypeOK'
  BY EndCallAtCallerType DEF CallInv
<1>2. Grows
  BY DEF Grows, EndCallAtCaller
<1>3. EndingOK'
  <2>1. ending' = [ending EXCEPT ![u][c] =
                      IF @ = "hangCaller" THEN "hangReceiver"
                                          ELSE "rejectReceiver"]
    BY DEF EndCallAtCaller
  <2>2. ending \in [User -> [CallId -> EndStep]] /\ EndingOK
    BY DEF CallInv, TypeOK
  <2>3. \A v \in User, d \in CallId : v # u \/ d # c
            => ending'[v][d] = ending[v][d]
    BY <2>1, <2>2
  <2>4. ending'[u][c] = IF ending[u][c] = "hangCaller" THEN "hangReceiver"
                                                       ELSE "rejectReceiver"
    BY <2>1, <2>2
  <2>5. ending[u][c] \in {"hangCaller", "rejectCaller"}
    BY DEF EndCallAtCaller
  <2>6. UNCHANGED deed
    BY DEF EndCallAtCaller
  <2>7. \/ /\ ending'[u][c] = "hangReceiver"
           /\ u \in Parties(c) /\ <<"hangup", u, c>> \in deed'
        \/ /\ ending'[u][c] = "rejectReceiver"
           /\ u = Receiver[c] /\ Rejected(c)'
    BY <2>2, <2>4, <2>5, <2>6 DEF EndingOK, Rejected
  <2>8. \A d \in CallId : Rejected(d) => Rejected(d)'
    BY <2>6 DEF Rejected
  <2>9. SUFFICES ASSUME NEW v \in User, NEW d \in CallId
                 PROVE  /\ ending'[v][d] \in {"hangCaller", "hangReceiver"}
                              => /\ v \in Parties(d)
                                 /\ <<"hangup", v, d>> \in deed'
                        /\ ending'[v][d] \in {"rejectCaller", "rejectReceiver"}
                              => v = Receiver[d] /\ Rejected(d)'
    BY DEF EndingOK
  <2>10. CASE v = u /\ d = c
    BY <2>7, <2>10
  <2>11. CASE v # u \/ d # c
    BY <2>2, <2>3, <2>6, <2>8, <2>11 DEF EndingOK
  <2>. QED
    BY <2>10, <2>11
<1>4. OutboxOK'
  <2>. DEFINE v == Caller[c]
              found == DialledBy(u, c)
  <2>1. v \in User
    BY CallAssumption
  <2>2. found \in SUBSET Doc /\ \A d \in found : Caller[d.call] = v
    BY <2>1 DEF DialledBy, View, CallInv, TypeOK
  <2>3. PICK deletion \in Deletions(v, found) : Issue(u, deletion)
    BY DEF EndCallAtCaller
  <2>4. ending[u][c] # "no"
    BY DEF EndCallAtCaller
  <2>5. v = Caller[c]
    OBVIOUS
  <2>. HIDE DEF v, found
  <2>6. /\ deletion \in Seq(Write)
        /\ \A i \in 1..Len(deletion) : JustifiedWrite(deletion[i])
    BY <2>1, <2>2, <2>4, <2>5, DeletionsAreWrites, DeletionJustified
  <2>. QED
    BY <1>2, <2>3, <2>6, IssueJustified
<1>. QED
  BY <1>1, <1>2, <1>3, <1>4, Frame DEF CallInv, EndCallAtCaller

LEMMA FinishInv ==
    ASSUME CallInv, TypeOK', NEW u \in User, NEW c \in CallId,
           ending[u][c] # "no", NEW deletion \in Seq(Write),
           \A i \in 1..Len(deletion) : JustifiedWrite(deletion[i]),
           Finish(u, c, deletion), faults > 0 => faults' > 0
    PROVE  CallInv'
<1>1. Grows
  BY DEF Grows, Finish
<1>2. PageOK'
  <2>1. page' = [page EXCEPT ![u] = Home]
    BY DEF Finish
  <2>. QED
    BY <1>1, <2>1 DEF CallInv, PageOK, TypeOK, Grows
<1>3. EndingOK'
  <2>1. ending' = [ending EXCEPT ![u][c] = "no"]
    BY DEF Finish
  <2>2. ending \in [User -> [CallId -> EndStep]] /\ EndingOK
    BY DEF CallInv, TypeOK
  <2>3. \A v \in User, d \in CallId : v # u \/ d # c
            => ending'[v][d] = ending[v][d]
    BY <2>1, <2>2
  <2>4. ending'[u][c] = "no"
    BY <2>1, <2>2
  <2>5. UNCHANGED deed
    BY DEF Finish
  <2>. QED
    BY <2>2, <2>3, <2>4, <2>5 DEF EndingOK, Rejected
\* Whichever branch is taken, the report it issues is justified.
<1>4. ASSUME NEW s \in Status, NEW t \in {"keep", "null"}, Justified(s, c),
             Issue(u, deletion \o Report(c, s, s, t))
      PROVE  OutboxOK'
  <2>. DEFINE report == Report(c, s, s, t)
  <2>1. report \in Seq(Write)
    BY <1>4, ReportIsWrites
  <2>2. \A i \in 1..Len(report) : JustifiedWrite(report[i])
    BY <1>4, ReportJustified
  <2>3. Issue(u, deletion \o report)
    BY <1>4
  <2>. HIDE DEF report
  <2>4. /\ deletion \o report \in Seq(Write)
        /\ Len(deletion \o report) = Len(deletion) + Len(report)
        /\ \A i \in 1..(Len(deletion) + Len(report)) :
               (deletion \o report)[i] =
                   IF i <= Len(deletion) THEN deletion[i]
                                         ELSE report[i - Len(deletion)]
    BY <2>1, ConcatProperties
  <2>5. Len(deletion) \in Nat /\ Len(report) \in Nat
    BY <2>1, LenProperties
  <2>6. ASSUME NEW i \in 1..Len(deletion \o report)
        PROVE  JustifiedWrite((deletion \o report)[i])
    <3>1. CASE i <= Len(deletion)
      BY <2>4, <2>5, <3>1
    <3>2. CASE ~(i <= Len(deletion))
      <4>1. i - Len(deletion) \in 1..Len(report)
        BY <2>4, <2>5, <3>2
      <4>. QED
        BY <2>2, <2>4, <2>5, <3>2, <4>1
    <3>. QED
      BY <3>1, <3>2
  <2>. QED
    BY <1>1, <2>3, <2>4, <2>6, IssueJustified
<1>5. CASE ending[u][c] \in {"rejectCaller", "rejectReceiver"}
  <2>1. Justified("rejected", c)
    BY <1>5 DEF CallInv, EndingOK, Justified
  <2>2. /\ Issue(u, deletion \o Report(c, "rejected", "rejected", "null"))
        /\ UNCHANGED <<session, peers>>
    BY <1>5 DEF Finish, LastReport, Rejecting
  <2>3. OutboxOK'
    BY <1>4, <2>1, <2>2 DEF Status
  <2>. QED
    BY <1>1, <1>2, <1>3, <2>2, <2>3, Frame DEF CallInv, Finish
<1>6. CASE ending[u][c] \in {"hangCaller", "hangReceiver"}
  <2>1. u \in Parties(c) /\ <<"hangup", u, c>> \in deed
    BY <1>6 DEF CallInv, EndingOK
  <2>2. Justified("ended", c)
    BY <2>1 DEF Justified, Broken, HungUp
  <2>3. CASE c \in Video
    <3>1. /\ Issue(u, deletion \o Report(c, "ended", "ended", "keep"))
          /\ Leave(u, c)
      BY <1>6, <2>3 DEF Finish, LastReport, Rejecting
    <3>2. OutboxOK'
      BY <1>4, <2>2, <3>1 DEF Status
    <3>3. SessionOK' /\ PeersOK' /\ DialOK'
      BY <1>1, <2>1, <3>1, LeaveInv DEF Finish
    <3>. QED
      BY <1>1, <1>2, <1>3, <3>2, <3>3, Frame DEF CallInv, Finish
  <2>4. CASE c \notin Video
    <3>1. /\ Issue(u, deletion \o Report(c, "ended", "ended", "null"))
          /\ UNCHANGED <<session, peers>>
      BY <1>6, <2>4 DEF Finish, LastReport, Rejecting
    <3>2. OutboxOK'
      BY <1>4, <2>2, <3>1 DEF Status
    <3>. QED
      BY <1>1, <1>2, <1>3, <3>1, <3>2, Frame DEF CallInv, Finish
  <2>. QED
    BY <2>3, <2>4
<1>. QED
  BY <1>5, <1>6 DEF CallInv, TypeOK, EndStep

LEMMA EndCallAtReceiverInv ==
    ASSUME CallInv, NEW u \in User, NEW c \in CallId, EndCallAtReceiver(u, c)
    PROVE  CallInv'
<1>. DEFINE v == Receiver[c]
            found == ReceivedBy(u, c)
<1>1. TypeOK'
  BY EndCallAtReceiverType DEF CallInv
<1>2. v \in User
  BY CallAssumption
<1>3. found \in SUBSET Doc /\ \A d \in found : Receiver[d.call] = v
  BY <1>2 DEF ReceivedBy, View, CallInv, TypeOK
<1>4. PICK deletion \in Deletions(v, found) : Finish(u, c, deletion)
  BY DEF EndCallAtReceiver
<1>5. ending[u][c] # "no" /\ UNCHANGED faults
  BY DEF EndCallAtReceiver
<1>6. v = Receiver[c]
  OBVIOUS
<1>. HIDE DEF v, found
<1>7. /\ deletion \in Seq(Write)
      /\ \A i \in 1..Len(deletion) : JustifiedWrite(deletion[i])
  BY <1>2, <1>3, <1>5, <1>6, DeletionsAreWrites, DeletionJustified
<1>. QED
  BY <1>1, <1>4, <1>5, <1>7, FinishInv

LEMMA EndCallThrowsInv ==
    ASSUME CallInv, NEW u \in User, NEW c \in CallId, EndCallThrows(u, c)
    PROVE  CallInv'
<1>1. TypeOK'
  BY EndCallThrowsType DEF CallInv
<1>2. ending[u][c] # "no" /\ (faults > 0 => faults' > 0)
  BY DEF EndCallThrows, CallInv, TypeOK
<1>3. /\ <<>> \in Seq(Write)
      /\ \A i \in 1..Len(<<>>) : JustifiedWrite(<<>>[i])
  OBVIOUS
<1>4. Finish(u, c, <<>>)
  BY DEF EndCallThrows
<1>. QED
  BY <1>1, <1>2, <1>3, <1>4, FinishInv

\* The oldest write of a device is one of its outbox, hence justified.
LEMMA OldestJustified ==
    ASSUME CallInv, NEW u \in User, outbox[u] # <<>>
    PROVE  Head(outbox[u]) \in Write /\ JustifiedWrite(Head(outbox[u]))
<1>1. outbox[u] \in Seq(Write)
  BY DEF CallInv, TypeOK
<1>2. Len(outbox[u]) \in Nat \ {0}
  BY <1>1, EmptySeq
<1>3. 1 \in 1..Len(outbox[u]) /\ Head(outbox[u]) = outbox[u][1]
  BY <1>1, <1>2
<1>4. JustifiedWrite(outbox[u][1])
  BY <1>3 DEF CallInv, OutboxOK
<1>. QED
  BY <1>1, <1>3, <1>4, HeadTailProperties

LEMMA CommitInv ==
    ASSUME CallInv, NEW u \in User, Commit(u)
    PROVE  CallInv'
<1>. DEFINE w == Head(outbox[u])
<1>1. TypeOK'
  BY CommitType DEF CallInv
<1>2. Grows
  BY DEF Grows, Commit
<1>3. w \in Write /\ JustifiedWrite(w)
  BY OldestJustified DEF Commit
<1>4. OutboxOK'
  <2>1. outbox[u] \in Seq(Write) /\ outbox[u] # <<>>
    BY DEF CallInv, TypeOK, Commit
  <2>2. outbox' = [outbox EXCEPT ![u] = Tail(@)]
    BY DEF Commit
  <2>3. \A v \in User \ {u} : outbox'[v] = outbox[v]
    BY <2>2 DEF CallInv, TypeOK
  <2>4. outbox'[u] = Tail(outbox[u])
    BY <2>2 DEF CallInv, TypeOK
  <2>5. \A i \in 1..Len(outbox'[u]) :
            i + 1 \in 1..Len(outbox[u]) /\ outbox'[u][i] = outbox[u][i + 1]
    BY <2>1, <2>4, HeadTailProperties, LenProperties
  <2>6. \A v \in User : \A i \in 1..Len(outbox'[v]) :
            JustifiedWrite(outbox'[v][i])
    BY <2>3, <2>5 DEF CallInv, OutboxOK
  <2>7. ASSUME NEW x PROVE JustifiedWrite(x) => JustifiedWrite(x)'
    BY DEF Commit, JustifiedWrite, Justified, RemovedOnBehalf, HasEnded,
       Accepted, Rejected, Broken, HungUp, Crossed
  <2>8. SUFFICES ASSUME NEW v \in User, NEW i \in 1..Len(outbox'[v])
                 PROVE  JustifiedWrite(outbox[v][i])'
    BY DEF OutboxOK
  <2>9. PICK x : x = outbox'[v][i]
    OBVIOUS
  <2>10. JustifiedWrite(x)'
    BY <2>6, <2>7, <2>9
  <2>. QED
    BY <2>9, <2>10
<1>5. CallingOK' /\ HistoryOK'
  <2>1. CASE w.kind = "status"
    <3>1. w.owner \in User /\ w.call \in CallId
      BY <1>3, <2>1 DEF Write, StatusWrite, DeleteWrite
    <3>2. history' = [history EXCEPT ![w.owner][w.call] = Merge(@, w)]
      BY <2>1 DEF Commit
    <3>3. UNCHANGED calling
      BY <2>1 DEF Commit
    <3>4. Justified(w.status, w.call)
      BY <1>3, <2>1 DEF JustifiedWrite
    <3>5. \A v \in User, c \in CallId :
              \/ history'[v][c].status = history[v][c].status
              \/ c = w.call /\ history'[v][c].status = w.status
      <4>1. \A e : Merge(e, w).status = w.status
        BY DEF Merge
      <4>2. history \in [User -> [CallId -> Entry]]
        BY DEF CallInv, TypeOK
      <4>. HIDE DEF w
      <4>. QED
        BY <3>1, <3>2, <4>1, <4>2
    <3>6. ASSUME NEW v \in User, NEW c \in CallId
          PROVE  Justified(history[v][c].status, c)'
      <4>1. PICK s : s = history'[v][c].status
        OBVIOUS
      <4>2. Justified(s, c)
        BY <3>4, <3>5, <4>1 DEF CallInv, HistoryOK
      <4>3. Justified(s, c)'
        BY <1>2, <4>2, JustifiedGrows
      <4>. QED
        BY <4>1, <4>3
    <3>. QED
      BY <1>2, <3>3, <3>6, Frame DEF HistoryOK
  <2>2. CASE w.kind # "status"
    <3>1. calling' = [calling EXCEPT ![w.owner] = @ \ {w.doc}]
      BY <2>2 DEF Commit
    <3>2. \A v \in User : calling'[v] \subseteq calling[v]
      BY <3>1 DEF CallInv, TypeOK
    <3>3. CallingOK'
      BY <1>2, <3>2 DEF CallInv, CallingOK, Grows
    <3>. QED
      BY <1>2, <2>2, <3>3, Frame DEF Commit
  <2>. QED
    BY <2>1, <2>2
<1>. QED
  BY <1>1, <1>2, <1>4, <1>5, Frame DEF CallInv, Commit, clientVars

LEMMA KillInv ==
    ASSUME CallInv, NEW u \in User, Kill(u)
    PROVE  CallInv'
<1>1. TypeOK'
  BY KillType DEF CallInv
<1>2. faults' > 0
  BY DEF CallInv, TypeOK, Kill
<1>3. Grows
  BY <1>2 DEF Grows, Kill
<1>4. \A v \in User \ {u} :
          /\ dial'[v] = dial[v]
          /\ page'[v] = page[v]
          /\ session'[v] = session[v]
          /\ ending'[v] = ending[v]
  BY DEF CallInv, TypeOK, Kill
<1>5. /\ dial'[u] = NotDialling
      /\ page'[u] = Home
      /\ \A c \in CallId : session'[u][c] = "none" /\ ending'[u][c] = "no"
  BY DEF CallInv, TypeOK, Kill
<1>6. DialOK' /\ PageOK'
  BY <1>3, <1>4, <1>5 DEF CallInv, DialOK, PageOK, Grows
<1>7. SessionOK'
  BY <1>3, <1>4, <1>5, ReasonGrows DEF CallInv, SessionOK, Grows
<1>8. PeersOK'
  BY <1>2 DEF PeersOK, Broken
<1>9. EndingOK'
  BY <1>3, <1>4, <1>5, ReasonGrows DEF CallInv, EndingOK, Grows
<1>. QED
  BY <1>1, <1>3, <1>6, <1>7, <1>8, <1>9, Frame DEF CallInv, Kill

LEMMA NextInv == CallInv /\ [Next]_vars => CallInv'
<1>. SUFFICES ASSUME CallInv, [Next]_vars
              PROVE  CallInv'
  OBVIOUS
<1>1. ASSUME NEW u \in User, NEW c \in CallId, CallStep(u, c)
      PROVE  CallInv'
  BY <1>1, DialInv, AcceptInv, RejectInv, CreateEngineInv, JoinChannelInv,
     UserJoinedInv, UserOfflineInv, LeaveChannelInv, ReleaseEngineInv,
     HangUpInv, EndCallAtCallerInv, EndCallAtReceiverInv, EndCallThrowsInv
  DEF CallStep
<1>2. ASSUME NEW u \in User, DeviceStep(u)
      PROVE  CallInv'
  BY <1>2, AddCallerDocInv, AddReceiverDocInv, CommitInv, KillInv
  DEF DeviceStep
<1>3. CASE UNCHANGED vars
  <2>1. Grows
    BY <1>3 DEF Grows, vars
  <2>2. TypeOK'
    BY <1>3, NextType DEF CallInv
  <2>. QED
    BY <1>3, <2>1, <2>2, Frame DEF CallInv, vars, clientVars
<1>. QED
  BY <1>1, <1>2, <1>3 DEF Next

-----------------------------------------------------------------------------
(* What follows.                                                           *)

\* Every status and deletion under way is accounted for by a tap of a party.
THEOREM CallInvariant == Spec => []CallInv
  BY InitInv, NextInv, PTL DEF Spec

\* A call list never says rejected of a call its receiver did not reject,
\* though either client may write the entry (endCall and onCallEnd).
THEOREM RejectionIsReceivers == Spec => []RejectedByReceiver
<1>1. CallInv => RejectedByReceiver
  BY DEF CallInv, HistoryOK, Justified, Rejected, RejectedByReceiver
<1>. QED
  BY <1>1, CallInvariant, PTL

\* pickedUp, which the caller's onUserJoined writes without knowing who
\* joined, stands for an accepted call when no other call was placed.
THEOREM PickUpIsAnswerOrCrossing == Spec => []AnsweredOrCrossed
<1>1. CallInv => AnsweredOrCrossed
  BY DEF CallInv, HistoryOK, Justified, Accepted, AnsweredOrCrossed
<1>. QED
  BY <1>1, CallInvariant, PTL

\* ended, which three handlers of either client write, has a hang-up, a fault
\* or another call in the channel behind it.
THEOREM EndIsCaused == Spec => []EndedHasCause
<1>1. CallInv => EndedHasCause
  BY DEF CallInv, HistoryOK, Justified, Broken, HungUp, EndedHasCause
<1>. QED
  BY <1>1, CallInvariant, PTL

\* Whatever the backend removes from a calling collection, a call with the
\* same caller or receiver was hung up or rejected before: endCall takes the
\* first document of that party.
THEOREM RemovalIsOnBehalf == Spec => DocsRemovedOnBehalf
<1>. DEFINE Removed == \A u \in User : \A d \in calling[u] \ calling'[u] :
                           RemovedOnBehalf(u, d)
<1>1. CallInv /\ Next => Removed
  <2>. SUFFICES ASSUME CallInv, Next
                PROVE  Removed
    OBVIOUS
  <2>1. ASSUME NEW v \in User, NEW c, AddDoc(v, c)
        PROVE  Removed
    BY <2>1 DEF AddDoc, CallInv, TypeOK
  <2>2. ASSUME NEW v \in User, Commit(v)
        PROVE  Removed
    <3>. DEFINE w == Head(outbox[v])
    <3>1. w \in Write /\ JustifiedWrite(w)
      BY <2>2, OldestJustified DEF Commit
    <3>2. CASE w.kind = "status"
      BY <2>2, <3>2 DEF Commit
    <3>3. CASE w.kind # "status"
      <4>1. calling' = [calling EXCEPT ![w.owner] = @ \ {w.doc}]
        BY <2>2, <3>3 DEF Commit
      <4>2. RemovedOnBehalf(w.owner, w.doc)
        BY <3>1, <3>3 DEF JustifiedWrite
      <4>3. \A u \in User : \A d \in calling[u] \ calling'[u] :
                u = w.owner /\ d = w.doc
        BY <4>1 DEF CallInv, TypeOK
      <4>. QED
        BY <4>2, <4>3
    <3>. QED
      BY <3>2, <3>3
  <2>3. CASE UNCHANGED calling
    BY <2>3
  <2>4. ASSUME NEW u \in User, AddReceiverDoc(u)
        PROVE  Removed
    <3>1. Receiver[dial[u].call] \in User
      <4>1. dial[u] \in DialStep
        BY <2>4 DEF AddReceiverDoc, CallInv, TypeOK, NotDialling
      <4>. QED
        BY <4>1, CallAssumption DEF DialStep
    <3>. QED
      BY <2>1, <2>4, <3>1 DEF AddReceiverDoc
  <2>5. ASSUME NEW u \in User, DeviceStep(u)
        PROVE  Removed
    BY <2>1, <2>2, <2>3, <2>4, <2>5 DEF DeviceStep, AddCallerDoc, Kill
  <2>6. ASSUME NEW u \in User, NEW c \in CallId, CallStep(u, c)
        PROVE  UNCHANGED calling
    BY <2>6 DEF CallStep, Dial, Accept, Reject, CreateEngine, JoinChannel,
       UserJoined, UserOffline, LeaveChannel, ReleaseEngine, HangUp,
       EndCallAtCaller, EndCallAtReceiver, EndCallThrows, Finish
  <2>. QED
    BY <2>3, <2>5, <2>6 DEF Next
<1>2. CallInv /\ [Next]_vars => [Removed]_vars
  BY <1>1
<1>. QED
  BY <1>2, CallInvariant, PTL DEF Spec, DocsRemovedOnBehalf
=============================================================================
