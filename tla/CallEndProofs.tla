---------------------------- MODULE CallEndProofs ----------------------------
(***************************************************************************)
(* What the clients of CallSignalling leave behind when a call has ended:  *)
(* the time it was picked up at, its last status in both call lists and    *)
(* its calling documents.  The invariants are those of CallInvariant.      *)
(***************************************************************************)
EXTENDS CallProofs

-----------------------------------------------------------------------------
(* The writes a step issues.                                               *)

\* A step that commits nothing keeps what is in flight.
Extended ==
    \A v \in User :
        /\ outbox[v] \in Seq(Write) /\ outbox'[v] \in Seq(Write)
        /\ Len(outbox[v]) <= Len(outbox'[v])
        /\ \A i \in DOMAIN outbox[v] : outbox'[v][i] = outbox[v][i]

\* Place i of v's outbox is filled by this step.
New(v, i) == i \in DOMAIN outbox'[v] /\ i \notin DOMAIN outbox[v]

LEMMA QuietExtends ==
    ASSUME TypeOK, UNCHANGED outbox
    PROVE  Extended /\ \A v \in User : \A i : ~New(v, i)
  BY DEF Extended, New, TypeOK

LEMMA IssueExtends ==
    ASSUME TypeOK, NEW u \in User, NEW writes \in Seq(Write), Issue(u, writes)
    PROVE  /\ Extended
           /\ \A v \in User : \A i : New(v, i) =>
                  v = u /\ \E k \in DOMAIN writes : outbox'[v][i] = writes[k]
           /\ \A k \in DOMAIN writes :
                  /\ New(u, Len(outbox[u]) + k)
                  /\ outbox'[u][Len(outbox[u]) + k] = writes[k]
           /\ Len(outbox'[u]) = Len(outbox[u]) + Len(writes)
<1>1. outbox \in [User -> Seq(Write)]
  BY DEF TypeOK
<1>2. outbox' = [outbox EXCEPT ![u] = outbox[u] \o writes]
  BY DEF Issue
<1> DEFINE old == outbox[u]
           both == old \o writes
<1>3. old \in Seq(Write) /\ outbox'[u] = both
  BY <1>1, <1>2
<1>4. \A v \in User \ {u} : outbox'[v] = outbox[v]
  BY <1>1, <1>2
<1> HIDE DEF old
<1>5. /\ both \in Seq(Write)
      /\ Len(both) = Len(old) + Len(writes)
      /\ \A i \in 1 .. Len(old) : both[i] = old[i]
      /\ \A i \in 1 .. Len(both) : i > Len(old) =>
             i - Len(old) \in DOMAIN writes /\ both[i] = writes[i - Len(old)]
      /\ \A k \in DOMAIN writes :
             Len(old) + k \in 1 .. Len(both) /\ both[Len(old) + k] = writes[k]
  BY <1>3
<1> HIDE DEF both
<1>6. DOMAIN both = 1 .. Len(both) /\ DOMAIN old = 1 .. Len(old)
      /\ Len(old) \in Nat /\ Len(writes) \in Nat
  BY <1>3, <1>5
<1>7. Extended
  <2>1. ASSUME NEW v \in User \ {u}
        PROVE  /\ outbox'[v] = outbox[v] /\ outbox[v] \in Seq(Write)
               /\ Len(outbox[v]) <= Len(outbox'[v])
    <3>1. outbox'[v] = outbox[v] /\ outbox[v] \in Seq(Write)
      BY <1>1, <1>4
    <3> QED
      BY <3>1
  <2>2. /\ outbox[u] \in Seq(Write) /\ outbox'[u] \in Seq(Write)
        /\ Len(outbox[u]) <= Len(outbox'[u])
        /\ \A i \in DOMAIN outbox[u] : outbox'[u][i] = outbox[u][i]
    <3>1. outbox[u] = old /\ outbox'[u] = both
      BY <1>3 DEF old
    <3>2. Len(old) <= Len(both)
      BY <1>5, <1>6
    <3> QED
      BY <1>3, <1>5, <1>6, <3>1, <3>2
  <2> QED
    BY <2>1, <2>2 DEF Extended
<1>8. ASSUME NEW v \in User, NEW i, New(v, i)
      PROVE  v = u /\ \E k \in DOMAIN writes : outbox'[v][i] = writes[k]
  <2>1. v = u
    BY <1>4, <1>8 DEF New
  <2>2. i \in 1 .. Len(both) /\ i > Len(old)
    BY <1>3, <1>6, <1>8, <2>1 DEF New, old
  <2> QED
    BY <1>3, <1>5, <2>1, <2>2
<1>9. ASSUME NEW k \in DOMAIN writes
      PROVE  New(u, Len(old) + k) /\ outbox'[u][Len(old) + k] = writes[k]
  <2>1. Len(old) + k \notin 1 .. Len(old)
    BY <1>6
  <2> QED
    BY <1>3, <1>5, <1>6, <2>1 DEF New, old
<1> QED
  BY <1>3, <1>5, <1>7, <1>8, <1>9 DEF old

-----------------------------------------------------------------------------
(* The time a call was picked up at.                                       *)

LEMMA InitStart == Init => StartInv
<1> SUFFICES ASSUME Init
             PROVE  StartInv
  OBVIOUS
<1>1. CallInv
  BY InitInv
<1>2. \A v \in User : outbox[v] = <<>> /\ \A c \in CallId : ~history[v][c].started
  BY DEF Init
<1> QED
  BY <1>1, <1>2 DEF StartInv, UnjoinedOK, StartsOK, ClearsOK

\* A step that only adds writes: what starts a call comes from its caller once
\* it has joined, what clears the start from a rejection or before.
LEMMA StartStep ==
    ASSUME StartInv, CallInv', Extended, UNCHANGED history,
           \A c \in CallId : Rejected(c) => Rejected(c)',
           \A c \in CallId : Unjoined(c)' => Unjoined(c),
           \A v \in User, c \in CallId : \A i :
               New(v, i) /\ Starts(outbox'[v][i], c)
                   => v = Caller[c] /\ ~Unjoined(c)',
           \A v \in User, c \in Video : \A i :
               New(v, i) /\ Clears(outbox'[v][i], c)
                   => \/ Rejected(c)'
                      \/ /\ v = Caller[c] /\ Unjoined(c)
                         /\ \A j : New(v, j) => ~Starts(outbox'[v][j], c)
    PROVE  StartInv'
<1>1. UnjoinedOK'
  <2> SUFFICES ASSUME NEW c \in CallId, Unjoined(c)', NEW v \in User
               PROVE  /\ ~history'[v][c].started
                      /\ \A i \in DOMAIN outbox'[v] : ~Starts(outbox'[v][i], c)
    BY DEF UnjoinedOK
  <2>1. Unjoined(c)
    OBVIOUS
  <2>2. /\ ~history[v][c].started
        /\ \A i \in DOMAIN outbox[v] : ~Starts(outbox[v][i], c)
    BY <2>1 DEF StartInv, UnjoinedOK
  <2>3. ASSUME NEW i \in DOMAIN outbox'[v]
        PROVE  ~Starts(outbox'[v][i], c)
    BY <2>2 DEF Extended, New
  <2> QED
    BY <2>2, <2>3
<1>2. StartsOK'
  <2> SUFFICES ASSUME NEW c \in CallId, NEW u \in User, NEW i \in DOMAIN outbox'[u],
                      Starts(outbox'[u][i], c)
               PROVE  u = Caller[c]
    BY DEF StartsOK
  <2> QED
    BY DEF StartInv, StartsOK, Extended, New
<1>3. ClearsOK'
  <2> SUFFICES ASSUME NEW c \in Video, NEW u \in User, NEW i \in DOMAIN outbox'[u],
                      Clears(outbox'[u][i], c), ~Rejected(c)'
               PROVE  /\ u = Caller[c]
                      /\ \A v \in User : ~history'[v][c].started
                      /\ \A j \in DOMAIN outbox'[u] :
                             j < i => ~Starts(outbox'[u][j], c)
    BY DEF ClearsOK
  <2>1. c \in CallId
    BY CallAssumption
  <2>2. CASE i \in DOMAIN outbox[u]
    <3>1. outbox'[u][i] = outbox[u][i] /\ ~Rejected(c)
      BY <2>1, <2>2 DEF Extended
    <3>2. /\ u = Caller[c]
          /\ \A v \in User : ~history[v][c].started
          /\ \A j \in DOMAIN outbox[u] : j < i => ~Starts(outbox[u][j], c)
      BY <2>2, <3>1 DEF StartInv, ClearsOK
    <3>3. ASSUME NEW j \in DOMAIN outbox'[u], j < i
          PROVE  j \in DOMAIN outbox[u]
      BY <2>2, <3>3 DEF Extended
    <3> QED
      BY <3>2, <3>3 DEF Extended
  <2>3. CASE New(u, i)
    <3>1. /\ u = Caller[c] /\ Unjoined(c)
          /\ \A j : New(u, j) => ~Starts(outbox'[u][j], c)
      BY <2>3
    <3>2. \A v \in User :
              /\ ~history[v][c].started
              /\ \A j \in DOMAIN outbox[v] : ~Starts(outbox[v][j], c)
      BY <2>1, <3>1 DEF StartInv, UnjoinedOK
    <3> QED
      BY <3>1, <3>2 DEF Extended, New
  <2> QED
    BY <2>2, <2>3 DEF New
<1> QED
  BY <1>1, <1>2, <1>3 DEF StartInv

LEMMA DeedsStay ==
    ASSUME Next
    PROVE  deed \subseteq deed'
<1>1. ASSUME NEW u \in User, NEW c \in CallId, CallStep(u, c)
      PROVE  deed \subseteq deed'
  BY <1>1 DEF CallStep, Dial, Accept, Reject, CreateEngine, JoinChannel, UserJoined,
     UserOffline, LeaveChannel, ReleaseEngine, HangUp, EndCallAtCaller,
     EndCallAtReceiver, EndCallThrows, Finish
<1>2. ASSUME NEW u \in User, DeviceStep(u)
      PROVE  deed \subseteq deed'
  BY <1>2 DEF DeviceStep, AddCallerDoc, AddReceiverDoc, Commit, Kill
<1> QED
  BY <1>1, <1>2 DEF Next

LEMMA LeaveEnds ==
    ASSUME TypeOK, NEW u \in User, NEW c \in CallId, Leave(u, c)
    PROVE  \A v \in User, d \in CallId :
               \/ session'[v][d] = session[v][d]
               \/ v = u /\ d = c /\ session'[v][d] \in {"leaving", "left"}
  BY DEF Leave, TypeOK

\* A call is dialled once and the caller's page opened once, so a caller that
\* has joined, left or been killed never joins the call again.
LEMMA JoinsOnce ==
    ASSUME CallInv, Next, NEW c \in CallId, Unjoined(c)'
    PROVE  Unjoined(c)
<1>1. TypeOK /\ DialOK
  BY DEF CallInv
<1>2. Caller[c] \in User
  BY CallAssumption
<1>3. CASE placed' = placed /\ dial' = dial /\ session' = session
  BY <1>3 DEF Unjoined
<1>4. ASSUME NEW u \in User, NEW d \in CallId, Dial(u, d)
      PROVE  Unjoined(c)
  BY <1>1, <1>2, <1>4 DEF Dial, Unjoined, TypeOK
<1>5. ASSUME NEW u \in User, AddCallerDoc(u)
      PROVE  Unjoined(c)
  <2>1. dial[u] \in DialStep
    BY <1>1, <1>5 DEF AddCallerDoc, TypeOK, NotDialling
  <2>2. dial'[u].call = dial[u].call /\ dial[u] # NotDialling
    BY <1>1, <1>5, <2>1 DEF AddCallerDoc, TypeOK, DialStep, NotDialling
  <2>3. \A v \in User \ {u} : dial'[v] = dial[v]
    BY <1>1, <1>5 DEF AddCallerDoc, TypeOK
  <2> QED
    BY <1>2, <1>5, <2>2, <2>3 DEF AddCallerDoc, Unjoined
<1>6. ASSUME NEW u \in User, AddReceiverDoc(u)
      PROVE  Unjoined(c)
  <2>1. dial[u] # NotDialling
    BY <1>6 DEF AddReceiverDoc, NotDialling
  <2>2. \A v \in User, d \in CallId :
            session'[v][d] = session[v][d] \/ (v = u /\ d = dial[u].call)
    BY <1>1, <1>6 DEF AddReceiverDoc, TypeOK
  <2>3. \A v \in User : dial'[v] = dial[v] \/ dial'[v] = NotDialling
    BY <1>1, <1>6 DEF AddReceiverDoc, TypeOK
  <2> QED
    BY <1>2, <1>6, <2>1, <2>2, <2>3 DEF AddReceiverDoc, Unjoined
<1>7. ASSUME NEW u \in User, NEW d \in CallId, Accept(u, d)
      PROVE  Unjoined(c)
  <2>1. u = Receiver[d] /\ u # Caller[d]
    BY <1>7, RingIsReceivers, CallAssumption DEF Accept
  <2>2. \A v \in User, e \in CallId :
            session'[v][e] = session[v][e] \/ (v = u /\ e = d)
    BY <1>1, <1>7 DEF Accept, TypeOK
  <2> QED
    BY <1>2, <1>7, <2>1, <2>2 DEF Accept, Unjoined
<1>8. ASSUME NEW u \in User, NEW d \in CallId,
             CreateEngine(u, d) \/ JoinChannel(u, d) \/ LeaveChannel(u, d)
                 \/ ReleaseEngine(u, d)
      PROVE  Unjoined(c)
  <2>1. placed' = placed /\ dial' = dial
    BY <1>8 DEF CreateEngine, JoinChannel, LeaveChannel, ReleaseEngine
  <2>2. \A v \in User, e \in CallId :
            session'[v][e] \in {"asking", "starting"}
                => session[v][e] \in {"asking", "starting"}
    <3>1. PICK s \in {"starting", "joined", "left"} :
              /\ session' = [session EXCEPT ![u][d] = s]
              /\ s = "starting" => session[u][d] = "asking"
      BY <1>8 DEF CreateEngine, JoinChannel, LeaveChannel, ReleaseEngine
    <3> QED
      BY <1>1, <3>1 DEF TypeOK
  <2> QED
    BY <1>2, <2>1, <2>2 DEF Unjoined
<1>9. ASSUME NEW u \in User, NEW d \in CallId,
             HangUp(u, d) \/ EndCallAtReceiver(u, d) \/ EndCallThrows(u, d)
      PROVE  Unjoined(c)
  <2>1. placed' = placed /\ dial' = dial
    BY <1>9 DEF HangUp, EndCallAtReceiver, EndCallThrows, Finish
  <2>2. session' = session \/ Leave(u, d)
    <3>1. ASSUME NEW deletion, Finish(u, d, deletion)
          PROVE  session' = session \/ Leave(u, d)
      BY <3>1 DEF Finish
    <3>2. HangUp(u, d) => session' = session \/ Leave(u, d)
      BY DEF HangUp
    <3> QED
      BY <1>9, <3>1, <3>2 DEF EndCallAtReceiver, EndCallThrows
  <2>3. \A v \in User, e \in CallId :
            session'[v][e] \in {"asking", "starting"} => session'[v][e] = session[v][e]
    BY <1>1, <2>2, LeaveEnds
  <2> QED
    BY <1>2, <2>1, <2>3 DEF Unjoined
<1>10. ASSUME NEW u \in User, Kill(u)
       PROVE  Unjoined(c)
  BY <1>1, <1>2, <1>10 DEF Kill, Unjoined, TypeOK
<1>11. ASSUME NEW u \in User, NEW d \in CallId, CallStep(u, d)
       PROVE  Unjoined(c)
  BY <1>3, <1>4, <1>7, <1>8, <1>9, <1>11 DEF CallStep, Reject, UserJoined,
     UserOffline, EndCallAtCaller
<1>12. ASSUME NEW u \in User, DeviceStep(u)
       PROVE  Unjoined(c)
  BY <1>3, <1>5, <1>6, <1>10, <1>12 DEF DeviceStep, Commit, clientVars
<1> QED
  BY <1>11, <1>12 DEF Next

\* A step that issues nothing and commits nothing.
LEMMA QuietStart ==
    ASSUME StartInv, CallInv', Next, UNCHANGED <<history, outbox>>
    PROVE  StartInv'
<1>1. Extended /\ \A v \in User : \A i : ~New(v, i)
  BY QuietExtends DEF StartInv, CallInv
<1>2. \A c \in CallId : Rejected(c) => Rejected(c)'
  BY DeedsStay DEF Rejected
<1>3. \A c \in CallId : Unjoined(c)' => Unjoined(c)
  BY JoinsOnce DEF StartInv
<1> QED
  BY <1>1, <1>2, <1>3, StartStep

\* A step that issues writes, none of which starts or clears a video call but
\* the one for a rejection.
LEMMA EndingStart ==
    ASSUME StartInv, CallInv', Next, UNCHANGED history,
           NEW u \in User, NEW writes \in Seq(Write), Issue(u, writes),
           \A k \in DOMAIN writes : \A c \in CallId : ~Starts(writes[k], c),
           \A k \in DOMAIN writes : \A c \in Video :
               Clears(writes[k], c) => Rejected(c)
    PROVE  StartInv'
<1>1. /\ Extended
      /\ \A v \in User : \A i : New(v, i) =>
             v = u /\ \E k \in DOMAIN writes : outbox'[v][i] = writes[k]
  BY IssueExtends DEF StartInv, CallInv
<1>2. \A c \in CallId : Rejected(c) => Rejected(c)'
  BY DeedsStay DEF Rejected
<1>3. \A c \in CallId : Unjoined(c)' => Unjoined(c)
  BY JoinsOnce DEF StartInv
<1>4. Video \subseteq CallId
  BY CallAssumption
<1> QED
  BY <1>1, <1>2, <1>3, <1>4, StartStep

\* What a report says of the start of calls.
LEMMA ReportStarts ==
    ASSUME NEW d \in CallId, NEW s, NEW r, NEW t, NEW c \in CallId,
           NEW k \in DOMAIN Report(d, s, r, t)
    PROVE  /\ Starts(Report(d, s, r, t)[k], c) <=> c = d /\ t = "now"
           /\ Clears(Report(d, s, r, t)[k], c) <=> c = d /\ t = "null"
<1> DEFINE q == Report(d, s, r, t)
<1>1. k \in {1, 2} /\ q[k].kind = "status" /\ q[k].call = d /\ q[k].started = t
  BY DEF Report, SetStatus
<1> HIDE DEF q
<1> QED
  BY <1>1 DEF q, Starts, Clears

LEMMA JoinChannelStart ==
    ASSUME StartInv, CallInv', Next, NEW u \in User, NEW d \in CallId, JoinChannel(u, d)
    PROVE  StartInv'
<1>1. CASE ~IsCaller(u, d)
  BY <1>1, QuietStart DEF JoinChannel
<1>2. CASE IsCaller(u, d)
  <2> DEFINE q == Report(d, "calling", "missedCall", "null")
  <2>1. q \in Seq(Write) /\ Issue(u, q)
    BY <1>2, ReportIsWrites DEF JoinChannel, Status
  <2>2. \A k \in DOMAIN q : \A c \in CallId :
            ~Starts(q[k], c) /\ (Clears(q[k], c) => c = d)
    BY ReportStarts
  <2> HIDE DEF q
  <2>3. /\ Extended
        /\ \A v \in User : \A i : New(v, i) =>
               v = u /\ \E k \in DOMAIN q : outbox'[v][i] = q[k]
    BY <2>1, IssueExtends DEF StartInv, CallInv
  <2>4. u = Caller[d] /\ Unjoined(d) /\ UNCHANGED history
    BY <1>2 DEF JoinChannel, IsCaller, Unjoined
  <2>5. \A c \in CallId : Rejected(c) => Rejected(c)'
    BY DeedsStay DEF Rejected
  <2>6. \A c \in CallId : Unjoined(c)' => Unjoined(c)
    BY JoinsOnce DEF StartInv
  <2>7. Video \subseteq CallId
    BY CallAssumption
  <2>8. \A v \in User, c \in CallId : \A i : New(v, i) => ~Starts(outbox'[v][i], c)
    BY <2>2, <2>3
  <2>9. \A v \in User, c \in Video : \A i :
            New(v, i) /\ Clears(outbox'[v][i], c) => v = Caller[c] /\ Unjoined(c)
    BY <2>2, <2>3, <2>4, <2>7
  <2> QED
    BY <2>3, <2>4, <2>5, <2>6, <2>7, <2>8, <2>9, StartStep
<1> QED
  BY <1>1, <1>2

LEMMA UserJoinedStart ==
    ASSUME StartInv, CallInv', Next, NEW u \in User, NEW d \in CallId, NEW p \in User,
           UserJoined(u, d, p)
    PROVE  StartInv'
<1>1. CASE ~IsCaller(u, d)
  BY <1>1, QuietStart DEF UserJoined
<1>2. CASE IsCaller(u, d)
  <2> DEFINE q == Report(d, "pickedUp", "pickedUp", "now")
  <2>1. q \in Seq(Write) /\ Issue(u, q)
    BY <1>2, ReportIsWrites DEF UserJoined, Status
  <2>2. \A k \in DOMAIN q : \A c \in CallId :
            ~Clears(q[k], c) /\ (Starts(q[k], c) => c = d)
    BY ReportStarts
  <2> HIDE DEF q
  <2>3. /\ Extended
        /\ \A v \in User : \A i : New(v, i) =>
               v = u /\ \E k \in DOMAIN q : outbox'[v][i] = q[k]
    BY <2>1, IssueExtends DEF StartInv, CallInv
  <2>4. u = Caller[d] /\ UNCHANGED history
    BY <1>2 DEF UserJoined, IsCaller
  <2>5. ~Unjoined(d)'
    <3>1. session[u][d] = "joined" /\ UNCHANGED <<placed, dial, session>>
      BY DEF UserJoined
    <3>2. d \in placed /\ (dial[u] # NotDialling => dial[u].call # d)
      BY <3>1 DEF StartInv, CallInv, SessionOK, DialOK
    <3> QED
      BY <2>4, <3>1, <3>2 DEF Unjoined
  <2>6. \A c \in CallId : Rejected(c) => Rejected(c)'
    BY DeedsStay DEF Rejected
  <2>7. \A c \in CallId : Unjoined(c)' => Unjoined(c)
    BY JoinsOnce DEF StartInv
  <2>8. Video \subseteq CallId
    BY CallAssumption
  <2>9. \A v \in User, c \in CallId : \A i :
            /\ New(v, i) => ~Clears(outbox'[v][i], c)
            /\ New(v, i) /\ Starts(outbox'[v][i], c) => v = Caller[c] /\ ~Unjoined(c)'
    BY <2>2, <2>3, <2>4, <2>5
  <2> QED
    BY <2>3, <2>4, <2>6, <2>7, <2>8, <2>9, StartStep
<1> QED
  BY <1>1, <1>2

LEMMA EndedStart ==
    ASSUME StartInv, CallInv', Next, UNCHANGED history, NEW u \in User, NEW d \in CallId,
           Issue(u, Report(d, "ended", "ended", "keep"))
    PROVE  StartInv'
<1> DEFINE q == Report(d, "ended", "ended", "keep")
<1>1. q \in Seq(Write) /\ Issue(u, q)
  BY ReportIsWrites DEF Status
<1>2. \A k \in DOMAIN q : \A c \in CallId : ~Starts(q[k], c) /\ ~Clears(q[k], c)
  BY ReportStarts
<1>3. Video \subseteq CallId
  BY CallAssumption
<1> HIDE DEF q
<1> QED
  BY <1>1, <1>2, <1>3, EndingStart

LEMMA DeletionsStart ==
    ASSUME NEW v \in User, NEW S \in SUBSET Doc, NEW w \in Deletions(v, S)
    PROVE  \A k \in DOMAIN w : \A c \in CallId : ~Starts(w[k], c) /\ ~Clears(w[k], c)
<1>1. /\ w \in Seq(Write)
      /\ \A k \in 1 .. Len(w) : \E e \in S :
             w[k] = [kind |-> "delete", owner |-> v, doc |-> e]
  BY DeletionsAreWrites
<1>2. ASSUME NEW k \in 1 .. Len(w)
      PROVE  w[k].kind = "delete"
  <2>1. PICK e \in S : w[k] = [kind |-> "delete", owner |-> v, doc |-> e]
    BY <1>1
  <2> QED
    BY <2>1
<1>3. DOMAIN w = 1 .. Len(w)
  BY <1>1
<1> QED
  BY <1>2, <1>3 DEF Starts, Clears

\* The documents endCall looks at.
LEMMA FoundDocs ==
    ASSUME TypeOK, NEW u \in User, NEW c \in CallId
    PROVE  /\ Caller[c] \in User /\ DialledBy(u, c) \in SUBSET Doc
           /\ Receiver[c] \in User /\ ReceivedBy(u, c) \in SUBSET Doc
           /\ LastReport(u, c) \in Seq(Write)
<1>1. Caller[c] \in User /\ Receiver[c] \in User
  BY CallAssumption
<1>2. DialledBy(u, c) \in SUBSET Doc /\ ReceivedBy(u, c) \in SUBSET Doc
  BY <1>1 DEF DialledBy, ReceivedBy, View, TypeOK
<1>3. LastReport(u, c) \in Seq(Write)
  BY ReportIsWrites DEF LastReport, Status
<1> QED
  BY <1>1, <1>2, <1>3

LEMMA EndCallAtCallerStart ==
    ASSUME StartInv, CallInv', Next, NEW u \in User, NEW d \in CallId,
           EndCallAtCaller(u, d)
    PROVE  StartInv'
<1>1. PICK w \in Deletions(Caller[d], DialledBy(u, d)) : Issue(u, w)
  BY DEF EndCallAtCaller
<1>2. /\ w \in Seq(Write)
      /\ \A k \in DOMAIN w : \A c \in CallId : ~Starts(w[k], c) /\ ~Clears(w[k], c)
  BY FoundDocs, DeletionsAreWrites, DeletionsStart DEF StartInv, CallInv
<1>3. Video \subseteq CallId /\ UNCHANGED history
  BY CallAssumption DEF EndCallAtCaller
<1> QED
  BY <1>1, <1>2, <1>3, EndingStart

LEMMA FinishStart ==
    ASSUME StartInv, CallInv', Next, NEW u \in User, NEW d \in CallId,
           NEW w \in Seq(Write), Finish(u, d, w), ending[u][d] # "no",
           \A k \in DOMAIN w : \A c \in CallId : ~Starts(w[k], c) /\ ~Clears(w[k], c)
    PROVE  StartInv'
<1> DEFINE q == LastReport(u, d)
<1>1. q \in Seq(Write) /\ Issue(u, w \o q) /\ UNCHANGED history
  BY FoundDocs DEF Finish, StartInv, CallInv
<1>2. \A k \in DOMAIN q : \A c \in CallId :
          ~Starts(q[k], c) /\ (c \in Video /\ Clears(q[k], c) => Rejected(c))
  <2>1. CASE Rejecting(u, d)
    <3>1. q = Report(d, "rejected", "rejected", "null")
      BY <2>1 DEF LastReport
    <3>2. Rejected(d)
      BY <2>1 DEF Rejecting, StartInv, CallInv, EndingOK
    <3> QED
      BY <3>1, <3>2, ReportStarts
  <2>2. CASE ~Rejecting(u, d) /\ d \in Video
    BY <2>2, ReportStarts DEF LastReport
  <2>3. CASE ~Rejecting(u, d) /\ d \notin Video
    BY <2>3, ReportStarts DEF LastReport
  <2> QED
    BY <2>1, <2>2, <2>3
<1> HIDE DEF q
<1>3. w \o q \in Seq(Write)
  BY <1>1
<1>4. \A k \in DOMAIN (w \o q) :
          \/ k \in DOMAIN w /\ (w \o q)[k] = w[k]
          \/ k - Len(w) \in DOMAIN q /\ (w \o q)[k] = q[k - Len(w)]
  BY <1>1
<1>5. Video \subseteq CallId
  BY CallAssumption
<1> DEFINE both == w \o q
<1>6. \A k \in DOMAIN both : \A c \in CallId :
          ~Starts(both[k], c) /\ (c \in Video /\ Clears(both[k], c) => Rejected(c))
  BY <1>2, <1>4
<1> HIDE DEF both
<1> QED
  BY <1>1, <1>3, <1>5, <1>6, EndingStart DEF both

LEMMA EndCallStart ==
    ASSUME StartInv, CallInv', Next, NEW u \in User, NEW d \in CallId,
           EndCallAtReceiver(u, d) \/ EndCallThrows(u, d)
    PROVE  StartInv'
<1>1. ending[u][d] # "no"
  BY DEF EndCallAtReceiver, EndCallThrows
<1>2. CASE EndCallThrows(u, d)
  <2>1. <<>> \in Seq(Write) /\ DOMAIN <<>> = {}
    OBVIOUS
  <2>2. Finish(u, d, <<>>)
    BY <1>2 DEF EndCallThrows
  <2> QED
    BY <1>1, <2>1, <2>2, FinishStart
<1>3. CASE EndCallAtReceiver(u, d)
  <2>1. PICK w \in Deletions(Receiver[d], ReceivedBy(u, d)) : Finish(u, d, w)
    BY <1>3 DEF EndCallAtReceiver
  <2>2. /\ w \in Seq(Write)
        /\ \A k \in DOMAIN w : \A c \in CallId : ~Starts(w[k], c) /\ ~Clears(w[k], c)
    BY FoundDocs, DeletionsAreWrites, DeletionsStart DEF StartInv, CallInv
  <2> QED
    BY <1>1, <2>1, <2>2, FinishStart
<1> QED
  BY <1>2, <1>3

\* The oldest write of a device and what is left when it is committed.
LEMMA Committed ==
    ASSUME TypeOK, NEW u \in User, Commit(u)
    PROVE  /\ Head(outbox[u]) = outbox[u][1] /\ 1 \in DOMAIN outbox[u]
           /\ outbox[u][1] \in Write
           /\ \A i \in DOMAIN outbox'[u] :
                  i + 1 \in DOMAIN outbox[u] /\ outbox'[u][i] = outbox[u][i + 1]
           /\ \A i \in DOMAIN outbox[u] :
                  i # 1 => i - 1 \in DOMAIN outbox'[u] /\ outbox'[u][i - 1] = outbox[u][i]
           /\ \A v \in User \ {u} : outbox'[v] = outbox[v]
<1>1. outbox \in [User -> Seq(Write)] /\ outbox[u] # <<>>
  BY DEF TypeOK, Commit
<1>2. outbox' = [outbox EXCEPT ![u] = Tail(outbox[u])]
  BY DEF Commit
<1> DEFINE old == outbox[u]
           rest == outbox'[u]
<1>3. old \in Seq(Write) /\ old # <<>> /\ rest = Tail(old)
  BY <1>1, <1>2
<1>4. \A v \in User \ {u} : outbox'[v] = outbox[v]
  BY <1>1, <1>2
<1> HIDE DEF old, rest
<1>5. /\ Head(old) = old[1] /\ 1 \in DOMAIN old /\ old[1] \in Write
      /\ \A i \in DOMAIN rest : i + 1 \in DOMAIN old /\ rest[i] = old[i + 1]
      /\ \A i \in DOMAIN old :
             i # 1 => i - 1 \in DOMAIN rest /\ rest[i - 1] = old[i]
  BY <1>3
<1> QED
  BY <1>4, <1>5 DEF old, rest

\* What the committed write does to the history.
LEMMA CommittedStatus ==
    ASSUME TypeOK, NEW u \in User, Commit(u), NEW v \in User, NEW c \in CallId
    PROVE  LET w == outbox[u][1] IN
           IF IsFor(w, v, c) THEN history'[v][c] = Merge(history[v][c], w)
                             ELSE history'[v][c] = history[v][c]
<1>1. PICK w \in Write : w = outbox[u][1] /\ w = Head(outbox[u])
  BY Committed
<1>2. history \in [User -> [CallId -> Entry]]
  BY DEF TypeOK
<1>3. CASE w.kind = "status"
  <2>1. history' = [history EXCEPT ![w.owner][w.call] = Merge(@, w)]
    BY <1>1, <1>3 DEF Commit
  <2> QED
    BY <1>1, <1>2, <1>3, <2>1 DEF IsFor
<1>4. CASE w.kind # "status"
  <2>1. UNCHANGED history
    BY <1>1, <1>4 DEF Commit
  <2> QED
    BY <1>1, <1>4, <2>1 DEF IsFor
<1> QED
  BY <1>3, <1>4

LEMMA CommitStart ==
    ASSUME StartInv, CallInv', Next, NEW u \in User, Commit(u)
    PROVE  StartInv'
<1>1. TypeOK
  BY DEF StartInv, CallInv
<1>2. UNCHANGED <<placed, dial, session, deed>>
  BY DEF Commit, clientVars
<1>3. \A c \in CallId : /\ Unjoined(c)' <=> Unjoined(c)
                        /\ Rejected(c)' <=> Rejected(c)
  BY <1>2 DEF Unjoined, Rejected
<1>4. \A v \in User : \A i \in DOMAIN outbox'[v] :
          \/ v # u /\ i \in DOMAIN outbox[v] /\ outbox'[v][i] = outbox[v][i]
          \/ v = u /\ i + 1 \in DOMAIN outbox[v] /\ outbox'[v][i] = outbox[v][i + 1]
  BY <1>1, Committed
<1>5. ASSUME NEW v \in User, NEW c \in CallId, history'[v][c].started
      PROVE  history[v][c].started \/ Starts(outbox[u][1], c)
  <2>1. PICK w : w = outbox[u][1]
    OBVIOUS
  <2>2. CASE IsFor(w, v, c)
    <3>1. history'[v][c] = Merge(history[v][c], w)
      BY <1>1, <2>1, <2>2, CommittedStatus
    <3>2. w.started = "keep" => history'[v][c].started = history[v][c].started
      BY <3>1 DEF Merge
    <3>3. w.started # "keep" => history'[v][c].started = (w.started = "now")
      BY <3>1 DEF Merge
    <3> QED
      BY <1>5, <2>1, <2>2, <3>2, <3>3 DEF IsFor, Starts
  <2>3. CASE ~IsFor(w, v, c)
    BY <1>1, <1>5, <2>1, <2>3, CommittedStatus
  <2> QED
    BY <2>2, <2>3
<1>6. 1 \in DOMAIN outbox[u]
  BY <1>1, Committed
<1>7. UnjoinedOK'
  <2> SUFFICES ASSUME NEW c \in CallId, Unjoined(c)', NEW v \in User
               PROVE  /\ ~history'[v][c].started
                      /\ \A i \in DOMAIN outbox'[v] : ~Starts(outbox'[v][i], c)
    BY DEF UnjoinedOK
  <2>1. \A x \in User : /\ ~history[x][c].started
                        /\ \A i \in DOMAIN outbox[x] : ~Starts(outbox[x][i], c)
    BY <1>3 DEF StartInv, UnjoinedOK
  <2> QED
    BY <1>4, <1>5, <1>6, <2>1
<1>8. StartsOK'
  <2> SUFFICES ASSUME NEW c \in CallId, NEW x \in User, NEW i \in DOMAIN outbox'[x],
                      Starts(outbox'[x][i], c)
               PROVE  x = Caller[c]
    BY DEF StartsOK
  <2> QED
    BY <1>4 DEF StartInv, StartsOK
<1>9. ClearsOK'
  <2> SUFFICES ASSUME NEW c \in Video, NEW x \in User, NEW i \in DOMAIN outbox'[x],
                      Clears(outbox'[x][i], c), ~Rejected(c)'
               PROVE  /\ x = Caller[c]
                      /\ \A v \in User : ~history'[v][c].started
                      /\ \A j \in DOMAIN outbox'[x] :
                             j < i => ~Starts(outbox'[x][j], c)
    BY DEF ClearsOK
  <2>1. c \in CallId
    BY CallAssumption
  <2>2. PICK n \in DOMAIN outbox[x] :
            /\ outbox[x][n] = outbox'[x][i]
            /\ n = IF x = u THEN i + 1 ELSE i
    BY <1>4
  <2>3. /\ x = Caller[c]
        /\ \A v \in User : ~history[v][c].started
        /\ \A j \in DOMAIN outbox[x] : j < n => ~Starts(outbox[x][j], c)
    BY <1>3, <2>1, <2>2 DEF StartInv, ClearsOK
  <2>4. i \in Nat \ {0} /\ \A j \in DOMAIN outbox'[x] : j \in Nat
    <3>1. outbox'[x] \in Seq(Write)
      BY DEF CallInv, TypeOK
    <3> QED
      BY <3>1
  <2>5. \A j \in DOMAIN outbox'[x] : j < i => ~Starts(outbox'[x][j], c)
    BY <1>4, <2>2, <2>3, <2>4
  <2>6. ~Starts(outbox[u][1], c)
    <3>1. CASE x = u
      BY <1>6, <2>2, <2>3, <2>4, <3>1
    <3>2. CASE x # u
      BY <1>6, <2>1, <2>3, <3>2 DEF StartInv, StartsOK
    <3> QED
      BY <3>1, <3>2
  <2> QED
    BY <1>5, <2>1, <2>3, <2>5, <2>6
<1> QED
  BY <1>7, <1>8, <1>9 DEF StartInv

LEMMA StepStart == StartInv /\ [Next]_vars => StartInv'
<1> SUFFICES ASSUME StartInv, [Next]_vars
             PROVE  StartInv'
  OBVIOUS
<1>1. CallInv'
  BY NextInv DEF StartInv
<1>2. CASE UNCHANGED vars
  BY <1>1, <1>2 DEF vars, clientVars, StartInv, UnjoinedOK, StartsOK, ClearsOK,
     Unjoined, Rejected
<1>3. ASSUME NEW u \in User, NEW c \in CallId, CallStep(u, c), Next
      PROVE  StartInv'
  <2>1. CASE UNCHANGED <<history, outbox>>
    BY <1>1, <1>3, <2>1, QuietStart
  <2>2. ASSUME UNCHANGED history, Issue(u, Report(c, "ended", "ended", "keep"))
        PROVE  StartInv'
    BY <1>1, <1>3, <2>2, EndedStart
  <2>3. ASSUME NEW v \in User, UserOffline(u, c, v)
        PROVE  StartInv'
    BY <2>1, <2>2, <2>3 DEF UserOffline
  <2>4. CASE LeaveChannel(u, c)
    BY <2>1, <2>2, <2>4 DEF LeaveChannel
  <2>5. CASE Dial(u, c) \/ Accept(u, c) \/ Reject(u, c) \/ CreateEngine(u, c)
                 \/ ReleaseEngine(u, c) \/ HangUp(u, c)
    BY <2>1, <2>5 DEF Dial, Accept, Reject, CreateEngine, ReleaseEngine, HangUp
  <2> QED
    BY <1>1, <1>3, <2>3, <2>4, <2>5, JoinChannelStart, UserJoinedStart,
       EndCallAtCallerStart, EndCallStart DEF CallStep
<1>4. ASSUME NEW u \in User, DeviceStep(u), Next
      PROVE  StartInv'
  <2>1. CASE Commit(u)
    BY <1>1, <1>4, <2>1, CommitStart
  <2>2. CASE AddCallerDoc(u) \/ AddReceiverDoc(u) \/ Kill(u)
    <3>1. UNCHANGED <<history, outbox>>
      BY <2>2 DEF AddCallerDoc, AddReceiverDoc, Kill
    <3> QED
      BY <1>1, <1>4, <3>1, QuietStart
  <2> QED
    BY <1>4, <2>1, <2>2 DEF DeviceStep
<1> QED
  BY <1>2, <1>3, <1>4 DEF Next

(* A call list keeps the time a video call was picked up at: of the writes *)
(* that clear it the caller's report of joining comes before every pick-up *)
(* and the other is a rejection (_onJoinChannelSuccess and onCallEnd).     *)
THEOREM PickUpTimeStays == Spec => VideoKeepsStart
<1> DEFINE Kept == \A u \in User, c \in Video :
                       history[u][c].started /\ <<"reject", Receiver[c], c>> \notin deed
                           => history'[u][c].started
<1>1. Spec => []StartInv
  BY InitStart, StepStart, PTL DEF Spec
<1>2. StartInv /\ Next => Kept
  <2> SUFFICES ASSUME StartInv, Next, NEW u \in User, NEW c \in Video,
                      history[u][c].started, ~Rejected(c)
               PROVE  history'[u][c].started
    BY DEF Rejected
  <2>1. c \in CallId /\ TypeOK
    BY CallAssumption DEF StartInv, CallInv
  <2>2. CASE UNCHANGED history
    BY <2>2
  <2>3. ASSUME NEW v \in User, Commit(v)
        PROVE  history'[u][c].started
    <3>1. 1 \in DOMAIN outbox[v] /\ outbox[v][1] \in Write
      BY <2>1, <2>3, Committed
    <3>2. ~Clears(outbox[v][1], c)
      BY <3>1 DEF StartInv, ClearsOK
    <3>3. PICK w \in Write : w = outbox[v][1]
      BY <3>1
    <3>4. CASE IsFor(w, u, c)
      <4>1. w \in StatusWrite /\ w.started # "null"
        BY <3>2, <3>3, <3>4 DEF Clears, IsFor, Write, DeleteWrite
      <4>2. w.started \in {"keep", "now"}
        BY <4>1 DEF StatusWrite
      <4>3. history'[u][c] = Merge(history[u][c], w)
        BY <2>1, <2>3, <3>3, <3>4, CommittedStatus
      <4>4. Merge(history[u][c], w).started
        BY <4>2 DEF Merge
      <4> QED
        BY <4>3, <4>4
    <3>5. CASE ~IsFor(w, u, c)
      BY <2>1, <2>3, <3>3, <3>5, CommittedStatus
    <3> QED
      BY <3>4, <3>5
  <2>4. ASSUME NEW v \in User, DeviceStep(v)
        PROVE  history'[u][c].started
    BY <2>2, <2>3, <2>4 DEF DeviceStep, AddCallerDoc, AddReceiverDoc, Kill
  <2>5. ASSUME NEW v \in User, NEW d \in CallId, CallStep(v, d)
        PROVE  UNCHANGED history
    BY <2>5 DEF CallStep, Dial, Accept, Reject, CreateEngine, JoinChannel,
       UserJoined, UserOffline, LeaveChannel, ReleaseEngine, HangUp,
       EndCallAtCaller, EndCallAtReceiver, EndCallThrows, Finish
  <2> QED
    BY <2>2, <2>4, <2>5 DEF Next
<1>3. StartInv /\ [Next]_vars => [Kept]_vars
  BY <1>2
<1> QED
  BY <1>1, <1>3, PTL DEF Spec, VideoKeepsStart

-----------------------------------------------------------------------------
(* The last status of a call its caller hung up.                           *)

\* The status w reports of c says that it is over.
SaysOver(w, c) == \A v \in User : IsFor(w, v, c) => w.status \in Over

LEMMA InitOver == Init => OverInv
<1> SUFFICES ASSUME Init
             PROVE  OverInv
  OBVIOUS
<1>1. CallInv
  BY InitInv
<1>2. (\A u \in User : outbox[u] = <<>>) /\ deed = {}
  BY DEF Init
<1> QED
  BY <1>1, <1>2 DEF OverInv, ReceiverOK, Stopped

\* A caller that has hung up and whose engine has stopped reports nothing but
\* the end.
LEMMA LastingStays ==
    ASSUME Extended, UNCHANGED history, NEW c \in CallId, NEW v \in User,
           Lasting(v, c),
           \A i : New(Caller[c], i) => SaysOver(outbox'[Caller[c]][i], c)
    PROVE  Lasting(v, c)'
<1>1. Caller[c] \in User
  BY CallAssumption
<1> DEFINE p == Caller[c]
<1>2. \A i : OverFrom(i, v, c) => OverFrom(i, v, c)'
  <2> SUFFICES ASSUME NEW i, OverFrom(i, v, c), NEW j \in DOMAIN outbox'[p],
                      j >= i, IsFor(outbox'[p][j], v, c)
               PROVE  outbox'[p][j].status \in Over
    BY DEF OverFrom
  <2>1. CASE New(p, j)
    BY <2>1 DEF SaysOver
  <2>2. CASE j \in DOMAIN outbox[p]
    <3>1. outbox'[p][j] = outbox[p][j]
      BY <1>1, <2>2 DEF Extended
    <3> QED
      BY <2>2, <3>1 DEF OverFrom
  <2> QED
    BY <2>1, <2>2 DEF New
<1>3. CASE history[v][c].status \in Over /\ OverFrom(1, v, c)
  BY <1>2, <1>3 DEF Lasting
<1>4. CASE \E i \in DOMAIN outbox[p] : IsFor(outbox[p][i], v, c) /\ OverFrom(i, v, c)
  <2>1. PICK i \in DOMAIN outbox[p] : IsFor(outbox[p][i], v, c) /\ OverFrom(i, v, c)
    BY <1>4
  <2>2. i \in DOMAIN outbox'[p] /\ IsFor(outbox'[p][i], v, c)
    BY <1>1, <2>1 DEF Extended
  <2> QED
    BY <1>2, <2>1, <2>2 DEF Lasting
<1> QED
  BY <1>3, <1>4 DEF Lasting

\* A step that adds writes but commits none.
LEMMA OverStep ==
    ASSUME OverInv, CallInv', Extended, UNCHANGED history,
           faults' = 0 => faults = 0,
           \A v \in User, c \in CallId : \A i :
               New(v, i) /\ v # Caller[c] => SaysOver(outbox'[v][i], c),
           \A c \in CallId : Stopped(c)' /\ faults' = 0 =>
               \/ \A v \in Parties(c) : Lasting(v, c)'
               \/ /\ Stopped(c)
                  /\ \A i : New(Caller[c], i) => SaysOver(outbox'[Caller[c]][i], c)
    PROVE  OverInv'
<1>1. ReceiverOK'
  <2> SUFFICES ASSUME NEW c \in CallId, NEW u \in User, NEW v \in User,
                      NEW i \in DOMAIN outbox'[u], u # Caller[c],
                      IsFor(outbox'[u][i], v, c)
               PROVE  outbox'[u][i].status \in Over
    BY DEF ReceiverOK
  <2>1. CASE New(u, i)
    BY <2>1 DEF SaysOver
  <2>2. CASE i \in DOMAIN outbox[u]
    <3>1. outbox'[u][i] = outbox[u][i]
      BY <2>2 DEF Extended
    <3> QED
      BY <2>2, <3>1 DEF OverInv, ReceiverOK
  <2> QED
    BY <2>1, <2>2 DEF New
<1>2. ASSUME NEW c \in CallId, Stopped(c)', faults' = 0, NEW v \in Parties(c)
      PROVE  Lasting(v, c)'
  <2>1. v \in User
    BY CallAssumption DEF Parties
  <2>2. CASE /\ Stopped(c)
             /\ \A i : New(Caller[c], i) => SaysOver(outbox'[Caller[c]][i], c)
    <3>1. Lasting(v, c)
      BY <1>2, <2>2 DEF OverInv
    <3> QED
      BY <2>1, <2>2, <3>1, LastingStays
  <2> QED
    BY <1>2, <2>2
<1>3. \A c : Parties(c)' = Parties(c)
  BY DEF Parties
<1> QED
  BY <1>1, <1>2, <1>3 DEF OverInv

\* A step that issues nothing and commits nothing.
LEMMA QuietOver ==
    ASSUME OverInv, CallInv', UNCHANGED <<history, outbox>>, faults' = 0 => faults = 0,
           \A c \in CallId : Stopped(c)' /\ faults' = 0 => Stopped(c)
    PROVE  OverInv'
<1>1. Extended /\ \A v \in User : \A i : ~New(v, i)
  BY QuietExtends DEF OverInv, CallInv
<1>2. \A c \in CallId : Caller[c] \in User
  BY CallAssumption
<1> QED
  BY <1>1, <1>2, OverStep

\* A step that issues writes, of which each says that its call is over.
LEMMA EndingOver ==
    ASSUME OverInv, CallInv', UNCHANGED history, faults' = 0 => faults = 0,
           NEW u \in User, NEW writes \in Seq(Write), Issue(u, writes),
           \A k \in DOMAIN writes : \A c \in CallId : SaysOver(writes[k], c),
           \A c \in CallId : Stopped(c)' /\ faults' = 0 => Stopped(c)
    PROVE  OverInv'
<1>1. /\ Extended
      /\ \A v \in User : \A i : New(v, i) =>
             v = u /\ \E k \in DOMAIN writes : outbox'[v][i] = writes[k]
  BY IssueExtends DEF OverInv, CallInv
<1>2. \A v \in User, c \in CallId : \A i : New(v, i) => SaysOver(outbox'[v][i], c)
  BY <1>1
<1>3. \A c \in CallId : Caller[c] \in User
  BY CallAssumption
<1> QED
  BY <1>1, <1>2, <1>3, OverStep

\* What a report says of the end of calls.
LEMMA ReportSays ==
    ASSUME NEW d \in CallId, NEW s, NEW r, NEW t, NEW c \in CallId
    PROVE  LET q == Report(d, s, r, t) IN
           /\ DOMAIN q = {1, 2}
           /\ IsFor(q[1], Caller[d], d) /\ IsFor(q[2], Receiver[d], d)
           /\ \A k \in DOMAIN q :
                  c # d \/ (s \in Over /\ r \in Over) => SaysOver(q[k], c)
<1> DEFINE q == Report(d, s, r, t)
<1>1. /\ DOMAIN q = {1, 2} /\ q[1] = SetStatus(Caller[d], d, s, t)
      /\ q[2] = SetStatus(Receiver[d], d, r, t)
  BY DEF Report
<1>2. IsFor(q[1], Caller[d], d) /\ IsFor(q[2], Receiver[d], d)
  BY <1>1 DEF SetStatus, IsFor
<1>3. ASSUME NEW k \in DOMAIN q, c # d \/ (s \in Over /\ r \in Over)
      PROVE  SaysOver(q[k], c)
  <2>1. q[k].call = d /\ q[k].status \in {s, r}
    BY <1>1 DEF SetStatus
  <2> QED
    BY <1>3, <2>1 DEF SaysOver, IsFor
<1> QED
  BY <1>1, <1>2, <1>3

LEMMA DeletionsSay ==
    ASSUME NEW v \in User, NEW S \in SUBSET Doc, NEW w \in Deletions(v, S)
    PROVE  \A k \in DOMAIN w : \A c \in CallId : SaysOver(w[k], c)
<1>1. /\ w \in Seq(Write)
      /\ \A k \in 1 .. Len(w) : \E e \in S :
             w[k] = [kind |-> "delete", owner |-> v, doc |-> e]
  BY DeletionsAreWrites
<1>2. ASSUME NEW k \in 1 .. Len(w)
      PROVE  w[k].kind = "delete"
  <2>1. PICK e \in S : w[k] = [kind |-> "delete", owner |-> v, doc |-> e]
    BY <1>1
  <2> QED
    BY <2>1
<1>3. DOMAIN w = 1 .. Len(w)
  BY <1>1
<1> QED
  BY <1>2, <1>3 DEF SaysOver, IsFor

\* The report of the caller's engine that it joined or was joined.
LEMMA EngineOver ==
    ASSUME OverInv, CallInv', UNCHANGED <<history, ending, faults>>,
           \A v \in User, c \in CallId :
               <<"hangup", v, c>> \in deed' => <<"hangup", v, c>> \in deed,
           NEW u \in User, NEW d \in CallId, u = Caller[d],
           session'[u][d] = "joined",
           \A v \in User, c \in CallId : c # d => session'[v][c] = session[v][c],
           NEW s \in Status, NEW r \in Status, NEW t \in {"keep", "null", "now"},
           Issue(u, Report(d, s, r, t))
    PROVE  OverInv'
<1> DEFINE q == Report(d, s, r, t)
<1>1. /\ TypeOK /\ q \in Seq(Write) /\ Issue(u, q)
      /\ UNCHANGED <<history, ending, faults>>
  BY ReportIsWrites DEF OverInv, CallInv
<1>2. \A c \in CallId : c # d => \A k \in DOMAIN q : SaysOver(q[k], c)
  BY ReportSays
<1> HIDE DEF q
<1>3. /\ Extended
      /\ \A v \in User : \A i : New(v, i) =>
             v = u /\ \E k \in DOMAIN q : outbox'[v][i] = q[k]
  BY <1>1, IssueExtends
<1>4. \A c \in CallId : Caller[c] \in User
  BY CallAssumption
<1>5. ~Stopped(d)'
  BY DEF Stopped
<1>6. \A c \in CallId : c # d /\ Stopped(c)' => Stopped(c)
  BY <1>1, <1>4 DEF Stopped
<1>7. \A v \in User, c \in CallId : \A i :
          New(v, i) /\ c # d => SaysOver(outbox'[v][i], c)
  BY <1>2, <1>3
<1> QED
  BY <1>1, <1>3, <1>4, <1>5, <1>6, <1>7, OverStep

LEMMA EngineStepOver ==
    ASSUME OverInv, CallInv', NEW u \in User, NEW d \in CallId,
           JoinChannel(u, d) \/ \E p \in User : UserJoined(u, d, p)
    PROVE  OverInv'
<1>1. TypeOK
  BY DEF OverInv, CallInv
<1>2. CASE JoinChannel(u, d) /\ IsCaller(u, d)
  BY <1>1, <1>2, EngineOver DEF JoinChannel, IsCaller, TypeOK, Status
<1>3. ASSUME NEW p \in User, UserJoined(u, d, p), IsCaller(u, d)
      PROVE  OverInv'
  BY <1>1, <1>3, EngineOver DEF UserJoined, IsCaller, TypeOK, Status
<1>4. CASE JoinChannel(u, d) /\ ~IsCaller(u, d)
  <2>1. /\ UNCHANGED <<history, outbox, faults, deed, ending>>
        /\ \A v \in User, c \in CallId :
               session'[v][c] = session[v][c] \/ session'[v][c] = "joined"
    BY <1>1, <1>4 DEF JoinChannel, TypeOK
  <2> QED
    BY <2>1, QuietOver, CallAssumption DEF Stopped
<1>5. ASSUME NEW p \in User, UserJoined(u, d, p), ~IsCaller(u, d)
      PROVE  OverInv'
  <2>1. UNCHANGED <<history, outbox, faults, deed, ending, session>>
    BY <1>5 DEF UserJoined
  <2> QED
    BY <2>1, QuietOver DEF Stopped
<1> QED
  BY <1>2, <1>3, <1>4, <1>5

LEMMA EndedOver ==
    ASSUME OverInv, CallInv', NEW u \in User, NEW d \in CallId,
           LeaveChannel(u, d) \/ \E p \in User : UserOffline(u, d, p)
    PROVE  OverInv'
<1>1. TypeOK
  BY DEF OverInv, CallInv
<1> DEFINE q == Report(d, "ended", "ended", "keep")
<1>2. q \in Seq(Write) /\ \A k \in DOMAIN q : \A c \in CallId : SaysOver(q[k], c)
  BY ReportIsWrites, ReportSays DEF Status, Over
<1>3. /\ UNCHANGED <<history, faults, deed, ending>>
      /\ \A v \in User, c \in CallId :
             \/ session'[v][c] = session[v][c]
             \/ session[v][c] = "leaving" /\ session'[v][c] = "left"
  <2>1. CASE LeaveChannel(u, d)
    BY <1>1, <2>1 DEF LeaveChannel, TypeOK
  <2>2. ASSUME NEW p \in User, UserOffline(u, d, p)
        PROVE  UNCHANGED <<history, faults, deed, ending, session>>
    BY <2>2 DEF UserOffline
  <2> QED
    BY <2>1, <2>2
<1>4. \A c \in CallId : Stopped(c)' => Stopped(c)
  BY <1>3, CallAssumption DEF Stopped
<1>5. Issue(u, q) \/ UNCHANGED outbox
  BY DEF LeaveChannel, UserOffline
<1> HIDE DEF q
<1> QED
  BY <1>2, <1>3, <1>4, <1>5, EndingOver, QuietOver

\* Its own report of the end is the last of the caller's writes about c.
LEMMA LastSays ==
    ASSUME Extended, NEW c \in CallId, NEW v \in User, NEW i,
           New(Caller[c], i), IsFor(outbox'[Caller[c]][i], v, c),
           \A j : New(Caller[c], j) => SaysOver(outbox'[Caller[c]][j], c)
    PROVE  Lasting(v, c)'
<1> DEFINE p == Caller[c]
<1>1. p \in User
  BY CallAssumption
<1>2. \A j \in DOMAIN outbox'[p] : j >= i => New(p, j)
  <2>1. outbox[p] \in Seq(Write) /\ outbox'[p] \in Seq(Write)
    BY <1>1 DEF Extended
  <2> QED
    BY <2>1 DEF New
<1>3. OverFrom(i, v, c)'
  BY <1>2 DEF OverFrom, SaysOver
<1> QED
  BY <1>3 DEF Lasting, New

LEMMA FinishOver ==
    ASSUME OverInv, CallInv', NEW u \in User, NEW d \in CallId,
           NEW w \in Seq(Write), Finish(u, d, w), faults' = 0 => faults = 0,
           \A k \in DOMAIN w : \A c \in CallId : SaysOver(w[k], c)
    PROVE  OverInv'
<1>1. TypeOK
  BY DEF OverInv, CallInv
<1> DEFINE q == LastReport(u, d)
<1>2. /\ q \in Seq(Write) /\ Issue(u, w \o q)
      /\ UNCHANGED <<history, deed>>
      /\ ending' = [ending EXCEPT ![u][d] = "no"]
  BY <1>1, FoundDocs DEF Finish
<1>3. PICK s, t : s \in Over /\ q = Report(d, s, s, t)
  BY DEF LastReport, Over
<1>4. /\ DOMAIN q = {1, 2}
      /\ IsFor(q[1], Caller[d], d) /\ IsFor(q[2], Receiver[d], d)
      /\ \A k \in DOMAIN q : \A c \in CallId : SaysOver(q[k], c)
  BY <1>3, ReportSays
<1> HIDE DEF q
<1> DEFINE both == w \o q
<1>5. /\ both \in Seq(Write)
      /\ \A k \in DOMAIN both :
             \/ k \in DOMAIN w /\ both[k] = w[k]
             \/ k - Len(w) \in DOMAIN q /\ both[k] = q[k - Len(w)]
      /\ \A k \in DOMAIN q :
             Len(w) + k \in DOMAIN both /\ both[Len(w) + k] = q[k]
  BY <1>2
<1>6. \A k \in DOMAIN both : \A c \in CallId : SaysOver(both[k], c)
  BY <1>4, <1>5
<1>7. Issue(u, both)
  BY <1>2
<1> HIDE DEF both
<1>8. /\ Extended
      /\ \A v \in User : \A i : New(v, i) =>
             v = u /\ \E k \in DOMAIN both : outbox'[v][i] = both[k]
      /\ \A k \in DOMAIN both :
             /\ New(u, Len(outbox[u]) + k)
             /\ outbox'[u][Len(outbox[u]) + k] = both[k]
  BY <1>1, <1>5, <1>7, IssueExtends
<1>9. \A v \in User, c \in CallId : \A i : New(v, i) => SaysOver(outbox'[v][i], c)
  BY <1>6, <1>8
<1>10. \A c \in CallId : Caller[c] \in User
  BY CallAssumption
<1>11. ASSUME u = Caller[d], NEW v \in Parties(d)
       PROVE  Lasting(v, d)'
  <2>1. v \in User /\ \E k \in DOMAIN q : IsFor(q[k], v, d)
    BY <1>4, CallAssumption DEF Parties
  <2>2. PICK k \in DOMAIN both : IsFor(both[k], v, d)
    BY <1>5, <2>1
  <2>3. PICK i : i = Len(outbox[u]) + k
    OBVIOUS
  <2>4. New(u, i) /\ IsFor(outbox'[u][i], v, d)
    BY <1>8, <2>2, <2>3
  <2> QED
    BY <1>8, <1>9, <1>11, <2>1, <2>4, LastSays
<1>12. ASSUME NEW c \in CallId, Stopped(c)', c # d \/ u # Caller[d]
       PROVE  Stopped(c)
  <2>1. session' = session \/ Leave(u, d)
    BY DEF Finish
  <2>2. session'[Caller[c]][c] = session[Caller[c]][c]
    BY <1>1, <1>10, <1>12, <2>1, LeaveEnds
  <2>3. ending'[Caller[c]][c] = ending[Caller[c]][c]
    BY <1>1, <1>2, <1>10, <1>12 DEF TypeOK
  <2> QED
    BY <1>2, <1>12, <2>2, <2>3 DEF Stopped
<1> QED
  BY <1>2, <1>8, <1>9, <1>10, <1>11, <1>12, OverStep

LEMMA EndCallOver ==
    ASSUME OverInv, CallInv', NEW u \in User, NEW d \in CallId,
           EndCallAtReceiver(u, d) \/ EndCallThrows(u, d)
    PROVE  OverInv'
<1>1. TypeOK
  BY DEF OverInv, CallInv
<1>2. CASE EndCallThrows(u, d)
  <2>1. <<>> \in Seq(Write) /\ DOMAIN <<>> = {}
    OBVIOUS
  <2>2. Finish(u, d, <<>>) /\ faults' # 0
    BY <1>1, <1>2 DEF EndCallThrows, TypeOK
  <2> QED
    BY <2>1, <2>2, FinishOver
<1>3. CASE EndCallAtReceiver(u, d)
  <2>1. PICK w \in Deletions(Receiver[d], ReceivedBy(u, d)) : Finish(u, d, w)
    BY <1>3 DEF EndCallAtReceiver
  <2>2. /\ w \in Seq(Write)
        /\ \A k \in DOMAIN w : \A c \in CallId : SaysOver(w[k], c)
    BY <1>1, FoundDocs, DeletionsAreWrites, DeletionsSay
  <2>3. faults' = faults
    BY <1>3 DEF EndCallAtReceiver
  <2> QED
    BY <2>1, <2>2, <2>3, FinishOver
<1> QED
  BY <1>2, <1>3

LEMMA EndCallAtCallerOver ==
    ASSUME OverInv, CallInv', NEW u \in User, NEW d \in CallId,
           EndCallAtCaller(u, d)
    PROVE  OverInv'
<1>1. TypeOK
  BY DEF OverInv, CallInv
<1>2. PICK w \in Deletions(Caller[d], DialledBy(u, d)) : Issue(u, w)
  BY DEF EndCallAtCaller
<1>3. /\ w \in Seq(Write)
      /\ \A k \in DOMAIN w : \A c \in CallId : SaysOver(w[k], c)
  BY <1>1, FoundDocs, DeletionsAreWrites, DeletionsSay
<1>4. /\ UNCHANGED <<history, deed, session, faults>>
      /\ \A v \in User, c \in CallId :
             ending'[v][c] = ending[v][c] \/ ending'[v][c] # "no"
  BY <1>1 DEF EndCallAtCaller, TypeOK
<1>5. \A c \in CallId : Stopped(c)' => Stopped(c)
  BY <1>4, CallAssumption DEF Stopped
<1> QED
  BY <1>2, <1>3, <1>4, <1>5, EndingOver

\* The steps that issue nothing.
LEMMA TapOver ==
    ASSUME OverInv, CallInv', NEW u \in User, NEW d \in CallId,
           \/ Dial(u, d) \/ Accept(u, d) \/ Reject(u, d) \/ CreateEngine(u, d)
           \/ ReleaseEngine(u, d) \/ HangUp(u, d)
    PROVE  OverInv'
<1>1. TypeOK
  BY DEF OverInv, CallInv
<1>2. UNCHANGED <<history, outbox, faults>>
  BY DEF Dial, Accept, Reject, CreateEngine, ReleaseEngine, HangUp
<1>3. ASSUME NEW c \in CallId, Stopped(c)'
      PROVE  Stopped(c)
  <2>1. Caller[c] \in User
    BY CallAssumption
  <2>2. CASE HangUp(u, d)
    <3>1. /\ ending' = [ending EXCEPT ![u][d] = "hangCaller"]
          /\ deed' = deed \cup {<<"hangup", u, d>>}
          /\ session' = session \/ Leave(u, d)
      BY <2>2 DEF HangUp
    <3>2. u # Caller[c] \/ d # c
      BY <1>1, <1>3, <2>1, <3>1 DEF Stopped, TypeOK
    <3>3. session'[Caller[c]][c] = session[Caller[c]][c]
      BY <1>1, <2>1, <3>1, <3>2, LeaveEnds
    <3>4. ending'[Caller[c]][c] = ending[Caller[c]][c]
      BY <1>1, <2>1, <3>1, <3>2 DEF TypeOK
    <3> QED
      BY <1>3, <3>1, <3>2, <3>3, <3>4 DEF Stopped
  <2>3. CASE Dial(u, d)
    BY <1>3, <2>3 DEF Dial, Stopped
  <2>4. CASE Accept(u, d)
    BY <1>1, <1>3, <2>1, <2>4 DEF Accept, Stopped, TypeOK
  <2>5. CASE Reject(u, d)
    BY <1>1, <1>3, <2>1, <2>5 DEF Reject, Stopped, TypeOK
  <2>6. CASE CreateEngine(u, d)
    BY <1>1, <1>3, <2>1, <2>6 DEF CreateEngine, Stopped, TypeOK
  <2>7. CASE ReleaseEngine(u, d)
    BY <1>1, <1>3, <2>1, <2>7 DEF ReleaseEngine, Stopped, TypeOK
  <2> QED
    BY <2>2, <2>3, <2>4, <2>5, <2>6, <2>7
<1> QED
  BY <1>2, <1>3, QuietOver

LEMMA DeviceOver ==
    ASSUME OverInv, CallInv', NEW u \in User,
           AddCallerDoc(u) \/ AddReceiverDoc(u) \/ Kill(u)
    PROVE  OverInv'
<1>1. TypeOK
  BY DEF OverInv, CallInv
<1>2. UNCHANGED <<history, outbox>>
  BY DEF AddCallerDoc, AddReceiverDoc, Kill
<1>3. CASE AddCallerDoc(u)
  BY <1>2, <1>3, QuietOver DEF AddCallerDoc, Stopped
<1>4. CASE AddReceiverDoc(u)
  <2>1. /\ UNCHANGED <<deed, ending, faults>>
        /\ \A v \in User, c \in CallId :
               session'[v][c] = session[v][c] \/ session'[v][c] = "asking"
    BY <1>1, <1>4 DEF AddReceiverDoc, TypeOK
  <2>2. \A c \in CallId : Stopped(c)' => Stopped(c)
    BY <2>1, CallAssumption DEF Stopped
  <2> QED
    BY <1>2, <2>1, <2>2, QuietOver
<1>5. CASE Kill(u)
  <2>1. faults' # 0
    BY <1>1, <1>5 DEF Kill, TypeOK
  <2> QED
    BY <1>2, <2>1, QuietOver
<1> QED
  BY <1>3, <1>4, <1>5

LEMMA CommitOver ==
    ASSUME OverInv, CallInv', NEW u \in User, Commit(u)
    PROVE  OverInv'
<1>1. TypeOK
  BY DEF OverInv, CallInv
<1>2. UNCHANGED <<placed, session, ending, deed, faults>>
  BY DEF Commit, clientVars
<1>3. PICK w \in Write : w = outbox[u][1]
  BY <1>1, Committed
<1>4. \A v \in User : \A i \in DOMAIN outbox'[v] :
          \/ v # u /\ i \in DOMAIN outbox[v] /\ outbox'[v][i] = outbox[v][i]
          \/ v = u /\ i + 1 \in DOMAIN outbox[v] /\ outbox'[v][i] = outbox[v][i + 1]
  BY <1>1, Committed
<1>5. ReceiverOK'
  <2> SUFFICES ASSUME NEW c \in CallId, NEW x \in User, NEW v \in User,
                      NEW i \in DOMAIN outbox'[x], x # Caller[c],
                      IsFor(outbox'[x][i], v, c)
               PROVE  outbox'[x][i].status \in Over
    BY DEF ReceiverOK
  <2>1. PICK n \in DOMAIN outbox[x] : outbox[x][n] = outbox'[x][i]
    BY <1>4
  <2> QED
    BY <2>1 DEF OverInv, ReceiverOK
<1>6. ASSUME NEW c \in CallId, NEW v \in User, Lasting(v, c)
      PROVE  Lasting(v, c)'
  <2> DEFINE p == Caller[c]
  <2>1. p \in User /\ outbox[p] \in Seq(Write) /\ outbox'[p] \in Seq(Write)
    BY CallAssumption DEF OverInv, CallInv, TypeOK
  <2>2. /\ IsFor(w, v, c) => history'[v][c].status = w.status
        /\ ~IsFor(w, v, c) => history'[v][c] = history[v][c]
    <3>1. IsFor(w, v, c) => history'[v][c] = Merge(history[v][c], w)
      BY <1>1, <1>3, CommittedStatus
    <3>2. Merge(history[v][c], w).status = w.status
      BY DEF Merge
    <3>3. ~IsFor(w, v, c) => history'[v][c] = history[v][c]
      BY <1>1, <1>3, CommittedStatus
    <3> QED
      BY <3>1, <3>2, <3>3
  <2>3. CASE u # p
    <3>1. outbox'[p] = outbox[p]
      BY <1>1, <2>1, <2>3, Committed
    <3>2. \A i : OverFrom(i, v, c)' <=> OverFrom(i, v, c)
      BY <3>1 DEF OverFrom
    <3>3. IsFor(w, v, c) => w.status \in Over
      <4>1. 1 \in DOMAIN outbox[u]
        BY <1>1, Committed
      <4> QED
        BY <1>3, <2>3, <4>1 DEF OverInv, ReceiverOK
    <3>4. history[v][c].status \in Over => history'[v][c].status \in Over
      BY <2>2, <3>3
    <3> QED
      BY <1>6, <3>1, <3>2, <3>4 DEF Lasting
  <2>4. CASE u = p
    <3>1. /\ 1 \in DOMAIN outbox[p]
          /\ \A i \in DOMAIN outbox'[p] :
                 i + 1 \in DOMAIN outbox[p] /\ outbox'[p][i] = outbox[p][i + 1]
          /\ \A i \in DOMAIN outbox[p] : i # 1 =>
                 i - 1 \in DOMAIN outbox'[p] /\ outbox'[p][i - 1] = outbox[p][i]
      BY <1>1, <2>4, Committed
    <3>2. \A i \in DOMAIN outbox[p] : i \in Nat \ {0}
      BY <2>1
    <3>3. \A i \in DOMAIN outbox'[p] : i \in Nat \ {0}
      BY <2>1
    <3>4. OverFrom(1, v, c) => OverFrom(1, v, c)'
      BY <3>1, <3>2, <3>3 DEF OverFrom
    <3>5. CASE IsFor(w, v, c) /\ OverFrom(1, v, c)
      <4>1. w.status \in Over
        BY <1>3, <2>4, <3>1, <3>5 DEF OverFrom
      <4> QED
        BY <2>2, <3>4, <3>5, <4>1 DEF Lasting
    <3>6. CASE ~IsFor(w, v, c) /\ history[v][c].status \in Over /\ OverFrom(1, v, c)
      BY <2>2, <3>4, <3>6 DEF Lasting
    <3>7. ASSUME NEW i \in DOMAIN outbox[p], IsFor(outbox[p][i], v, c),
                 OverFrom(i, v, c), i # 1
          PROVE  Lasting(v, c)'
      <4>1. PICK n \in DOMAIN outbox'[p] :
                n = i - 1 /\ outbox'[p][n] = outbox[p][i]
        BY <3>1, <3>7
      <4>2. OverFrom(n, v, c)'
        <5> SUFFICES ASSUME NEW j \in DOMAIN outbox'[p], j >= n,
                            IsFor(outbox'[p][j], v, c)
                     PROVE  outbox'[p][j].status \in Over
          BY DEF OverFrom
        <5>1. j + 1 \in DOMAIN outbox[p] /\ outbox'[p][j] = outbox[p][j + 1]
          BY <3>1
        <5>2. j + 1 >= i
          BY <3>2, <3>3, <4>1
        <5> QED
          BY <3>7, <5>1, <5>2 DEF OverFrom
      <4> QED
        BY <3>7, <4>1, <4>2 DEF Lasting
    <3>8. \/ history[v][c].status \in Over /\ OverFrom(1, v, c)
          \/ \E i \in DOMAIN outbox[p] :
                 IsFor(outbox[p][i], v, c) /\ OverFrom(i, v, c)
      BY <1>6 DEF Lasting
    <3> QED
      BY <1>3, <2>4, <3>5, <3>6, <3>7, <3>8
  <2> QED
    BY <2>3, <2>4
<1>7. \A c \in CallId : Stopped(c)' <=> Stopped(c)
  BY <1>2 DEF Stopped
<1>8. \A c \in CallId : Parties(c)' = Parties(c) /\ Parties(c) \subseteq User
  BY CallAssumption DEF Parties
<1> QED
  BY <1>2, <1>5, <1>6, <1>7, <1>8 DEF OverInv

LEMMA StepOver == OverInv /\ [Next]_vars => OverInv'
<1> SUFFICES ASSUME OverInv, [Next]_vars
             PROVE  OverInv'
  OBVIOUS
<1>1. CallInv'
  BY NextInv DEF OverInv
<1>2. CASE UNCHANGED vars
  <2>1. UNCHANGED <<history, outbox, faults, session, ending, deed>>
    BY <1>2 DEF vars, clientVars
  <2> QED
    BY <1>1, <2>1, QuietOver DEF Stopped
<1>3. ASSUME NEW u \in User, NEW c \in CallId, CallStep(u, c)
      PROVE  OverInv'
  BY <1>1, <1>3, TapOver, EngineStepOver, EndedOver, EndCallAtCallerOver,
     EndCallOver DEF CallStep
<1>4. ASSUME NEW u \in User, DeviceStep(u)
      PROVE  OverInv'
  BY <1>1, <1>4, DeviceOver, CommitOver DEF DeviceStep
<1> QED
  BY <1>2, <1>3, <1>4 DEF Next

(* As long as nothing was killed and no query failed, a call whose caller  *)
(* hung up and that has settled is over in both call lists, however the    *)
(* two clients' reports are committed and whatever other calls do in the   *)
(* shared channel: the caller's own end is the last of its reports         *)
(* (onCallEnd), and the receiver reports nothing else.                     *)
THEOREM SettledIsOver == Spec => [](faults = 0 => SettledCallIsOver)
<1>1. Spec => []OverInv
  BY InitOver, StepOver, PTL DEF Spec
<1>2. OverInv => (faults = 0 => SettledCallIsOver)
  <2> SUFFICES ASSUME OverInv, faults = 0, NEW c \in CallId, Settled(c),
                      <<"hangup", Caller[c], c>> \in deed, NEW v \in Parties(c)
               PROVE  history[v][c].status \in Over
    BY DEF SettledCallIsOver
  <2>1. Caller[c] \in User
    BY CallAssumption
  <2>2. Stopped(c) /\ outbox[Caller[c]] = <<>>
    BY <2>1 DEF Settled, Stopped
  <2>3. Lasting(v, c)
    BY <2>2 DEF OverInv
  <2> QED
    BY <2>2, <2>3 DEF Lasting
<1> QED
  BY <1>1, <1>2, PTL

-----------------------------------------------------------------------------
(* The calling documents of a call that is the only one.                   *)

LEMMA InitRemoval == Init => RemovalInv
<1> SUFFICES ASSUME Init
             PROVE  RemovalInv
  OBVIOUS
<1>1. CallInv
  BY InitInv
<1>2. DeedsOK
  BY DEF Init, DeedsOK, HasEnded
<1>3. OneDocEach
  BY DEF Init, OneDocEach
<1>4. DialledFirst /\ EndCallClears
  BY DEF Init, DialledFirst, EndCallClears, HasEnded
<1> QED
  BY <1>1, <1>2, <1>3, <1>4 DEF RemovalInv

LEMMA UndisturbedBefore ==
    ASSUME TypeOK, Next, Undisturbed'
    PROVE  Undisturbed
<1>1. placed \subseteq placed' /\ (faults' = faults \/ faults' = faults + 1)
  <2>1. ASSUME NEW u \in User, NEW c \in CallId, NEW w, Finish(u, c, w)
        PROVE  placed' = placed
    BY <2>1 DEF Finish
  <2>2. ASSUME NEW u \in User, NEW c \in CallId, CallStep(u, c)
        PROVE  placed \subseteq placed' /\ (faults' = faults \/ faults' = faults + 1)
    BY <2>1, <2>2 DEF CallStep, Dial, Accept, Reject, CreateEngine, JoinChannel,
       UserJoined, UserOffline, LeaveChannel, ReleaseEngine, HangUp,
       EndCallAtCaller, EndCallAtReceiver, EndCallThrows
  <2>3. ASSUME NEW u \in User, DeviceStep(u)
        PROVE  placed \subseteq placed' /\ (faults' = faults \/ faults' = faults + 1)
    BY <2>3 DEF DeviceStep, AddCallerDoc, AddReceiverDoc, Commit, Kill
  <2> QED
    BY <2>2, <2>3 DEF Next
<1>2. faults \in Nat
  BY DEF TypeOK
<1> QED
  BY <1>1, <1>2 DEF Undisturbed

\* Ended as far as the deeds of a step go.
LEMMA DeedsStep ==
    ASSUME CallInv, DeedsOK, Next
    PROVE  DeedsOK'
<1>1. placed \subseteq placed'
  <2>1. ASSUME NEW u \in User, NEW c \in CallId, CallStep(u, c)
        PROVE  placed \subseteq placed'
    BY <2>1 DEF CallStep, Dial, Accept, Reject, CreateEngine, JoinChannel,
       UserJoined, UserOffline, LeaveChannel, ReleaseEngine, HangUp,
       EndCallAtCaller, EndCallAtReceiver, EndCallThrows, Finish
  <2>2. ASSUME NEW u \in User, DeviceStep(u)
        PROVE  placed \subseteq placed'
    BY <2>2 DEF DeviceStep, AddCallerDoc, AddReceiverDoc, Commit, Kill
  <2> QED
    BY <2>1, <2>2 DEF Next
<1>2. CASE \A u \in User, c \in CallId : HasEnded(u, c)' => HasEnded(u, c)
  BY <1>1, <1>2 DEF DeedsOK, Parties
<1>3. ASSUME NEW u \in User, NEW c \in CallId, Reject(u, c) \/ HangUp(u, c)
      PROVE  DeedsOK'
  <2>1. c \in placed /\ u \in Parties(c)
    <3>1. CASE Reject(u, c)
      BY <3>1, RingIsReceivers DEF Reject, Parties
    <3>2. CASE HangUp(u, c)
      BY <3>2, CallAssumption DEF HangUp, CallInv, PageOK
    <3> QED
      BY <1>3, <3>1, <3>2
  <2>2. deed' = deed \cup {<<"reject", u, c>>} \/ deed' = deed \cup {<<"hangup", u, c>>}
    BY <1>3 DEF Reject, HangUp
  <2>3. \A v \in User, d \in CallId :
            HasEnded(v, d)' => HasEnded(v, d) \/ (v = u /\ d = c)
    BY <2>2 DEF HasEnded
  <2> QED
    BY <1>1, <2>1, <2>3 DEF DeedsOK, Parties
<1>4. ASSUME NEW u \in User, NEW c \in CallId, CallStep(u, c)
      PROVE  DeedsOK'
  <2>1. CASE Reject(u, c) \/ HangUp(u, c)
    BY <1>3, <2>1
  <2>2. CASE UNCHANGED deed
    BY <1>2, <2>2 DEF HasEnded
  <2>3. CASE \E v \in User : deed' = deed \cup {<<"met", v, c>>}
                          \/ deed' = deed \cup {<<"accept", v, c>>}
    BY <1>2, <2>3 DEF HasEnded
  <2> QED
    BY <1>4, <2>1, <2>2, <2>3 DEF CallStep, Dial, Accept, CreateEngine, JoinChannel,
       UserJoined, UserOffline, LeaveChannel, ReleaseEngine, EndCallAtCaller,
       EndCallAtReceiver, EndCallThrows, Finish
<1>5. ASSUME NEW u \in User, DeviceStep(u)
      PROVE  DeedsOK'
  BY <1>2, <1>5 DEF DeviceStep, AddCallerDoc, AddReceiverDoc, Commit, Kill, HasEnded
<1> QED
  BY <1>4, <1>5 DEF Next

\* While the only call is dialled nobody has a page of it, ends it or ended it.
LEMMA OnlyDialling ==
    ASSUME RemovalInv, Undisturbed, NEW u \in User, dial[u] # NotDialling
    PROVE  /\ dial[u] \in DialStep /\ dial[u].call \in placed
           /\ u = Caller[dial[u].call] /\ Receiver[dial[u].call] \in User \ {u}
           /\ \A v \in User \ {u} : dial[v] = NotDialling
           /\ \A v \in User, c \in CallId : ~HasEnded(v, c) /\ ending[v][c] = "no"
           /\ \A v \in User : page[v] = Home
<1>1. TypeOK /\ DialOK /\ EndingOK
  BY DEF RemovalInv, CallInv
<1>2. /\ dial[u] \in DialStep /\ dial[u].call \in placed
      /\ u = Caller[dial[u].call]
  BY <1>1 DEF TypeOK, DialOK
<1>3. Receiver[dial[u].call] \in User \ {u}
  BY <1>2, CallAssumption DEF DialStep
<1>4. \A v \in User \ {u} : dial[v] = NotDialling
  BY <1>1, <1>2 DEF DialOK, Undisturbed
<1>5. /\ \A v \in User, c \in CallId : ~HasEnded(v, c)
      /\ \A v \in User : page[v] = Home
  BY DEF RemovalInv, DialledFirst
<1>6. ASSUME NEW v \in User, NEW c \in CallId
      PROVE  ending[v][c] = "no"
  <2>1. ending[v][c] \in EndStep
    BY <1>1 DEF TypeOK
  <2>2. ~HasEnded(v, c)
    BY <1>5
  <2> QED
    BY <1>1, <2>1, <2>2 DEF EndingOK, Rejected, HasEnded, EndStep
<1> QED
  BY <1>2, <1>3, <1>4, <1>5, <1>6

\* What an SDK is about to delete stays so while it issues more.
LEMMA ClearingStays ==
    ASSUME Extended, NEW u \in User, NEW v \in User, calling'[v] \subseteq calling[v],
           Clearing(u, v)
    PROVE  Clearing(u, v)'
  BY DEF Clearing, Extended

\* A step that adds no calling document and dials nothing.
LEMMA RemovalStep ==
    ASSUME RemovalInv, CallInv', DeedsOK', Undisturbed' => Undisturbed,
           Extended, UNCHANGED <<calling, dial>>,
           Undisturbed' =>
               /\ \/ \A u \in User : /\ page'[u] \in {page[u], Home}
                                     /\ \A c \in CallId : HasEnded(u, c)' => HasEnded(u, c)
                  \/ \A v \in User : dial[v] = NotDialling
               /\ \A u \in User, c \in CallId :
                      /\ ending'[u][c] \in {"hangReceiver", "rejectReceiver"}
                             => \/ ending[u][c] \in {"hangReceiver", "rejectReceiver"}
                                \/ Clearing(u, Caller[c])'
                      /\ HasEnded(u, c)' /\ ending'[u][c] = "no"
                             => \/ HasEnded(u, c) /\ ending[u][c] = "no"
                                \/ \A v \in Parties(c) : Clearing(u, v)'
    PROVE  RemovalInv'
<1> SUFFICES ASSUME Undisturbed'
             PROVE  OneDocEach' /\ DialledFirst' /\ EndCallClears'
  BY DEF RemovalInv
<1>1. OneDocEach /\ DialledFirst /\ EndCallClears
  BY DEF RemovalInv
<1>2. OneDocEach'
  BY <1>1 DEF OneDocEach
<1>3. DialledFirst'
  BY <1>1 DEF DialledFirst
<1>4. \A c \in CallId : /\ Parties(c)' = Parties(c) /\ Parties(c) \subseteq User
                        /\ Caller[c] \in Parties(c)
  BY CallAssumption DEF Parties
<1>5. \A u, v \in User : Clearing(u, v) => Clearing(u, v)'
  BY ClearingStays
<1>6. EndCallClears'
  BY <1>1, <1>4, <1>5 DEF EndCallClears
<1> QED
  BY <1>2, <1>3, <1>6

\* A step that touches neither a tap nor an endCall.
LEMMA QuietRemoval ==
    ASSUME RemovalInv, CallInv', DeedsOK', Undisturbed' => Undisturbed,
           Extended, UNCHANGED <<calling, dial, ending>>,
           \A u \in User : page'[u] \in {page[u], Home},
           \A u \in User, c \in CallId : HasEnded(u, c)' => HasEnded(u, c)
    PROVE  RemovalInv'
  BY RemovalStep

\* The dialling of the only call.
LEMMA DialRemoval ==
    ASSUME RemovalInv, CallInv', DeedsOK', Undisturbed' => Undisturbed,
           NEW u \in User, NEW c \in CallId, Dial(u, c)
    PROVE  RemovalInv'
<1> SUFFICES ASSUME Undisturbed'
             PROVE  OneDocEach' /\ DialledFirst' /\ EndCallClears'
  BY DEF RemovalInv
<1>1. placed = {}
  BY DEF Dial, Undisturbed
<1>2. TypeOK /\ CallingOK /\ PageOK /\ DeedsOK /\ EndCallClears
  BY DEF RemovalInv, CallInv
<1>3. \A v \in User : calling[v] = {} /\ page[v] = Home
  BY <1>1, <1>2 DEF CallingOK, PageOK
<1>4. \A v \in User, d \in CallId : ~HasEnded(v, d)
  BY <1>1, <1>2 DEF DeedsOK
<1>5. UNCHANGED <<calling, outbox, page, ending, deed>>
  BY DEF Dial
<1>6. OneDocEach'
  <2>1. Receiver[c] \in User
    BY CallAssumption
  <2>2. dial' = [dial EXCEPT ![u] = [call |-> c, step |-> "caller"]]
    BY DEF Dial
  <2>3. \A v \in User \ {u} : dial'[v] = dial[v] /\ dial[v] = NotDialling
    <3>1. \A v \in User : dial[v] # NotDialling => dial[v].call \in placed
      BY DEF RemovalInv, CallInv, DialOK
    <3> QED
      BY <1>1, <1>2, <2>2, <3>1 DEF TypeOK
  <2>4. dial'[u].call = c
    BY <1>2, <2>2 DEF TypeOK
  <2> QED
    BY <1>3, <1>5, <2>1, <2>3, <2>4 DEF OneDocEach
<1>7. DialledFirst'
  BY <1>3, <1>4, <1>5 DEF DialledFirst, HasEnded
<1>8. EndCallClears'
  <2>1. \A v, w \in User : Clearing(v, w)'
    BY <1>3, <1>5 DEF Clearing
  <2> QED
    BY <2>1, CallAssumption DEF EndCallClears, Parties
<1> QED
  BY <1>6, <1>7, <1>8

LEMMA AddCallerDocRemoval ==
    ASSUME RemovalInv, CallInv', DeedsOK', Undisturbed' => Undisturbed,
           NEW u \in User, AddCallerDoc(u)
    PROVE  RemovalInv'
<1> SUFFICES ASSUME Undisturbed'
             PROVE  OneDocEach' /\ DialledFirst' /\ EndCallClears'
  BY DEF RemovalInv
<1> DEFINE c == dial[u].call
<1>1. TypeOK /\ OneDocEach /\ dial[u] # NotDialling
  BY DEF RemovalInv, CallInv, AddCallerDoc, NotDialling
<1>2. /\ dial[u] \in DialStep /\ u = Caller[c] /\ Receiver[c] \in User \ {u}
      /\ \A v \in User \ {u} : dial[v] = NotDialling
      /\ \A v \in User, d \in CallId : ~HasEnded(v, d) /\ ending[v][d] = "no"
      /\ \A v \in User : page[v] = Home
  BY <1>1, OnlyDialling
<1>3. calling[u] = {} /\ calling[Receiver[c]] = {}
  BY <1>1 DEF OneDocEach, AddCallerDoc
<1>4. PICK id : calling' = [calling EXCEPT ![u] = @ \cup {[id |-> id, call |-> c]}]
  BY DEF AddCallerDoc, AddDoc
<1>5. /\ \A v \in User \ {u} : calling'[v] = calling[v] /\ dial'[v] = dial[v]
      /\ calling'[u] = {[id |-> id, call |-> c]}
      /\ dial'[u].call = c /\ dial'[u].step = "receiver"
  BY <1>1, <1>2, <1>3, <1>4 DEF AddCallerDoc, TypeOK, DialStep
<1>6. OneDocEach'
  <2>1. \A v \in User : \A d, e \in calling'[v] : d = e
    BY <1>1, <1>5 DEF OneDocEach
  <2>2. calling'[Receiver[c]] = {}
    BY <1>2, <1>3, <1>5
  <2> QED
    BY <1>2, <1>5, <2>1, <2>2 DEF OneDocEach
<1>7. UNCHANGED <<page, ending, deed>>
  BY DEF AddCallerDoc
<1> QED
  BY <1>2, <1>6, <1>7 DEF DialledFirst, EndCallClears, HasEnded

LEMMA AddReceiverDocRemoval ==
    ASSUME RemovalInv, CallInv', DeedsOK', Undisturbed' => Undisturbed,
           NEW u \in User, AddReceiverDoc(u)
    PROVE  RemovalInv'
<1> SUFFICES ASSUME Undisturbed'
             PROVE  OneDocEach' /\ DialledFirst' /\ EndCallClears'
  BY DEF RemovalInv
<1> DEFINE c == dial[u].call
<1>1. TypeOK /\ OneDocEach /\ dial[u] # NotDialling
  BY DEF RemovalInv, CallInv, AddReceiverDoc, NotDialling
<1>2. /\ Receiver[c] \in User
      /\ \A v \in User \ {u} : dial[v] = NotDialling
      /\ \A v \in User, d \in CallId : ~HasEnded(v, d) /\ ending[v][d] = "no"
  BY <1>1, OnlyDialling
<1>3. calling[Receiver[c]] = {}
  BY <1>1 DEF OneDocEach
<1>4. PICK id :
          calling' = [calling EXCEPT ![Receiver[c]] = @ \cup {[id |-> id, call |-> c]}]
  BY DEF AddReceiverDoc, AddDoc
<1>5. \A v \in User : \A d, e \in calling'[v] : d = e
  BY <1>1, <1>2, <1>3, <1>4 DEF TypeOK, OneDocEach
<1>6. \A v \in User : dial'[v] = NotDialling
  BY <1>1, <1>2 DEF AddReceiverDoc, TypeOK
<1>7. UNCHANGED <<ending, deed>>
  BY DEF AddReceiverDoc
<1> QED
  BY <1>2, <1>5, <1>6, <1>7 DEF OneDocEach, DialledFirst, EndCallClears, HasEnded

\* A ring shows that the only call has been dialled.
LEMMA RingIsDialled ==
    ASSUME RemovalInv, Undisturbed, NEW u \in User, NEW c \in Ringing(u), NEW v \in User
    PROVE  dial[v] = NotDialling
<1>1. PICK d \in calling[u] : c = d.call
  BY DEF Ringing, First, View
<1>2. c \in placed /\ u = Receiver[c]
  BY RingIsReceivers DEF RemovalInv
<1>3. SUFFICES ASSUME dial[v] # NotDialling
               PROVE  FALSE
  OBVIOUS
<1>4. dial[v].call = c
  BY <1>2, <1>3, OnlyDialling DEF Undisturbed
<1> QED
  BY <1>1, <1>2, <1>3, <1>4 DEF RemovalInv, OneDocEach

\* The taps of the users but the dialling.
LEMMA TapRemoval ==
    ASSUME RemovalInv, CallInv', DeedsOK', Undisturbed' => Undisturbed,
           NEW u \in User, NEW c \in CallId,
           Accept(u, c) \/ Reject(u, c) \/ HangUp(u, c)
    PROVE  RemovalInv'
<1>1. TypeOK
  BY DEF RemovalInv, CallInv
<1>2. UNCHANGED <<calling, dial>> /\ Extended
  BY <1>1, QuietExtends DEF Accept, Reject, HangUp
<1>3. CASE Accept(u, c)
  <2>1. /\ UNCHANGED ending
        /\ \A v \in User, d \in CallId : HasEnded(v, d)' => HasEnded(v, d)
    BY <1>3 DEF Accept, HasEnded
  <2>2. Undisturbed => \A v \in User : dial[v] = NotDialling
    BY <1>3, RingIsDialled DEF Accept
  <2> QED
    BY <1>2, <2>1, <2>2, RemovalStep
<1>4. ASSUME NEW s \in {"rejectCaller", "hangCaller"},
             ending' = [ending EXCEPT ![u][c] = s],
             deed' = deed \cup {<<"reject", u, c>>} \/ deed' = deed \cup {<<"hangup", u, c>>}
      PROVE  /\ \A v \in User, d \in CallId :
                    v # u \/ d # c => /\ ending'[v][d] = ending[v][d]
                                      /\ HasEnded(v, d)' => HasEnded(v, d)
             /\ ending'[u][c] = s
  BY <1>1, <1>4 DEF TypeOK, HasEnded
<1>5. CASE Reject(u, c)
  <2>1. /\ ending' = [ending EXCEPT ![u][c] = "rejectCaller"]
        /\ deed' = deed \cup {<<"reject", u, c>>}
    BY <1>5 DEF Reject
  <2>2. Undisturbed => \A v \in User : dial[v] = NotDialling
    BY <1>5, RingIsDialled DEF Reject
  <2>3. /\ \A v \in User, d \in CallId :
               v # u \/ d # c => /\ ending'[v][d] = ending[v][d]
                                 /\ HasEnded(v, d)' => HasEnded(v, d)
        /\ ending'[u][c] = "rejectCaller"
    BY <1>4, <2>1
  <2> QED
    BY <1>2, <2>2, <2>3, RemovalStep
<1>6. CASE HangUp(u, c)
  <2>1. /\ ending' = [ending EXCEPT ![u][c] = "hangCaller"]
        /\ deed' = deed \cup {<<"hangup", u, c>>}
    BY <1>6 DEF HangUp
  <2>2. Undisturbed => \A v \in User : dial[v] = NotDialling
    BY <1>6, CallAssumption DEF HangUp, RemovalInv, DialledFirst
  <2>3. /\ \A v \in User, d \in CallId :
               v # u \/ d # c => /\ ending'[v][d] = ending[v][d]
                                 /\ HasEnded(v, d)' => HasEnded(v, d)
        /\ ending'[u][c] = "hangCaller"
    BY <1>4, <2>1
  <2> QED
    BY <1>2, <2>2, <2>3, RemovalStep
<1> QED
  BY <1>3, <1>5, <1>6

\* What the engine of a page does.
LEMMA EngineRemoval ==
    ASSUME RemovalInv, CallInv', DeedsOK', Undisturbed' => Undisturbed,
           NEW u \in User, NEW c \in CallId,
           \/ CreateEngine(u, c) \/ JoinChannel(u, c)
           \/ LeaveChannel(u, c) \/ ReleaseEngine(u, c)
           \/ \E p \in User : UserJoined(u, c, p) \/ UserOffline(u, c, p)
    PROVE  RemovalInv'
<1>1. TypeOK
  BY DEF RemovalInv, CallInv
<1>2. UNCHANGED <<calling, dial, ending>>
  BY DEF CreateEngine, JoinChannel, LeaveChannel, ReleaseEngine, UserJoined, UserOffline
<1>3. \A v \in User : page'[v] \in {page[v], Home}
  <2>1. page' = page \/ page' = [page EXCEPT ![u] = Home]
    BY DEF CreateEngine, JoinChannel, LeaveChannel, ReleaseEngine, UserJoined,
       UserOffline
  <2> QED
    BY <1>1, <2>1 DEF TypeOK
<1>4. \A v \in User, d \in CallId : HasEnded(v, d)' => HasEnded(v, d)
  <2>1. deed' = deed \/ deed' = deed \cup {<<"met", u, c>>}
    BY DEF CreateEngine, JoinChannel, LeaveChannel, ReleaseEngine, UserJoined,
       UserOffline
  <2> QED
    BY <2>1 DEF HasEnded
<1>5. \/ UNCHANGED outbox
      \/ \E s, r \in Status, t \in {"keep", "null", "now"} : Issue(u, Report(c, s, r, t))
  BY DEF CreateEngine, JoinChannel, LeaveChannel, ReleaseEngine, UserJoined,
     UserOffline, Status
<1>6. Extended
  <2>1. ASSUME NEW s \in Status, NEW r \in Status, NEW t \in {"keep", "null", "now"},
               Issue(u, Report(c, s, r, t))
        PROVE  Extended
    BY <1>1, <2>1, ReportIsWrites, IssueExtends
  <2> QED
    BY <1>1, <1>5, <2>1, QuietExtends
<1> QED
  BY <1>2, <1>3, <1>4, <1>6, QuietRemoval

\* endCall leaves no document of v that is not on its way out: the one there
\* is either was deleted before or is the one it finds.
LEMMA DeletionClears ==
    ASSUME TypeOK, OneDocEach, UNCHANGED calling, NEW u \in User, NEW v \in User,
           NEW S \in SUBSET calling[v], View(u, v) \subseteq S,
           NEW w \in Deletions(v, S), NEW writes \in Seq(Write), Issue(u, writes),
           \A k \in DOMAIN w : \E n \in DOMAIN writes : writes[n] = w[k]
    PROVE  Clearing(u, v)'
<1>1. /\ Extended
      /\ \A k \in DOMAIN writes :
             /\ New(u, Len(outbox[u]) + k)
             /\ outbox'[u][Len(outbox[u]) + k] = writes[k]
  BY IssueExtends
<1> SUFFICES ASSUME NEW d \in calling[v]
             PROVE  \E i \in DOMAIN outbox'[u] :
                        outbox'[u][i] = [kind |-> "delete", owner |-> v, doc |-> d]
  BY DEF Clearing
<1> DEFINE x == [kind |-> "delete", owner |-> v, doc |-> d]
<1>2. CASE d \notin View(u, v)
  <2>1. PICK i \in 1 .. Len(outbox[u]) : outbox[u][i] = x
    BY <1>2 DEF View
  <2>2. i \in DOMAIN outbox[u]
    BY <2>1 DEF TypeOK
  <2> QED
    BY <1>1, <2>1, <2>2 DEF Extended
<1>3. CASE d \in View(u, v)
  <2>1. S # {}
    BY <1>3
  <2>2. PICK e \in First(S) : w = <<[kind |-> "delete", owner |-> v, doc |-> e]>>
    BY <2>1 DEF Deletions
  <2>3. e = d
    BY <2>2 DEF First, OneDocEach
  <2>4. 1 \in DOMAIN w /\ w[1] = x
    BY <2>2, <2>3
  <2>5. PICK n \in DOMAIN writes : writes[n] = x
    BY <2>4
  <2> QED
    BY <1>1, <2>5 DEF New
<1> QED
  BY <1>2, <1>3

\* endCall finds every document of the only call.
LEMMA EndingFinds ==
    ASSUME RemovalInv, Undisturbed, NEW u \in User, NEW c \in CallId,
           ending[u][c] # "no"
    PROVE  /\ View(u, Caller[c]) \subseteq DialledBy(u, c)
           /\ View(u, Receiver[c]) \subseteq ReceivedBy(u, c)
           /\ DialledBy(u, c) \subseteq calling[Caller[c]]
           /\ ReceivedBy(u, c) \subseteq calling[Receiver[c]]
           /\ \A e \in placed : e = c
<1>1. TypeOK /\ CallingOK /\ EndingOK /\ DeedsOK
  BY DEF RemovalInv, CallInv
<1>2. HasEnded(u, c)
  <2>1. ending[u][c] \in EndStep
    BY <1>1 DEF TypeOK
  <2> QED
    BY <1>1, <2>1 DEF EndStep, EndingOK, HasEnded, Rejected
<1>3. \A e \in placed : e = c
  BY <1>1, <1>2 DEF DeedsOK, Undisturbed
<1>4. Caller[c] \in User /\ Receiver[c] \in User
  BY CallAssumption
<1>5. \A v \in User : \A d \in View(u, v) : d.call = c
  BY <1>1, <1>3 DEF View, CallingOK
<1> QED
  BY <1>3, <1>4, <1>5 DEF DialledBy, ReceivedBy, View

LEMMA EndCallAtCallerRemoval ==
    ASSUME RemovalInv, CallInv', DeedsOK', Undisturbed' => Undisturbed,
           NEW u \in User, NEW c \in CallId, EndCallAtCaller(u, c)
    PROVE  RemovalInv'
<1>1. TypeOK
  BY DEF RemovalInv, CallInv
<1>2. PICK w \in Deletions(Caller[c], DialledBy(u, c)) : Issue(u, w)
  BY DEF EndCallAtCaller
<1>3. w \in Seq(Write) /\ Caller[c] \in User
  BY <1>1, FoundDocs, DeletionsAreWrites
<1>4. Extended
  BY <1>1, <1>2, <1>3, IssueExtends
<1>5. /\ UNCHANGED <<calling, dial, page, deed>>
      /\ ending[u][c] # "no" /\ ending'[u][c] \in {"hangReceiver", "rejectReceiver"}
      /\ \A v \in User, d \in CallId : v # u \/ d # c => ending'[v][d] = ending[v][d]
  BY <1>1 DEF EndCallAtCaller, TypeOK
<1>6. ASSUME Undisturbed
      PROVE  Clearing(u, Caller[c])'
  <2>1. /\ View(u, Caller[c]) \subseteq DialledBy(u, c)
        /\ DialledBy(u, c) \subseteq calling[Caller[c]]
    BY <1>5, <1>6, EndingFinds
  <2>2. OneDocEach
    BY <1>6 DEF RemovalInv
  <2> QED
    BY <1>1, <1>2, <1>3, <1>5, <2>1, <2>2, DeletionClears
<1>7. \A v \in User, d \in CallId : HasEnded(v, d)' => HasEnded(v, d)
  BY <1>5 DEF HasEnded
<1> QED
  BY <1>4, <1>5, <1>6, <1>7, RemovalStep

LEMMA EndCallAtReceiverRemoval ==
    ASSUME RemovalInv, CallInv', DeedsOK', Undisturbed' => Undisturbed,
           NEW u \in User, NEW c \in CallId, EndCallAtReceiver(u, c)
    PROVE  RemovalInv'
<1>1. TypeOK
  BY DEF RemovalInv, CallInv
<1>2. PICK w \in Deletions(Receiver[c], ReceivedBy(u, c)) : Finish(u, c, w)
  BY DEF EndCallAtReceiver
<1> DEFINE q == LastReport(u, c)
           both == w \o q
<1>3. /\ w \in Seq(Write) /\ q \in Seq(Write) /\ Issue(u, both)
      /\ Caller[c] \in User /\ Receiver[c] \in User
  BY <1>1, <1>2, FoundDocs, DeletionsAreWrites DEF Finish
<1> HIDE DEF q
<1>4. both \in Seq(Write) /\ \A k \in DOMAIN w : \E n \in DOMAIN both : both[n] = w[k]
  BY <1>3
<1> HIDE DEF both
<1>5. Extended
  BY <1>1, <1>3, <1>4, IssueExtends
<1>6. /\ UNCHANGED <<calling, dial, deed>>
      /\ ending[u][c] \in {"hangReceiver", "rejectReceiver"} /\ ending'[u][c] = "no"
      /\ \A v \in User, d \in CallId : v # u \/ d # c => ending'[v][d] = ending[v][d]
      /\ \A v \in User : page'[v] \in {page[v], Home}
  <2>1. /\ UNCHANGED <<calling, dial, deed>>
        /\ ending' = [ending EXCEPT ![u][c] = "no"]
        /\ page' = [page EXCEPT ![u] = Home]
    BY <1>2 DEF Finish
  <2>2. ending[u][c] \in {"hangReceiver", "rejectReceiver"}
    BY DEF EndCallAtReceiver
  <2> QED
    BY <1>1, <2>1, <2>2 DEF TypeOK
<1>7. ASSUME Undisturbed, NEW v \in Parties(c)
      PROVE  Clearing(u, v)'
  <2>1. OneDocEach /\ EndCallClears
    BY <1>7 DEF RemovalInv
  <2>2. CASE v = Receiver[c]
    <3>1. /\ View(u, Receiver[c]) \subseteq ReceivedBy(u, c)
          /\ ReceivedBy(u, c) \subseteq calling[Receiver[c]]
      BY <1>6, <1>7, EndingFinds
    <3> QED
      BY <1>1, <1>2, <1>3, <1>4, <1>6, <2>1, <2>2, <3>1, DeletionClears
  <2>3. CASE v = Caller[c]
    <3>1. Clearing(u, Caller[c])
      BY <1>6, <2>1 DEF EndCallClears
    <3> QED
      BY <1>3, <1>5, <1>6, <2>3, <3>1, ClearingStays
  <2> QED
    BY <2>2, <2>3 DEF Parties
<1>8. \A v \in User, d \in CallId : HasEnded(v, d)' => HasEnded(v, d)
  BY <1>6 DEF HasEnded
<1>9. Undisturbed' => \A v \in Parties(c) : Clearing(u, v)'
  BY <1>7
<1> QED
  BY <1>5, <1>6, <1>8, <1>9, RemovalStep

LEMMA CommitRemoval ==
    ASSUME RemovalInv, CallInv', DeedsOK', Undisturbed' => Undisturbed,
           NEW u \in User, Commit(u)
    PROVE  RemovalInv'
<1> SUFFICES ASSUME Undisturbed'
             PROVE  OneDocEach' /\ DialledFirst' /\ EndCallClears'
  BY DEF RemovalInv
<1>1. TypeOK /\ OneDocEach /\ DialledFirst /\ EndCallClears
  BY DEF RemovalInv, CallInv
<1>2. UNCHANGED <<dial, page, ending, deed>>
  BY DEF Commit, clientVars
<1>3. PICK w \in Write : w = outbox[u][1] /\ w = Head(outbox[u])
  BY <1>1, Committed
<1>4. /\ \A v \in User : calling'[v] \subseteq calling[v]
      /\ w.kind = "delete" => w.doc \notin calling'[w.owner]
  <2>1. CASE w.kind = "status"
    BY <1>3, <2>1 DEF Commit
  <2>2. CASE w.kind # "status"
    <3>1. calling' = [calling EXCEPT ![w.owner] = @ \ {w.doc}] /\ w.owner \in User
      BY <1>3, <2>2 DEF Commit, Write, StatusWrite, DeleteWrite
    <3> QED
      BY <1>1, <3>1 DEF TypeOK
  <2> QED
    BY <2>1, <2>2
<1>5. ASSUME NEW x \in User, NEW v \in User, Clearing(x, v)
      PROVE  Clearing(x, v)'
  <2> SUFFICES ASSUME NEW d \in calling'[v]
               PROVE  \E i \in DOMAIN outbox'[x] :
                          outbox'[x][i] = [kind |-> "delete", owner |-> v, doc |-> d]
    BY DEF Clearing
  <2>1. PICK i \in DOMAIN outbox[x] :
            outbox[x][i] = [kind |-> "delete", owner |-> v, doc |-> d]
    BY <1>4, <1>5 DEF Clearing
  <2>2. CASE x # u
    BY <1>1, <2>1, <2>2, Committed
  <2>3. CASE x = u
    <3>1. i # 1
      BY <1>3, <1>4, <2>1, <2>3
    <3> QED
      BY <1>1, <2>1, <2>3, <3>1, Committed
  <2> QED
    BY <2>2, <2>3
<1>6. OneDocEach'
  <2>1. \A v \in User : dial[v] # NotDialling => Receiver[dial[v].call] \in User
    BY CallAssumption DEF RemovalInv, CallInv, DialOK, TypeOK
  <2> QED
    BY <1>1, <1>2, <1>4, <2>1 DEF OneDocEach
<1>7. DialledFirst'
  BY <1>1, <1>2 DEF DialledFirst, HasEnded
<1>8. EndCallClears'
  <2>1. \A c \in CallId : /\ Parties(c)' = Parties(c) /\ Parties(c) \subseteq User
                          /\ Caller[c] \in Parties(c)
    BY CallAssumption DEF Parties
  <2> QED
    BY <1>1, <1>2, <1>5, <2>1 DEF EndCallClears, HasEnded
<1> QED
  BY <1>6, <1>7, <1>8

LEMMA StepRemoval == RemovalInv /\ [Next]_vars => RemovalInv'
<1> SUFFICES ASSUME RemovalInv, [Next]_vars
             PROVE  RemovalInv'
  OBVIOUS
<1>1. CallInv' /\ TypeOK
  BY NextInv DEF RemovalInv, CallInv
<1>2. CASE UNCHANGED vars
  <2>1. UNCHANGED <<calling, dial, ending, page, deed, outbox, placed, faults>>
    BY <1>2 DEF vars, clientVars
  <2>2. Extended
    BY <1>1, <2>1, QuietExtends
  <2>3. DeedsOK'
    BY <2>1 DEF RemovalInv, DeedsOK, HasEnded, Parties
  <2> QED
    BY <1>1, <2>1, <2>2, <2>3, QuietRemoval DEF Undisturbed, HasEnded
<1>3. CASE Next
  <2>1. DeedsOK' /\ (Undisturbed' => Undisturbed)
    BY <1>1, <1>3, DeedsStep, UndisturbedBefore DEF RemovalInv
  <2>2. CASE faults' # 0
    BY <1>1, <2>1, <2>2 DEF RemovalInv, Undisturbed
  <2>3. ASSUME NEW u \in User, Kill(u) \/ \E c \in CallId : EndCallThrows(u, c)
        PROVE  faults' # 0
    BY <1>1, <2>3 DEF Kill, EndCallThrows, TypeOK
  <2>4. ASSUME NEW u \in User, NEW c \in CallId, CallStep(u, c)
        PROVE  RemovalInv'
    BY <1>1, <2>1, <2>2, <2>3, <2>4, DialRemoval, TapRemoval, EngineRemoval,
       EndCallAtCallerRemoval, EndCallAtReceiverRemoval DEF CallStep
  <2>5. ASSUME NEW u \in User, DeviceStep(u)
        PROVE  RemovalInv'
    BY <1>1, <2>1, <2>2, <2>3, <2>5, AddCallerDocRemoval, AddReceiverDocRemoval,
       CommitRemoval DEF DeviceStep
  <2> QED
    BY <1>3, <2>4, <2>5 DEF Next
<1> QED
  BY <1>2, <1>3

(* When only one call was placed and nothing was killed or failed, a user  *)
(* who hung up or rejected it leaves no calling document of it at either   *)
(* party once its endCall has run and its writes are committed: no phone   *)
(* rings for a call that is over.                                          *)
THEOREM EndingRemoves == Spec => [](Undisturbed => EndCallRemovesCall)
<1>1. Spec => []RemovalInv
  BY InitRemoval, StepRemoval, PTL DEF Spec
<1>2. RemovalInv => (Undisturbed => EndCallRemovesCall)
  <2> SUFFICES ASSUME RemovalInv, Undisturbed, NEW u \in User, NEW c \in CallId,
                      HasEnded(u, c), ending[u][c] = "no", outbox[u] = <<>>,
                      NEW v \in Parties(c), NEW d \in calling[v]
               PROVE  d.call # c
    BY DEF EndCallRemovesCall
  <2>1. Clearing(u, v)
    BY DEF RemovalInv, EndCallClears
  <2> QED
    BY <2>1 DEF Clearing
<1> QED
  BY <1>1, <1>2, PTL
=============================================================================
