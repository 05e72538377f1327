--------------------------- MODULE CallSignalling ---------------------------
(***************************************************************************)
(* One-to-one audio and video calls.  Two clients never talk directly:     *)
(* they share the documents of the Firestore collection calls and one      *)
(* Agora channel.                                                          *)
(*                                                                         *)
(*   calls/<user>/calling/<auto id>            the ring of a call: a copy  *)
(*       with hasDialled = true at the caller, false at the receiver       *)
(*   calls/<user>/collectionCallHistory/<timestamp>   the row of the call  *)
(*       in the user's call list                                           *)
(*                                                                         *)
(* A handler is one action per stretch of code between two awaits.  A      *)
(* write that is not awaited goes to the outbox of its client, which the   *)
(* Firestore SDK commits in order, while other clients commit theirs in    *)
(* between.  A query sees the committed documents less those whose         *)
(* deletion waits in the client's own outbox.                              *)
(***************************************************************************)
EXTENDS Naturals, Sequences

CONSTANTS
    User,       \* the user accounts, one device each
    CallId,     \* the calls, named by their timestamp in the code
    Caller,     \* Caller[c], the account that places call c
    Receiver,   \* Receiver[c], the account it is placed to
    Video,      \* the calls placed with isVideoCall = true
    DocId,      \* auto ids of calling documents; limit(1) reads the least
    Home,       \* the page of a user with no call page open
    MaxFaults   \* bound on process kills and failing queries

ASSUME CallAssumption ==
    /\ Caller \in [CallId -> User]
    /\ Receiver \in [CallId -> User]
    /\ \A c \in CallId : Caller[c] # Receiver[c]
    /\ Video \subseteq CallId
    /\ DocId \subseteq Nat
    /\ Home \notin CallId
    /\ MaxFaults \in Nat

VARIABLES
    calling,   \* calling[u]: the documents of calls/u/calling
    history,   \* history[u][c]: the entry of c in u's collectionCallHistory
    outbox,    \* outbox[u]: writes u's device has issued and not committed
    placed,    \* the calls whose audioAndVideoCallApi has started
    dial,      \* dial[u]: where u's audioAndVideoCallApi stands, if running
    page,      \* page[u]: the call whose page u has open, or Home
    session,   \* session[u][c]: u's Agora engine for call c
    peers,     \* peers[u][c]: the remote users that engine reported joined
    quiet,     \* <<u, c>> for which isAlreadyEnded is set
    ending,    \* ending[u][c]: where u's endCall for c stands, if running
    deed,      \* history variable: what users did, see Deed
    faults     \* kills and failed queries so far

clientVars == <<dial, page, session, peers, quiet, ending>>
vars == <<calling, history, outbox, placed, deed, faults, clientVars>>

-----------------------------------------------------------------------------
Status == {"none", "calling", "missedCall", "pickedUp", "ended", "rejected"}

Entry == [status : Status, started : BOOLEAN]

Doc == [id : DocId, call : CallId]

DialStep == [call : CallId, step : {"caller", "receiver"}]

NotDialling == [step |-> "none"]

Phase == {"none", "asking", "starting", "joined", "leaving", "left"}

EndStep == {"no", "hangCaller", "hangReceiver",
            "rejectCaller", "rejectReceiver"}

StatusWrite == [kind : {"status"}, owner : User, call : CallId,
                status : Status, started : {"keep", "null", "now"}]

DeleteWrite == [kind : {"delete"}, owner : User, doc : Doc]

Write == StatusWrite \cup DeleteWrite

Deed == {"accept", "reject", "hangup", "met"} \X User \X CallId

Parties(c) == {Caller[c], Receiver[c]}

\* hasDialled of a calling document is true exactly in the caller's copy.
HasDialled(u, d) == u = Caller[d.call]

\* The document that limit(1) returns: documents come in the order of ids.
First(S) == {d \in S : \A e \in S : d.id <= e.id}

\* What a query of u on calls/v/calling ranges over.
View(u, v) ==
    {d \in calling[v] : \A i \in 1..Len(outbox[u]) :
        outbox[u][i] # [kind |-> "delete", owner |-> v, doc |-> d]}

\* The calls PickupLayout shows ringing at u: its only document, not dialled.
Ringing(u) == {d.call : d \in {e \in First(View(u, u)) : ~HasDialled(u, e)}}

\* The users in the Agora channel, whatever call brought them in.
InChannel == {u \in User : \E c \in CallId : session[u][c] = "joined"}

SetStatus(v, c, s, t) ==
    [kind |-> "status", owner |-> v, call |-> c, status |-> s, started |-> t]

\* Mutant: the caller's document is forgotten.
ReportToReceiver(c, callerStatus, receiverStatus, started) ==
    <<SetStatus(Receiver[c], c, receiverStatus, started)>>

\* The pair of writes with which every handler reports a status: first the
\* caller's history document, then the receiver's.
Report(c, callerStatus, receiverStatus, started) ==
    <<SetStatus(Caller[c], c, callerStatus, started),
      SetStatus(Receiver[c], c, receiverStatus, started)>>

\* Deletion of the first of the documents S of calls/v/calling, if any.
Deletions(v, S) ==
    IF S = {} THEN {<<>>}
    ELSE {<<[kind |-> "delete", owner |-> v, doc |-> d]>> : d \in First(S)}

Issue(u, writes) == outbox' = [outbox EXCEPT ![u] = @ \o writes]

-----------------------------------------------------------------------------
Init ==
    /\ calling = [u \in User |-> {}]
    /\ history = [u \in User |-> [c \in CallId |->
                     [status |-> "none", started |-> FALSE]]]
    /\ outbox = [u \in User |-> <<>>]
    /\ placed = {}
    /\ dial = [u \in User |-> NotDialling]
    /\ page = [u \in User |-> Home]
    /\ session = [u \in User |-> [c \in CallId |-> "none"]]
    /\ peers = [u \in User |-> [c \in CallId |-> {}]]
    /\ quiet = {}
    /\ ending = [u \in User |-> [c \in CallId |-> "no"]]
    /\ deed = {}
    /\ faults = 0

-----------------------------------------------------------------------------
(* Placing a call: audioAndVideoCallApi.                                   *)

\* The caller taps the call button of a chat page (not covered by a ring).
Dial(u, c) ==
    /\ u = Caller[c]
    /\ c \notin placed
    /\ page[u] = Home
    /\ Ringing(u) = {}
    /\ dial[u] = NotDialling
    /\ placed' = placed \cup {c}
    /\ dial' = [dial EXCEPT ![u] = [call |-> c, step |-> "caller"]]
    /\ UNCHANGED <<calling, history, outbox, page, session, peers, quiet,
                   ending, deed, faults>>

\* Mutant: the document is set under a fixed id, replacing the one there.
SetDoc(v, c) ==
    \E id \in DocId : calling' = [calling EXCEPT ![v] = {[id |-> id, call |-> c]}]

\* An awaited add is committed after the writes issued before it.
AddDoc(v, c) ==
    \E id \in DocId \ {d.id : d \in calling[v]} :
        calling' = [calling EXCEPT ![v] = @ \cup {[id |-> id, call |-> c]}]

AddCallerDoc(u) ==
    /\ dial[u].step = "caller"
    /\ outbox[u] = <<>>
    /\ AddDoc(u, dial[u].call)
    /\ dial' = [dial EXCEPT ![u].step = "receiver"]
    /\ UNCHANGED <<history, outbox, placed, page, session, peers, quiet,
                   ending, deed, faults>>

\* The receiver's copy makes its phone ring; the caller opens the call page.
AddReceiverDoc(u) ==
    LET c == dial[u].call IN
    /\ dial[u].step = "receiver"
    /\ outbox[u] = <<>>
    /\ AddDoc(Receiver[c], c)
    /\ dial' = [dial EXCEPT ![u] = NotDialling]
    /\ page' = [page EXCEPT ![u] = c]
    /\ session' = [session EXCEPT ![u][c] = "asking"]
    /\ UNCHANGED <<history, outbox, placed, peers, quiet, ending, deed,
                   faults>>

-----------------------------------------------------------------------------
(* The ring at the receiver: PickupBody.                                   *)

\* Accept opens the call page and leaves the calling documents alone.  A ring
\* that outlives a call can be accepted again once its engine has answered.
Accept(u, c) ==
    /\ c \in Ringing(u)
    /\ page[u] = Home
    /\ dial[u] = NotDialling
    /\ session[u][c] # "leaving"
    /\ page' = [page EXCEPT ![u] = c]
    /\ session' = [session EXCEPT ![u][c] =
                      IF @ \in {"none", "left"} THEN "asking" ELSE @]
    /\ quiet' = quiet \ {<<u, c>>}
    /\ deed' = deed \cup {<<"accept", u, c>>}
    /\ UNCHANGED <<calling, history, outbox, placed, dial, peers, ending,
                   faults>>

\* Reject runs the endCall of the video controller.
Reject(u, c) ==
    /\ c \in Ringing(u)
    /\ page[u] = Home
    /\ dial[u] = NotDialling
    /\ ending[u][c] = "no"
    /\ ending' = [ending EXCEPT ![u][c] = "rejectCaller"]
    /\ deed' = deed \cup {<<"reject", u, c>>}
    /\ UNCHANGED <<calling, history, outbox, placed, dial, page, session,
                   peers, quiet, faults>>

-----------------------------------------------------------------------------
(* The Agora engine of a call page.  Every call uses the channel           *)
(* fonts.channel, whatever its channelId.                                  *)

\* The permission dialog is answered and the engine created.
CreateEngine(u, c) ==
    /\ session[u][c] = "asking"
    /\ session' = [session EXCEPT ![u][c] = "starting"]
    /\ UNCHANGED <<calling, history, outbox, placed, dial, page, peers,
                   quiet, ending, deed, faults>>

\* The test call!.callerId == userData["id"] of the Agora handlers.
IsCaller(u, c) == u = Caller[c]

\* joinChannel and the handler onJoinChannelSuccess.
JoinChannel(u, c) ==
    /\ session[u][c] = "starting"
    /\ session' = [session EXCEPT ![u][c] = "joined"]
    /\ IF IsCaller(u, c)
       THEN Issue(u, Report(c, "calling", "missedCall", "null"))
       ELSE UNCHANGED outbox
    /\ UNCHANGED <<calling, history, placed, dial, page, peers, quiet,
                   ending, deed, faults>>

\* Mutant: the user itself is reported.
AnyoneJoined(u, c) == InChannel \ peers[u][c]

\* The users of the channel that u's engine has still to report.
HasJoined(u, c) == InChannel \ ({u} \cup peers[u][c])

\* onUserJoined: any other user in the channel, whatever call brought it in.
UserJoined(u, c, v) ==
    /\ session[u][c] = "joined"
    /\ v \in HasJoined(u, c)
    /\ peers' = [peers EXCEPT ![u][c] = @ \cup {v}]
    /\ IF IsCaller(u, c)
       THEN /\ Issue(u, Report(c, "pickedUp", "pickedUp", "now"))
            /\ deed' = deed \cup {<<"met", u, c>>}
       ELSE UNCHANGED <<outbox, deed>>
    /\ UNCHANGED <<calling, history, placed, dial, page, session, quiet,
                   ending, faults>>

\* Mutant: a user that is still there is reported.
AnyPeer(u, c) == peers[u][c]

\* The users u's engine reported that have left the channel since.
HasGone(u, c) == peers[u][c] \ InChannel

\* onUserOffline: the call is reported ended, but the page stays open.
UserOffline(u, c, v) ==
    /\ session[u][c] = "joined"
    /\ v \in HasGone(u, c)
    /\ peers' = [peers EXCEPT ![u][c] = @ \ {v}]
    /\ IF <<u, c>> \in quiet
       THEN UNCHANGED outbox
       ELSE Issue(u, Report(c, "ended", "ended", "keep"))
    /\ UNCHANGED <<calling, history, placed, dial, page, session, quiet,
                   ending, deed, faults>>

\* leaveChannel and release: an engine not created yet joins all the same.
Leave(u, c) ==
    /\ session' = [session EXCEPT ![u][c] =
                      CASE @ = "joined" -> "leaving"
                        [] @ = "starting" -> "left"
                        [] OTHER -> @]
    /\ peers' = [peers EXCEPT ![u][c] = {}]

\* The handler onLeaveChannel.  Its Get.back pops whatever page is on top.
LeaveChannel(u, c) ==
    /\ session[u][c] = "leaving"
    /\ session' = [session EXCEPT ![u][c] = "left"]
    /\ page' = [page EXCEPT ![u] = Home]
    /\ IF <<u, c>> \in quiet
       THEN UNCHANGED outbox
       ELSE Issue(u, Report(c, "ended", "ended", "keep"))
    /\ UNCHANGED <<calling, history, placed, dial, peers, quiet, ending,
                   deed, faults>>

\* release comes before the callback, which is then never delivered.
ReleaseEngine(u, c) ==
    /\ session[u][c] = "leaving"
    /\ session' = [session EXCEPT ![u][c] = "left"]
    /\ UNCHANGED <<calling, history, outbox, placed, dial, page, peers,
                   quiet, ending, deed, faults>>

-----------------------------------------------------------------------------
(* Hanging up: the toolbar, onCallEnd and endCall.                         *)

\* The history document the call page listens to: the audio page the peer's,
\* the video page the user's own.
Watched(u, c) ==
    IF c \in Video THEN u
    ELSE IF u = Caller[c] THEN Receiver[c] ELSE Caller[c]

\* The status u's SDK gives a listener on v's history document: what u itself
\* wrote last, even before it is committed, or else the committed one.
Shown(u, v, c) ==
    LET own == SelectSeq(outbox[u], LAMBDA w :
                   w.kind = "status" /\ w.owner = v /\ w.call = c)
    IN  IF own = <<>> THEN history[v][c].status ELSE own[Len(own)].status

\* The red button.  The listener may lag behind the backend, so a status that
\* is over may still be shown as running.
HangUp(u, c) ==
    LET status == Shown(u, Watched(u, c), c) IN
    /\ page[u] = c
    /\ c \in Video => status # "none"
    /\ ending[u][c] = "no"
    /\ \/ /\ status \in {"ended", "rejected"}
          /\ quiet' = quiet \cup {<<u, c>>}
       \/ quiet' = quiet \ {<<u, c>>}
    /\ ending' = [ending EXCEPT ![u][c] = "hangCaller"]
    /\ IF c \in Video THEN UNCHANGED <<session, peers>> ELSE Leave(u, c)
    /\ deed' = deed \cup {<<"hangup", u, c>>}
    /\ UNCHANGED <<calling, history, outbox, placed, dial, page, faults>>

\* endCall, first query: the caller's documents with callerId = callerId.
DialledBy(u, c) == {d \in View(u, Caller[c]) : Caller[d.call] = Caller[c]}

EndCallAtCaller(u, c) ==
    /\ ending[u][c] \in {"hangCaller", "rejectCaller"}
    /\ \E deletion \in Deletions(Caller[c], DialledBy(u, c)) :
           Issue(u, deletion)
    /\ ending' = [ending EXCEPT ![u][c] =
                     IF @ = "hangCaller" THEN "hangReceiver"
                                         ELSE "rejectReceiver"]
    /\ UNCHANGED <<calling, history, placed, dial, page, session, peers,
                   quiet, deed, faults>>

\* Mutant: hanging up a call that nobody has joined counts as rejecting it.
RejectingUnjoined(u, c) == ending[u][c] # "no" /\ peers[u][c] = {}

Rejecting(u, c) == ending[u][c] \in {"rejectCaller", "rejectReceiver"}

\* Mutant: the video page clears started like the audio page.
LastReportClears(u, c) ==
    IF Rejecting(u, c) THEN Report(c, "rejected", "rejected", "null")
                       ELSE Report(c, "ended", "ended", "null")

\* Mutant: a rejected call is reported ended.
LastReportEnded(u, c) == Report(c, "ended", "ended", "keep")

\* Mutant: a status spelt in capitals, as reject spells the type INCOMING.
LastReportInCapitals(u, c) == Report(c, "ENDED", "ENDED", "keep")

\* Mutant: who ends the call reports to the other party alone.
LastReportToPeer(u, c) ==
    <<SetStatus(IF u = Caller[c] THEN Receiver[c] ELSE Caller[c], c,
                IF Rejecting(u, c) THEN "rejected" ELSE "ended", "null")>>

\* What reject and onCallEnd write about the call after endCall.
LastReport(u, c) ==
    IF Rejecting(u, c) THEN Report(c, "rejected", "rejected", "null")
    ELSE Report(c, "ended", "ended", IF c \in Video THEN "keep" ELSE "null")

\* What follows endCall, whether it returned true or false: the history of
\* both parties, and for a hangup the end of the page.
Finish(u, c, deletion) ==
    /\ ending' = [ending EXCEPT ![u][c] = "no"]
    /\ page' = [page EXCEPT ![u] = Home]
    /\ Issue(u, deletion \o LastReport(u, c))
    /\ IF c \in Video /\ ~Rejecting(u, c)
       THEN Leave(u, c)
       ELSE UNCHANGED <<session, peers>>
    /\ UNCHANGED <<calling, history, placed, dial, quiet, deed>>

\* Mutant: the receiver's documents are looked up by callerId too.
DialledByReceiver(u, c) ==
    {d \in View(u, Receiver[c]) : Caller[d.call] = Receiver[c]}

\* endCall, second query: the receiver's documents with its receiverId.
ReceivedBy(u, c) ==
    {d \in View(u, Receiver[c]) : Receiver[d.call] = Receiver[c]}

EndCallAtReceiver(u, c) ==
    /\ ending[u][c] \in {"hangReceiver", "rejectReceiver"}
    /\ \E deletion \in Deletions(Receiver[c], ReceivedBy(u, c)) :
           Finish(u, c, deletion)
    /\ UNCHANGED faults

\* A query throws: endCall returns false and nobody looks at the result.
EndCallThrows(u, c) ==
    /\ faults < MaxFaults
    /\ ending[u][c] # "no"
    /\ Finish(u, c, <<>>)
    /\ faults' = faults + 1

-----------------------------------------------------------------------------
(* Firestore and the operating system.                                     *)

\* set with merge = true: fields a write does not name keep their value.
Merge(entry, w) ==
    [status |-> w.status,
     started |-> IF w.started = "keep" THEN entry.started
                                       ELSE w.started = "now"]

\* The backend commits the oldest write of a device.
Commit(u) ==
    LET w == Head(outbox[u]) IN
    /\ outbox[u] # <<>>
    /\ outbox' = [outbox EXCEPT ![u] = Tail(@)]
    /\ IF w.kind = "status"
       THEN /\ history' = [history EXCEPT ![w.owner][w.call] = Merge(@, w)]
            /\ UNCHANGED calling
       ELSE /\ calling' = [calling EXCEPT ![w.owner] = @ \ {w.doc}]
            /\ UNCHANGED history
    /\ UNCHANGED <<placed, clientVars, deed, faults>>

\* The app is killed and started again.  The SDK keeps unsent writes on the
\* device; everything else the controllers held is gone.
Kill(u) ==
    /\ faults < MaxFaults
    /\ faults' = faults + 1
    /\ dial' = [dial EXCEPT ![u] = NotDialling]
    /\ page' = [page EXCEPT ![u] = Home]
    /\ session' = [session EXCEPT ![u] = [c \in CallId |-> "none"]]
    /\ peers' = [peers EXCEPT ![u] = [c \in CallId |-> {}]]
    /\ quiet' = {q \in quiet : q[1] # u}
    /\ ending' = [ending EXCEPT ![u] = [c \in CallId |-> "no"]]
    /\ UNCHANGED <<calling, history, outbox, placed, deed>>

-----------------------------------------------------------------------------
CallStep(u, c) ==
    \/ Dial(u, c)
    \/ Accept(u, c)
    \/ Reject(u, c)
    \/ CreateEngine(u, c)
    \/ JoinChannel(u, c)
    \/ \E v \in User : UserJoined(u, c, v)
    \/ \E v \in User : UserOffline(u, c, v)
    \/ LeaveChannel(u, c)
    \/ ReleaseEngine(u, c)
    \/ HangUp(u, c)
    \/ EndCallAtCaller(u, c)
    \/ EndCallAtReceiver(u, c)
    \/ EndCallThrows(u, c)

DeviceStep(u) ==
    \/ AddCallerDoc(u)
    \/ AddReceiverDoc(u)
    \/ Commit(u)
    \/ Kill(u)

Next ==
    \/ \E u \in User, c \in CallId : CallStep(u, c)
    \/ \E u \in User : DeviceStep(u)

Spec == Init /\ [][Next]_vars

(***************************************************************************)
(* What the SDKs and the event loop do without the user: coroutines run    *)
(* on, devices get their writes committed, Agora joins, leaves and reports *)
(* peers.  Users promise nothing: no tap is fair, and no call times out.   *)
(***************************************************************************)
Fairness ==
    /\ \A u \in User :
        /\ WF_vars(AddCallerDoc(u))
        /\ WF_vars(AddReceiverDoc(u))
        /\ WF_vars(Commit(u))
    /\ \A u \in User, c \in CallId :
        /\ WF_vars(JoinChannel(u, c))
        /\ WF_vars(LeaveChannel(u, c) \/ ReleaseEngine(u, c))
        /\ WF_vars(EndCallAtCaller(u, c) \/ EndCallAtReceiver(u, c))
        /\ \A v \in User : WF_vars(UserJoined(u, c, v))
        /\ \A v \in User : WF_vars(UserOffline(u, c, v))

FairSpec == Spec /\ Fairness

-----------------------------------------------------------------------------
(* Type invariant of the shared documents and of the clients' state.       *)
TypeOK ==
    /\ calling \in [User -> SUBSET Doc]
    /\ history \in [User -> [CallId -> Entry]]
    /\ outbox \in [User -> Seq(Write)]
    /\ placed \subseteq CallId
    /\ dial \in [User -> DialStep \cup {NotDialling}]
    /\ page \in [User -> CallId \cup {Home}]
    /\ session \in [User -> [CallId -> Phase]]
    /\ peers \in [User -> [CallId -> SUBSET User]]
    /\ quiet \subseteq User \X CallId
    /\ ending \in [User -> [CallId -> EndStep]]
    /\ deed \subseteq Deed
    /\ faults \in Nat

Over == {"ended", "rejected"}

\* u has hung c up or rejected it.
HasEnded(u, c) == <<"hangup", u, c>> \in deed \/ <<"reject", u, c>> \in deed

\* Some other call was placed, whose users are in the same Agora channel.
Crossed(c) == \E d \in placed : d # c

\* A history entry says rejected only if the receiver pressed reject, however
\* the reports of the two clients interleave (pick_up_body, onTap of reject).
RejectedByReceiver ==
    \A u \in User, c \in CallId :
        history[u][c].status = "rejected"
            => <<"reject", Receiver[c], c>> \in deed

\* A history entry says pickedUp only if the receiver accepted the call; the
\* one way around it is another call in the shared channel, whose users
\* onUserJoined takes for the receiver.
AnsweredOrCrossed ==
    \A u \in User, c \in CallId :
        history[u][c].status = "pickedUp"
            => <<"accept", Receiver[c], c>> \in deed \/ Crossed(c)

\* A history entry says ended only if a party hung up or its app was killed;
\* again another call in the shared channel is the only other cause.
EndedHasCause ==
    \A u \in User, c \in CallId :
        history[u][c].status = "ended"
            => \/ \E v \in Parties(c) : <<"hangup", v, c>> \in deed
               \/ faults > 0
               \/ Crossed(c)

\* A calling document is deleted only on behalf of a call that has the same
\* caller (at the caller) or the same receiver (at the receiver) and that one
\* of its parties hung up or rejected: endCall picks by party, not by call.
RemovedOnBehalf(u, d) ==
    \E c \in CallId :
        /\ \/ u = Caller[c] /\ u = Caller[d.call]
           \/ u = Receiver[c] /\ u = Receiver[d.call]
        /\ \E v \in Parties(c) : HasEnded(v, c)

DocsRemovedOnBehalf ==
    [][\A u \in User : \A d \in calling[u] \ calling'[u] :
           RemovedOnBehalf(u, d)]_vars

\* Once a user who hung up or rejected a call has run its endCall and had its
\* writes committed, neither party has a calling document of that call.
EndCallRemovesCall ==
    \A u \in User, c \in CallId :
        HasEnded(u, c) /\ ending[u][c] = "no" /\ outbox[u] = <<>>
            => \A v \in Parties(c) : \A d \in calling[v] : d.call # c

\* No engine, coroutine or write of call c is under way.
Settled(c) ==
    /\ \A u \in User : outbox[u] = <<>>
    /\ \A u \in User : dial[u] = NotDialling
    /\ \A u \in User : session[u][c] \in {"none", "left"}
    /\ \A u \in User : ending[u][c] = "no"

\* A call whose caller hung up and that has settled is over in the call list
\* of both parties: no write of either client that arrives late (calling,
\* missedCall, pickedUp) is the last one.
SettledCallIsOver ==
    \A c \in CallId :
        Settled(c) /\ <<"hangup", Caller[c], c>> \in deed
            => \A u \in Parties(c) : history[u][c].status \in Over

\* A video call keeps the time it was picked up at unless it is rejected:
\* onCallEnd of the video controller leaves started alone.
VideoKeepsStart ==
    [][\A u \in User, c \in Video :
           history[u][c].started /\ <<"reject", Receiver[c], c>> \notin deed
               => history'[u][c].started]_vars

\* Once a user has hung up and its onCallEnd has closed the page, its engine
\* is out of the channel and stays out (onCallEnd begins with _dispose).
HangUpLeavesChannel ==
    \A u \in User, c \in CallId :
        <<"hangup", u, c>> \in deed /\ ending[u][c] = "no" /\ page[u] = Home
            => session[u][c] # "joined"

\* After the caller hangs up the receiver's phone stops ringing for good.
HangUpStopsRing ==
    \A c \in CallId :
        <<"hangup", Caller[c], c>> \in deed
            ~> [](c \notin Ringing(Receiver[c]))

\* Once the caller's engine has reported the receiver of a video call and the
\* receiver has hung up and left the channel, the document the caller's page
\* listens to says over from some point on.
ReceiverHasLeft(c) ==
    /\ <<"met", Caller[c], c>> \in deed
    /\ <<"hangup", Receiver[c], c>> \in deed
    /\ session[Receiver[c]][c] = "left"

PeerHangUpIsReported ==
    \A c \in Video :
        ReceiverHasLeft(c)
            ~> [](history[Watched(Caller[c], c)][c].status \in Over)
=============================================================================
