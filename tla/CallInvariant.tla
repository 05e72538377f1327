---------------------------- MODULE CallInvariant ----------------------------
(***************************************************************************)
(* The strengthening of the safety properties of CallSignalling that every *)
(* step preserves.  Each conjunct says where one piece of state, local to  *)
(* a client or in flight, comes from; together they justify what reaches   *)
(* the shared documents.                                                   *)
(***************************************************************************)
EXTENDS CallSignalling

Accepted(c) == <<"accept", Receiver[c], c>> \in deed

Rejected(c) == <<"reject", Receiver[c], c>> \in deed

HungUp(c) == \E v \in Parties(c) : <<"hangup", v, c>> \in deed

\* A reason for which a client of c may find its peer gone.
Broken(c) == HungUp(c) \/ faults > 0 \/ Crossed(c)

\* The status s of call c is one the deeds so far account for.
Justified(s, c) ==
    /\ s = "rejected" => Rejected(c)
    /\ s = "pickedUp" => Accepted(c) \/ Crossed(c)
    /\ s = "ended" => Broken(c)

JustifiedWrite(w) ==
    IF w.kind = "status" THEN Justified(w.status, w.call)
                         ELSE RemovedOnBehalf(w.owner, w.doc)

\* calling documents belong to the parties of a call that was placed.
CallingOK ==
    \A u \in User : \A d \in calling[u] :
        d.call \in placed /\ u \in Parties(d.call)

\* Only its caller dials a call, before it has an engine for it.
DialOK ==
    \A u \in User : dial[u] # NotDialling
        => /\ dial[u].call \in placed
           /\ u = Caller[dial[u].call]
           /\ session[u][dial[u].call] = "none"

\* A call page is open at a party.
PageOK ==
    \A u \in User : page[u] # Home
        => page[u] \in placed /\ u \in Parties(page[u])

\* The receiver has an engine only after it accepted; an engine that leaves
\* was told to by its own user.
SessionOK ==
    \A u \in User, c \in CallId : session[u][c] # "none"
        => /\ c \in placed
           /\ u = Caller[c] \/ (u = Receiver[c] /\ Accepted(c))
           /\ session[u][c] = "leaving" => <<"hangup", u, c>> \in deed

\* A peer the engine knows is the other party, still in the channel, unless
\* the call is broken.
PeersOK ==
    \A u \in User, c \in CallId : \A v \in peers[u][c] :
        Broken(c) \/ session[v][c] = "joined"

\* endCall runs for the tap of a party; the one for reject at the receiver.
EndingOK ==
    \A u \in User, c \in CallId :
        /\ ending[u][c] \in {"hangCaller", "hangReceiver"}
               => u \in Parties(c) /\ <<"hangup", u, c>> \in deed
        /\ ending[u][c] \in {"rejectCaller", "rejectReceiver"}
               => u = Receiver[c] /\ Rejected(c)

HistoryOK ==
    \A u \in User, c \in CallId : Justified(history[u][c].status, c)

OutboxOK ==
    \A u \in User : \A i \in 1..Len(outbox[u]) : JustifiedWrite(outbox[u][i])

(* Every status and every deletion that is on a device, in flight or       *)
(* committed is accounted for by what the users of that call did.          *)
CallInv ==
    /\ TypeOK
    /\ CallingOK
    /\ DialOK
    /\ PageOK
    /\ SessionOK
    /\ PeersOK
    /\ EndingOK
    /\ HistoryOK
    /\ OutboxOK

-----------------------------------------------------------------------------
(* The time a call was picked up at.                                       *)

\* w is a status of call c for v.
IsFor(w, v, c) == w.kind = "status" /\ w.owner = v /\ w.call = c

Starts(w, c) == w.kind = "status" /\ w.call = c /\ w.started = "now"

Clears(w, c) == w.kind = "status" /\ w.call = c /\ w.started = "null"

\* The caller's engine for c has not joined and still may: a call is dialled
\* once, so its caller joins once.
Unjoined(c) ==
    \/ c \notin placed
    \/ dial[Caller[c]] # NotDialling /\ dial[Caller[c]].call = c
    \/ session[Caller[c]][c] \in {"asking", "starting"}

\* Until the caller has joined no call is started, on a device or committed.
UnjoinedOK ==
    \A c \in CallId : Unjoined(c) =>
        \A v \in User :
            /\ ~history[v][c].started
            /\ \A i \in DOMAIN outbox[v] : ~Starts(outbox[v][i], c)

\* Only the caller's device starts a call.
StartsOK ==
    \A c \in CallId, u \in User : \A i \in DOMAIN outbox[u] :
        Starts(outbox[u][i], c) => u = Caller[c]

\* What clears the start of a video call is a rejection, or the report of the
\* caller's joining, which its outbox holds before any start.
ClearsOK ==
    \A c \in Video, u \in User : \A i \in DOMAIN outbox[u] :
        Clears(outbox[u][i], c) =>
            \/ Rejected(c)
            \/ /\ u = Caller[c]
               /\ \A v \in User : ~history[v][c].started
               /\ \A j \in DOMAIN outbox[u] : j < i => ~Starts(outbox[u][j], c)

StartInv == CallInv /\ UnjoinedOK /\ StartsOK /\ ClearsOK

-----------------------------------------------------------------------------
(* The last status of a call its caller hung up.                           *)

\* Whatever the receiver's device has in flight about c says that it is over.
ReceiverOK ==
    \A c \in CallId, u, v \in User : \A i \in DOMAIN outbox[u] :
        u # Caller[c] /\ IsFor(outbox[u][i], v, c)
            => outbox[u][i].status \in Over

\* From place i on, the caller's device has only this in flight for v.
OverFrom(i, v, c) ==
    \A j \in DOMAIN outbox[Caller[c]] :
        j >= i /\ IsFor(outbox[Caller[c]][j], v, c)
            => outbox[Caller[c]][j].status \in Over

\* v's entry of c is over, or a write in flight makes it so, and no later
\* write undoes it.
Lasting(v, c) ==
    \/ history[v][c].status \in Over /\ OverFrom(1, v, c)
    \/ \E i \in DOMAIN outbox[Caller[c]] :
           IsFor(outbox[Caller[c]][i], v, c) /\ OverFrom(i, v, c)

\* The caller hung c up, its endCall has run and its engine has stopped.
Stopped(c) ==
    /\ <<"hangup", Caller[c], c>> \in deed
    /\ ending[Caller[c]][c] = "no"
    /\ session[Caller[c]][c] \in {"none", "leaving", "left"}

OverInv ==
    /\ CallInv
    /\ ReceiverOK
    /\ faults = 0 =>
           \A c \in CallId : Stopped(c) => \A v \in Parties(c) : Lasting(v, c)

-----------------------------------------------------------------------------
(* The calling documents of a call that is the only one.                   *)

\* One call so far, no kill and no failed query.
Undisturbed == (\A c, d \in placed : c = d) /\ faults = 0

DeedsOK ==
    \A u \in User, c \in CallId :
        HasEnded(u, c) => c \in placed /\ u \in Parties(c)

\* audioAndVideoCallApi adds one document per party, the receiver's last.
OneDocEach ==
    /\ \A v \in User : \A d, e \in calling[v] : d = e
    /\ \A u \in User : dial[u] # NotDialling =>
           /\ calling[Receiver[dial[u].call]] = {}
           /\ dial[u].step = "caller" => calling[u] = {}

\* The pages of a call open after its documents are there.
DialledFirst ==
    (\E u \in User : page[u] # Home \/ \E c \in CallId : HasEnded(u, c))
        => \A v \in User : dial[v] = NotDialling

\* u's device is about to delete every calling document of v.
Clearing(u, v) ==
    \A d \in calling[v] : \E i \in DOMAIN outbox[u] :
        outbox[u][i] = [kind |-> "delete", owner |-> v, doc |-> d]

\* endCall has looked at the caller's documents, or at both parties'.
EndCallClears ==
    \A u \in User, c \in CallId :
        /\ ending[u][c] \in {"hangReceiver", "rejectReceiver"}
               => Clearing(u, Caller[c])
        /\ HasEnded(u, c) /\ ending[u][c] = "no"
               => \A v \in Parties(c) : Clearing(u, v)

RemovalInv ==
    /\ CallInv
    /\ DeedsOK
    /\ Undisturbed => OneDocEach /\ DialledFirst /\ EndCallClears
=============================================================================
