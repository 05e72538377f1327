------------------------------ MODULE GroupCall ------------------------------
(***************************************************************************)
(* Video calls of a group.  The caller's device looks up every member,     *)
(* itself included, and for each one found adds a pair of documents to     *)
(*                                                                         *)
(*   calls/<user>/calling/<id>                                             *)
(*                                                                         *)
(* one at the caller (hasDialled = true) and one at the member, whose      *)
(* pages show it as a ring (PickupLayout).  The lookups and adds of the    *)
(* members run side by side.  Only the caller's page has the list of       *)
(* members: a member's page takes the call for a one-to-one call.  The     *)
(* call list and the Agora engine, which CallSignalling models, are left   *)
(* out but for the moment the caller's engine joins.                       *)
(***************************************************************************)
EXTENDS Naturals, Sequences, FiniteSets

CONSTANTS
    User,       \* the user accounts, one device each
    CallId,     \* the calls
    Caller,     \* Caller[c]: who places c
    Receivers,  \* Receivers[c]: the list of the group's members, the caller included
    Gone,       \* members whose account was deleted: their lookup fails
    DocId,      \* ids of calling documents; limit(1) reads the least
    Stamp,      \* Stamp[c]: the id made of c's timestamp
    Home,       \* the page of a user with no call page open
    MaxKills    \* bound on process kills

ASSUME GroupCallAssumption ==
    /\ Caller \in [CallId -> User]
    /\ Receivers \in [CallId -> Seq(User)]
    /\ \A c \in CallId : \E i \in DOMAIN Receivers[c] : Receivers[c][i] = Caller[c]
    /\ Gone \subseteq User
    /\ DocId \subseteq Nat
    /\ Stamp \in [CallId -> Nat \ DocId]
    /\ \A c, e \in CallId : Stamp[c] = Stamp[e] => c = e
    /\ Home \notin CallId
    /\ MaxKills \in Nat

VARIABLES
    calling,   \* calling[u]: the documents of calls/u/calling
    outbox,    \* outbox[u]: writes u's device has issued and not committed
    invite,    \* invite[c][m]: where the caller of c stands with m
    page,      \* page[u]: the call whose page u has open, or Home
    listed,    \* users whose call page has the list of members
    noted,     \* calls whose caller has joined: all members have a row
    sweeps,    \* <<c, m>>: the caller's endCall of c asks for a document of m
    ending,    \* ending[u][c]: where u's endCall for c stands, if running
    deed,      \* <<u, c>>: u has hung up or rejected c
    killed     \* users whose app was killed, which happens once

callVars == <<calling, outbox>>
clientVars == <<page, listed, noted>>
endVars == <<sweeps, ending>>
vars == <<callVars, invite, clientVars, endVars, deed, killed>>

-----------------------------------------------------------------------------
\* A document: the caller's copy of the call to a member, the ring at that
\* member, or one without the fields of a call, which onCallEnd sets.
Doc == [id : Nat, call : CallId, to : User, kind : {"copy", "ring", "bare"}]

Write == [op : {"delete", "set"}, owner : User, doc : Doc]

\* none, then get, caller and member: what is awaited; at the end done or
\* failed.
InviteStep == {"none", "get", "caller", "member", "done", "failed"}

EndStep == {"no", "list", "caller", "receiver"}

Member(c) == {Receivers[c][i] : i \in DOMAIN Receivers[c]}

Pending(u) == {outbox[u][i] : i \in DOMAIN outbox[u]}

First(S) == {d \in S : \A e \in S : d.id <= e.id}

\* calls/v/calling as u's device sees it: its own writes are already there.
View(u, v) ==
    {d \in calling[v] : [op |-> "delete", owner |-> v, doc |-> d] \notin Pending(u)}
        \cup {w.doc : w \in {x \in Pending(u) : x.op = "set" /\ x.owner = v}}

\* The calls PickupLayout shows ringing at u.
Ringing(u) == {d.call : d \in {e \in First(View(u, u)) : e.kind = "ring"}}

\* PickupLayout cannot build: its document lacks hasDialled.
Broken(u) == \E d \in First(View(u, u)) : d.kind = "bare"

\* A page under PickupLayout, with what it shows on top.
Idle(u) == page[u] = Home /\ ~Broken(u)

\* Mutant: the page is left and its list kept.
KeepsList(u) == listed

\* The list belongs to the page's call and goes with the page.
WithoutList(u) == listed \ {u}

Issue(u, writes) == outbox' = [outbox EXCEPT ![u] = @ \o writes]

Deletion(v, d) == [op |-> "delete", owner |-> v, doc |-> d]

\* Deletion of the first of the documents S of calls/v/calling, if any.
Deletions(v, S) ==
    IF S = {} THEN {<<>>} ELSE {<<Deletion(v, d)>> : d \in First(S)}

-----------------------------------------------------------------------------
Init ==
    /\ calling = [u \in User |-> {}]
    /\ outbox = [u \in User |-> <<>>]
    /\ invite = [c \in CallId |-> [m \in User |-> "none"]]
    /\ page = [u \in User |-> Home]
    /\ listed = {}
    /\ noted = {}
    /\ sweeps = {}
    /\ ending = [u \in User |-> [c \in CallId |-> "no"]]
    /\ deed = {}
    /\ killed = {}

-----------------------------------------------------------------------------
(* Placing a call: audioAndVideoCall of the group page.                    *)

Placed(c) == \E m \in User : invite[c][m] # "none"

\* The button of the app bar: a lookup of every member is started.
Dial(c) ==
    /\ ~Placed(c)
    /\ Idle(Caller[c])
    /\ Ringing(Caller[c]) = {}
    /\ invite' = [invite EXCEPT ![c] =
                     [m \in User |-> IF m \in Member(c) THEN "get" ELSE "none"]]
    /\ UNCHANGED <<callVars, clientVars, endVars, deed, killed>>

\* Mutant: one failed lookup ends the loop.
FailureEndsAll(c, m) == {n \in Member(c) : invite[c][n] = "get"}

\* Who is not called when the lookup of m fails.
FailureEnds(c, m) == {m}

\* The lookup answers; for a deleted account data() is null and throws.
Lookup(c, m) ==
    /\ invite[c][m] = "get"
    /\ invite' = [invite EXCEPT ![c] =
                     [n \in User |->
                         IF m \in Gone /\ n \in FailureEnds(c, m) THEN "failed"
                         ELSE IF n = m /\ m \notin Gone THEN "caller"
                         ELSE @[n]]]
    /\ UNCHANGED <<callVars, clientVars, endVars, deed, killed>>

\* An awaited add is committed after the writes its device issued before.
Add(u, v, c, m, kind) ==
    /\ outbox[u] = <<>>
    /\ \E id \in DocId \ {d.id : d \in calling[v]} :
           calling' = [calling EXCEPT ![v] = @ \cup
                          {[id |-> id, call |-> c, to |-> m, kind |-> kind]}]

AddCopy(c, m) ==
    /\ invite[c][m] = "caller"
    /\ Add(Caller[c], Caller[c], c, m, "copy")
    /\ invite' = [invite EXCEPT ![c][m] = "member"]
    /\ UNCHANGED <<outbox, clientVars, endVars, deed, killed>>

\* The member's phone rings; the caller opens the call page, unless the
\* current page is one: Get.toNamed pushes no duplicate.
AddRing(c, m) ==
    LET u == Caller[c] IN
    /\ invite[c][m] = "member"
    /\ Add(u, m, c, m, "ring")
    /\ invite' = [invite EXCEPT ![c][m] = "done"]
    /\ IF page[u] = Home
       THEN /\ page' = [page EXCEPT ![u] = c]
            /\ listed' = listed \cup {u}
       ELSE UNCHANGED <<page, listed>>
    /\ UNCHANGED <<outbox, noted, endVars, deed, killed>>

\* The caller's engine joins: it writes a row to the call list of each member,
\* without which a video page shows no buttons.
Join(u) ==
    /\ page[u] # Home
    /\ u = Caller[page[u]]
    /\ noted' = noted \cup {page[u]}
    /\ UNCHANGED <<callVars, invite, page, listed, endVars, deed, killed>>

-----------------------------------------------------------------------------
(* At a ring: PickupBody.                                                  *)

\* The call read from the document has no list of members.
Accept(u, c) ==
    /\ page[u] = Home
    /\ c \in Ringing(u)
    /\ page' = [page EXCEPT ![u] = c]
    /\ listed' = WithoutList(u)
    /\ UNCHANGED <<callVars, invite, noted, endVars, deed, killed>>

Reject(u, c) ==
    /\ page[u] = Home
    /\ c \in Ringing(u)
    /\ ending[u][c] = "no"
    /\ ending' = [ending EXCEPT ![u][c] = "caller"]
    /\ deed' = deed \cup {<<u, c>>}
    /\ UNCHANGED <<callVars, invite, clientVars, sweeps, killed>>

-----------------------------------------------------------------------------
(* Hanging up: onCallEnd and endCall.                                      *)

\* With the list, a query per member is started and not awaited.
HangUp(u) ==
    LET c == page[u] IN
    /\ c # Home
    /\ c \in noted
    /\ ending[u][c] = "no"
    /\ IF u \in listed
       THEN /\ sweeps' = sweeps \cup {<<c, m>> : m \in Member(c)}
            /\ ending' = [ending EXCEPT ![u][c] = "list"]
       ELSE /\ ending' = [ending EXCEPT ![u][c] = "caller"]
            /\ UNCHANGED sweeps
    /\ deed' = deed \cup {<<u, c>>}
    /\ UNCHANGED <<callVars, invite, clientVars, killed>>

\* The documents of a call at v that name w as the one who placed it.
PlacedBy(u, v, w) ==
    {d \in View(u, v) : d.kind # "bare" /\ Caller[d.call] = w}

\* The query for a member asks for documents the member itself placed.
Sweep(c, m) ==
    /\ <<c, m>> \in sweeps
    /\ sweeps' = sweeps \ {<<c, m>>}
    /\ \E deletion \in Deletions(m, PlacedBy(Caller[c], m, m)) :
           Issue(Caller[c], deletion)
    /\ UNCHANGED <<calling, invite, clientVars, ending, deed, killed>>

\* What onCallEnd sets under calling at each member, for which it means the
\* rows of the call list.
BareDocs(c) ==
    [i \in DOMAIN Receivers[c] |->
        LET m == Receivers[c][i] IN
        [op |-> "set", owner |-> m,
         doc |-> [id |-> Stamp[c], call |-> c, to |-> m, kind |-> "bare"]]]

\* With the list: one of the caller's copies goes, then onCallEnd ends the call.
EndAtCallerOfList(u, c) ==
    /\ ending[u][c] = "list"
    /\ ending' = [ending EXCEPT ![u][c] = "no"]
    /\ page' = [page EXCEPT ![u] = Home]
    /\ listed' = WithoutList(u)
    /\ \E deletion \in Deletions(u, PlacedBy(u, u, u)) :
           Issue(u, deletion \o BareDocs(c))
    /\ UNCHANGED <<calling, invite, noted, sweeps, deed, killed>>

\* Without it: one of the caller's copies ...
EndAtCaller(u, c) ==
    /\ ending[u][c] = "caller"
    /\ ending' = [ending EXCEPT ![u][c] = "receiver"]
    /\ \E deletion \in Deletions(Caller[c], PlacedBy(u, Caller[c], Caller[c])) :
           Issue(u, deletion)
    /\ UNCHANGED <<calling, invite, clientVars, sweeps, deed, killed>>

\* Mutant: whoever ends the call, a ring of each member is looked up.
AnyMember(u, c) == Member(c)

\* Whose documents a member's endCall looks up last: its receiver's, itself.
OwnReceiver(u, c) == {u}

\* Mutant: the query of the group branch.
PlacedByReceiver(u, v) == PlacedBy(u, v, v)

\* The documents of a call at v that name v as its receiver.
ReceivedBy(u, v) == {d \in View(u, v) : d.kind # "bare" /\ d.to = v}

\* ... and the first document that names the user as its receiver.
EndAtReceiver(u, c) ==
    /\ ending[u][c] = "receiver"
    /\ ending' = [ending EXCEPT ![u][c] = "no"]
    /\ page' = [page EXCEPT ![u] = Home]
    /\ listed' = WithoutList(u)
    /\ \E v \in OwnReceiver(u, c) :
       \E deletion \in Deletions(v, ReceivedBy(u, v)) :
           Issue(u, deletion)
    /\ UNCHANGED <<calling, invite, noted, sweeps, deed, killed>>

-----------------------------------------------------------------------------
(* The backend and the operating system.                                   *)

Commit(u) ==
    LET w == Head(outbox[u]) IN
    /\ outbox[u] # <<>>
    /\ outbox' = [outbox EXCEPT ![u] = Tail(@)]
    /\ calling' = [calling EXCEPT ![w.owner] =
                      IF w.op = "delete" THEN @ \ {w.doc} ELSE @ \cup {w.doc}]
    /\ UNCHANGED <<invite, clientVars, endVars, deed, killed>>

\* The app is killed: its lookups and queries are not answered, and an add
\* that was awaited is followed by none.
Kill(u) ==
    /\ u \notin killed
    /\ Cardinality(killed) < MaxKills
    /\ killed' = killed \cup {u}
    /\ page' = [page EXCEPT ![u] = Home]
    /\ listed' = WithoutList(u)
    /\ invite' = [c \in CallId |-> [m \in User |->
                     IF Caller[c] = u /\ invite[c][m] \in {"get", "caller", "member"}
                     THEN "failed" ELSE invite[c][m]]]
    /\ sweeps' = {s \in sweeps : Caller[s[1]] # u}
    /\ ending' = [ending EXCEPT ![u] = [c \in CallId |-> "no"]]
    /\ UNCHANGED <<callVars, noted, deed>>

-----------------------------------------------------------------------------
CallStep(c) ==
    \/ Dial(c)
    \/ \E m \in User : Lookup(c, m) \/ AddCopy(c, m) \/ AddRing(c, m) \/ Sweep(c, m)

UserStep(u) ==
    \/ Join(u) \/ HangUp(u) \/ Commit(u) \/ Kill(u)
    \/ \E c \in CallId :
           \/ Accept(u, c) \/ Reject(u, c)
           \/ EndAtCallerOfList(u, c) \/ EndAtCaller(u, c) \/ EndAtReceiver(u, c)

\* Deleting an account signs its device out.
Next == (\E c \in CallId : CallStep(c)) \/ (\E u \in User \ Gone : UserStep(u))

\* The SDK answers lookups and commits what was issued.
Fairness ==
    /\ \A c \in CallId, m \in User :
           WF_vars(Lookup(c, m)) /\ WF_vars(AddCopy(c, m)) /\ WF_vars(AddRing(c, m))
    /\ \A u \in User \ Gone : WF_vars(Commit(u))

Spec == Init /\ [][Next]_vars

FairSpec == Spec /\ Fairness

-----------------------------------------------------------------------------
(* Type invariant of the documents, lookups, pages and queries.            *)
TypeOK ==
    /\ calling \in [User -> SUBSET Doc]
    /\ outbox \in [User -> Seq(Write)]
    /\ invite \in [CallId -> [User -> InviteStep]]
    /\ page \in [User -> CallId \cup {Home}]
    /\ listed \subseteq {u \in User : page[u] # Home}
    /\ noted \subseteq CallId
    /\ sweeps \subseteq CallId \X User
    /\ ending \in [User -> [CallId -> EndStep]]
    /\ deed \subseteq User \X CallId
    /\ killed \subseteq User

\* A member keeps ringing until it hangs up or rejects a call itself, whichever
\* other member ends the call and however their queries overlap; only the
\* caller's own ring, found by who placed it, goes with another's endCall.
RingIsOwn ==
    \A c \in CallId : \A m \in Member(c) \ {Caller[c]} :
        invite[c][m] = "done"
        => \/ \E d \in calling[m] : d.kind = "ring" /\ d.call = c
           \/ \E e \in CallId : <<m, e>> \in deed

\* A member whose endCall has run to its end is not rung for that call any
\* more, however the caller's lookups, adds and endCall run beside it; only a
\* kill in the middle, or another call to the member, leaves the ring.
OwnRingEnds ==
    \A c \in CallId : \A m \in Member(c) \ {Caller[c]} :
        /\ <<m, c>> \in deed
        /\ ending[m][c] = "no"
        /\ m \notin killed
        /\ \A e \in CallId \ {c} : invite[e][m] = "none"
        => ~\E d \in View(m, m) : d.kind = "ring" /\ d.call = c

\* Every member with an account rings, whichever other lookups fail, unless
\* the caller's app is killed meanwhile.
EveryMemberRings ==
    \A c \in CallId : \A m \in Member(c) \ Gone :
        Placed(c) ~> (invite[c][m] = "done" \/ Caller[c] \in killed)

\* PickupLayout asserts that the document it reads has the field hasDialled
\* (call.hasDialled!).
PickupBuilds == \A u \in User : ~Broken(u)
=============================================================================
