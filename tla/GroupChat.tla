------------------------------ MODULE GroupChat ------------------------------
(***************************************************************************)
(* Groups.  Firestore keeps                                                *)
(*                                                                         *)
(*   groups/<groupId>                        who is in a group, and one    *)
(*                                           field saying who is typing    *)
(*   groupMessage/<groupId>/chat/<auto id>   its messages                  *)
(*   users/<user>/chats/<auto id>            the cards of the home page    *)
(*                                                                         *)
(* Each member has a card of the group with its last message.  Whoever     *)
(* sends writes the card of every member: a query for each, not awaited,   *)
(* whose answer issues an update, not awaited either.  What a device       *)
(* issues is committed in order; the queries answer in any order.          *)
(***************************************************************************)
EXTENDS Naturals, Sequences, FiniteSets

CONSTANTS
    User,       \* the accounts
    Group,      \* the groups
    Members,    \* Members[g]: the users of group g, fixed when it is created
    Message,    \* the messages of all groups, "created this group" included
    Private,    \* stands for the chat of a card that is not a group's
    CardId,     \* auto ids of cards; a query returns cards in their order
    PrivateId,  \* the id of each user's card of a one-to-one chat
    MaxKills,   \* bound on process kills
    MaxTaps     \* bound on pages opened, texts begun and messages deleted

ASSUME GroupAssumption ==
    /\ Members \in [Group -> SUBSET User]
    /\ \A g \in Group : IsFiniteSet(Members[g])
    /\ Private \notin Group
    /\ CardId \subseteq Nat \ {0}
    /\ PrivateId \in CardId
    /\ MaxKills \in Nat
    /\ MaxTaps \in Nat

VARIABLES
    letter,    \* letter[m]: who sent m to which group, or Unsent
    sent,      \* the messages in the order of their timestamps
    posted,    \* the messages that were added to their group's chat
    deleted,   \* those deleted from it since
    cards,     \* cards[u]: the documents of users/u/chats
    status,    \* status[g]: who the group document says is typing, or NoOne
    outbox,    \* outbox[u]: writes issued by u's device, not yet committed
    asked,     \* queries of saveGroupData under way
    latest,    \* <<u, g>>: deletions by u in g whose query is under way
    mending,   \* queries of deletions for the card of a member
    page,      \* page[u]: the group page u has on top, or Home
    typing,    \* the users whose page has typing = true
    taps,      \* pages opened, texts begun and messages deleted so far
    kills,     \* process kills so far
    torn,      \* groups where a send met another one, a kill or a deletion
    restored,  \* messages a deletion took for the last one of its group
    deserted   \* <<u, g>>: u left g while typing, without onBackPress

docVars == <<posted, deleted, cards, status>>
pageVars == <<page, typing, taps>>
queryVars == <<asked, latest, mending>>
pastVars == <<torn, restored, deserted>>
vars == <<letter, sent, docVars, outbox, queryVars, pageVars, kills, pastVars>>

-----------------------------------------------------------------------------
Letter == [by : User, group : Group]

Unsent == [group |-> Private]

\* The text of a card nobody in a group wrote.
NoMessage == "none"

NoOne == "no one"

Home == "home"

Card == [id : CardId, group : Group \cup {Private},
         last : Message \cup {NoMessage}]

Ask == [by : User, to : User, group : Group, msg : Message]

Mend == [by : User, to : User, msg : Message]

\* Writes: of a message, of a new card, of the text of a card, of a deletion
\* and of the typing status.
Write ==
    [op : {"message", "delete"}, msg : Message]
        \cup [op : {"add"}, to : User, card : Card]
        \cup [op : {"tell"}, to : User, id : CardId, group : Group, msg : Message]
        \cup [op : {"mend"}, to : User, id : CardId, msg : Message]
        \cup [op : {"typing"}, group : Group, who : User \cup {NoOne}]

MessageWrite(m) == [op |-> "message", msg |-> m]
DeleteWrite(m) == [op |-> "delete", msg |-> m]
AddWrite(v, d) == [op |-> "add", to |-> v, card |-> d]
TypingWrite(g, who) == [op |-> "typing", group |-> g, who |-> who]

Pending(u) == {outbox[u][i] : i \in DOMAIN outbox[u]}

Sent(m) == letter[m] # Unsent

\* Cards of v issued by any device: ids are made up by the device that adds.
IssuedTo(v) ==
    cards[v] \cup UNION {{w.card : w \in {x \in Pending(u) :
                                          x.op = "add" /\ x.to = v}} : u \in User}

\* What u's device sees: what is committed and what it has issued itself.
CardsSeen(u, v) ==
    cards[v] \cup {w.card : w \in {x \in Pending(u) : x.op = "add" /\ x.to = v}}

MessagesSeen(u, g) ==
    {m \in Message :
        /\ Sent(m) /\ letter[m].group = g
        /\ m \in posted \/ MessageWrite(m) \in Pending(u)
        /\ m \notin deleted /\ DeleteWrite(m) \notin Pending(u)}

First(S) == {d \in S : \A e \in S : d.id <= e.id}

Position(m) == CHOOSE i \in DOMAIN sent : sent[i] = m

Newest(S) == {m \in S : \A n \in S : Position(n) <= Position(m)}

Issue(u, writes) == outbox' = [outbox EXCEPT ![u] = @ \o writes]

\* A send of g has not reached all cards, as far as one that starts at u now
\* can be overtaken by it.
Unsettled(g, u) ==
    \/ \E q \in asked : q.group = g
    \/ \E v \in User \ {u} : \E w \in Pending(v) :
           \/ w.op = "tell" /\ w.group = g
           \/ w.op = "add" /\ w.card.group = g

-----------------------------------------------------------------------------
Init ==
    /\ letter = [m \in Message |-> Unsent]
    /\ sent = <<>>
    /\ posted = {}
    /\ deleted = {}
    /\ cards = [u \in User |->
                   {[id |-> PrivateId, group |-> Private, last |-> NoMessage]}]
    /\ status = [g \in Group |-> NoOne]
    /\ outbox = [u \in User |-> <<>>]
    /\ asked = {}
    /\ latest = {}
    /\ mending = {}
    /\ page = [u \in User |-> Home]
    /\ typing = {}
    /\ taps = 0
    /\ kills = 0
    /\ torn = {}
    /\ restored = {}
    /\ deserted = {}

-----------------------------------------------------------------------------
Tap == taps < MaxTaps /\ taps' = taps + 1

Created(g) == \E m \in Message : letter[m].group = g

Compose(u, m, g) ==
    /\ ~Sent(m)
    /\ letter' = [letter EXCEPT ![m] = [by |-> u, group |-> g]]
    /\ sent' = Append(sent, m)

\* The orders in which selectedContact may list the members: its owner is
\* added last.
Orders(u, g) ==
    {s \in [1 .. Cardinality(Members[g]) -> Members[g]] :
        /\ \A v \in Members[g] : \E i \in DOMAIN s : s[i] = v
        /\ s[Len(s)] = u}

\* createGroup once groups/<g> is stored, its selection untouched: the message
\* and one card per member are issued, and the page of the group opens.
Create(u, g, m) ==
    /\ page[u] = Home
    /\ u \in Members[g]
    /\ ~Created(g)
    /\ Compose(u, m, g)
    /\ \E s \in Orders(u, g), id \in [Members[g] -> CardId] :
           /\ \A v \in Members[g] : \A d \in IssuedTo(v) : d.id # id[v]
           /\ LET add(v) == AddWrite(v, [id |-> id[v], group |-> g, last |-> m])
              IN Issue(u, <<MessageWrite(m)>> \o [i \in DOMAIN s |-> add(s[i])])
    /\ page' = [page EXCEPT ![u] = g]
    /\ UNCHANGED <<docVars, queryVars, typing, taps, kills, pastVars>>

\* A tap on a group's card of the home page.
Open(u, g) ==
    /\ page[u] = Home
    /\ \E d \in CardsSeen(u, u) : d.group = g
    /\ Tap
    /\ page' = [page EXCEPT ![u] = g]
    /\ UNCHANGED <<letter, sent, docVars, outbox, queryVars, typing, kills,
                   pastVars>>

-----------------------------------------------------------------------------
(* Typing.                                                                 *)

\* The listener of the text field, on text.
Type(u) ==
    /\ page[u] # Home
    /\ Tap
    /\ typing' = typing \cup {u}
    /\ Issue(u, <<TypingWrite(page[u], u)>>)
    /\ deserted' = deserted \ {<<u, page[u]>>}
    /\ UNCHANGED <<letter, sent, docVars, queryVars, page, kills, torn, restored>>

\* The writes of the listener when the text becomes empty.
TypingEnds(u) ==
    IF u \in typing THEN <<TypingWrite(page[u], NoOne)>> ELSE <<>>

\* The user deletes the text.
Clear(u) ==
    /\ u \in typing
    /\ Issue(u, TypingEnds(u))
    /\ typing' = typing \ {u}
    /\ UNCHANGED <<letter, sent, docVars, queryVars, page, taps, kills, pastVars>>

\* Mutant: the status is cleared only by who is typing.
ClearedOnBack(u) == TypingEnds(u)

\* onBackPress tells the group that nobody is typing.
WrittenOnBack(u) == <<TypingWrite(page[u], NoOne)>>

\* The back button of the system: onBackPress.
Back(u) ==
    /\ page[u] # Home
    /\ Issue(u, WrittenOnBack(u))
    /\ page' = [page EXCEPT ![u] = Home]
    /\ typing' = typing \ {u}
    /\ deserted' = deserted \ {<<u, page[u]>>}
    /\ UNCHANGED <<letter, sent, docVars, queryVars, taps, kills, torn, restored>>

\* The users who leave g without a word while typing.
Deserters(u) == IF u \in typing THEN {<<u, page[u]>>} ELSE {}

\* The arrow of the app bar pops the page without onBackPress.
Leave(u) ==
    /\ page[u] # Home
    /\ page' = [page EXCEPT ![u] = Home]
    /\ typing' = typing \ {u}
    /\ deserted' = deserted \cup Deserters(u)
    /\ UNCHANGED <<letter, sent, docVars, outbox, queryVars, taps, kills, torn,
                   restored>>

-----------------------------------------------------------------------------
(* Sending: onSendMessage and saveGroupData.                               *)

\* Mutant: the sender's own card is left out.
Others(u, g) == Members[g] \ {u}

\* Whose cards are looked up: all members of the page's group.
Told(u, g) == Members[g]

\* The text field is cleared, the message added, and a query started for the
\* card of every member; nothing is awaited.
Send(u, m) ==
    LET g == page[u] IN
    /\ g # Home
    /\ Compose(u, m, g)
    /\ Issue(u, TypingEnds(u) \o <<MessageWrite(m)>>)
    /\ typing' = typing \ {u}
    /\ asked' = asked \cup
           {[by |-> u, to |-> v, group |-> g, msg |-> m] : v \in Told(u, g)}
    /\ torn' = IF Unsettled(g, u) THEN torn \cup {g} ELSE torn
    /\ UNCHANGED <<docVars, latest, mending, page, taps, kills, restored, deserted>>

\* Mutant: the query does not ask for the group, as in GroupDeleteAlert.
FirstOfMember(q) == First(CardsSeen(q.by, q.to))

\* What the query for the card of a member returns.
Found(q) == First({d \in CardsSeen(q.by, q.to) : d.group = q.group})

\* A query answers; a member without a card is passed over.
FindCard(q) ==
    /\ q \in asked
    /\ asked' = asked \ {q}
    /\ \/ Found(q) = {} /\ UNCHANGED outbox
       \/ \E d \in Found(q) :
              Issue(q.by, <<[op |-> "tell", to |-> q.to, id |-> d.id,
                             group |-> q.group, msg |-> q.msg]>>)
    /\ UNCHANGED <<letter, sent, docVars, latest, mending, pageVars, kills, pastVars>>

-----------------------------------------------------------------------------
(* Deleting: GroupDeleteAlert.                                             *)

\* The message is deleted, not awaited; then the last message is asked for.
Delete(u, m) ==
    LET g == page[u] IN
    /\ g # Home
    /\ m \in MessagesSeen(u, g)
    /\ Tap
    /\ Issue(u, <<DeleteWrite(m)>>)
    /\ latest' = latest \cup {<<u, g>>}
    /\ torn' = torn \cup {g}
    /\ UNCHANGED <<letter, sent, docVars, asked, mending, page, typing, kills,
                   restored, deserted>>

\* Mutant: without a message left the cards are emptied.
LastOrNone(u, g) ==
    IF MessagesSeen(u, g) = {} THEN {NoMessage} ELSE Newest(MessagesSeen(u, g))

\* The last message left; without one docs[0] throws and nothing is done.
LastSeen(u, g) == Newest(MessagesSeen(u, g))

FindLast(u, g) ==
    /\ <<u, g>> \in latest
    /\ latest' = latest \ {<<u, g>>}
    /\ restored' = restored \cup LastSeen(u, g)
    /\ mending' = mending \cup
           {[by |-> u, to |-> v, msg |-> m] : v \in Members[g], m \in LastSeen(u, g)}
    /\ UNCHANGED <<letter, sent, docVars, outbox, asked, pageVars, kills, torn,
                   deserted>>

\* where("groupId") states no condition: the first of all cards of the member
\* gets the text of the last message.
FindAnyCard(q) ==
    /\ q \in mending
    /\ mending' = mending \ {q}
    /\ \E d \in First(CardsSeen(q.by, q.to)) :
           /\ Issue(q.by, <<[op |-> "mend", to |-> q.to, id |-> d.id, msg |-> q.msg]>>)
           /\ torn' = torn \cup ({d.group} \cap Group)
    /\ UNCHANGED <<letter, sent, docVars, asked, latest, pageVars, kills, restored,
                   deserted>>

-----------------------------------------------------------------------------
(* The backend and the operating system.                                   *)

Retold(S, w) == {IF d.id = w.id THEN [d EXCEPT !.last = w.msg] ELSE d : d \in S}

Apply(w) ==
    /\ posted' = IF w.op = "message" THEN posted \cup {w.msg} ELSE posted
    /\ deleted' = IF w.op = "delete" THEN deleted \cup {w.msg} ELSE deleted
    /\ cards' = CASE w.op = "add" -> [cards EXCEPT ![w.to] = @ \cup {w.card}]
                  [] w.op \in {"tell", "mend"} -> [cards EXCEPT ![w.to] = Retold(@, w)]
                  [] OTHER -> cards
    /\ status' = IF w.op = "typing" THEN [status EXCEPT ![w.group] = w.who] ELSE status

\* The oldest write of a device is committed; those of a killed app too.
Commit(u) ==
    /\ outbox[u] # <<>>
    /\ Apply(Head(outbox[u]))
    /\ outbox' = [outbox EXCEPT ![u] = Tail(@)]
    /\ UNCHANGED <<letter, sent, queryVars, pageVars, kills, pastVars>>

\* The app is killed: its queries are not answered.
Kill(u) ==
    /\ kills < MaxKills
    /\ kills' = kills + 1
    /\ asked' = {q \in asked : q.by # u}
    /\ latest' = {q \in latest : q[1] # u}
    /\ mending' = {q \in mending : q.by # u}
    /\ page' = [page EXCEPT ![u] = Home]
    /\ typing' = typing \ {u}
    /\ torn' = torn \cup {q.group : q \in {x \in asked : x.by = u}}
    /\ deserted' = deserted \cup Deserters(u)
    /\ UNCHANGED <<letter, sent, docVars, outbox, taps, restored>>

-----------------------------------------------------------------------------
UserStep(u) ==
    \/ \E g \in Group : Open(u, g) \/ FindLast(u, g)
    \/ \E m \in Message, g \in Group : Create(u, g, m)
    \/ \E m \in Message : Send(u, m) \/ Delete(u, m)
    \/ Type(u) \/ Clear(u) \/ Back(u) \/ Leave(u)
    \/ Kill(u)

Next ==
    \/ \E u \in User : UserStep(u) \/ Commit(u)
    \/ \E q \in asked : FindCard(q)
    \/ \E q \in mending : FindAnyCard(q)

Spec == Init /\ [][Next]_vars

-----------------------------------------------------------------------------
(* Type invariant of the documents, writes, queries and pages.             *)
TypeOK ==
    /\ letter \in [Message -> Letter \cup {Unsent}]
    /\ sent \in Seq(Message)
    /\ posted \subseteq Message
    /\ deleted \subseteq Message
    /\ cards \in [User -> SUBSET Card]
    /\ status \in [Group -> User \cup {NoOne}]
    /\ outbox \in [User -> Seq(Write)]
    /\ asked \subseteq Ask
    /\ latest \subseteq User \X Group
    /\ mending \subseteq Mend
    /\ page \in [User -> Group \cup {Home}]
    /\ typing \subseteq {u \in User : page[u] # Home}
    /\ taps \in Nat
    /\ kills \in Nat
    /\ torn \subseteq Group
    /\ restored \subseteq Message
    /\ deserted \subseteq User \X Group

\* A card announces a message that was stored in the card's own group; the one
\* exception is a message that a deletion took for the last one of a group and
\* wrote to whatever card it found (GroupDeleteAlert).
CardKeepsToItsGroup ==
    \A u \in User : \A d \in cards[u] :
        \/ d.last = NoMessage
        \/ d.last \in posted
           /\ (letter[d.last].group = d.group \/ d.last \in restored)

\* No query or write of a send or of the creation of g is under way.
Settled(g) ==
    /\ Created(g)
    /\ \A q \in asked : q.group # g
    /\ \A u \in User : \A w \in Pending(u) :
           /\ w.op = "tell" => w.group # g
           /\ w.op = "add" => w.card.group # g

\* When the sends of a group have settled, every member's card announces the
\* newest message, unless a send met another send, a kill or a deletion.
NewestOnEveryCard ==
    \A g \in Group : Settled(g) /\ g \notin torn
        => \A v \in Members[g] : \E d \in cards[v] :
               /\ d.group = g
               /\ d.last \in Newest({m \in Message : letter[m].group = g})

\* u is typing in g, or left it while typing without a word.
Typist(u, g) ==
    \/ u \in typing /\ page[u] = g
    \/ <<u, g>> \in deserted

\* Once no typing status is on its way, the group's field names a user who is
\* typing, or one who left the page by the arrow or was killed; whoever else
\* wrote it meanwhile, no other name stays.
StatusNamesTypist ==
    \A g \in Group :
        \/ status[g] = NoOne
        \/ Typist(status[g], g)
        \/ \E u \in User : \E w \in Pending(u) : w.op = "typing" /\ w.group = g
=============================================================================
