---------------------------- MODULE BroadcastChat ----------------------------
(***************************************************************************)
(* Broadcasts of one user.  Creating one asks, for each contact chosen,    *)
(* whether there is a chat with it already; nobody awaits these queries,   *)
(* their answers fill the field newContact, and after a fixed wait the     *)
(* broadcast is stored with what the field holds by then.  Sending to one  *)
(* stores the message in the chat of every member, makes up chats for      *)
(* those without one, and after a fixed wait writes the list of members    *)
(* back with what has been collected by then.                              *)
(***************************************************************************)
EXTENDS Naturals, Sequences, FiniteSets

CONSTANTS
    Contact,    \* the registered contacts
    Cards,      \* whom the user's one-to-one cards are with, in their order
    Broadcast,  \* the broadcasts
    Text,       \* the messages sent to broadcasts
    NoCard,     \* stands for the list of a card that is not there
    MaxPicks,   \* bound on contacts chosen
    MaxPages,   \* bound on pages opened
    MaxKills    \* bound on process kills

ASSUME BroadcastAssumption ==
    /\ Cards \in Seq(Contact)
    /\ "old" \notin Text
    /\ MaxPicks \in Nat
    /\ MaxPages \in Nat
    /\ MaxKills \in Nat

VARIABLES
    picks,       \* the entries made by choosing a contact, in order
    selected,    \* those of selectedContact
    newContact,  \* those of newContact, in the order they were added
    loading,     \* isLoading: the page takes no choice of contacts
    step,        \* step[b]: what the creation of b awaits
    asks,        \* the entries whose query is under way
    users,       \* users[b]: the members in the document of b
    card,        \* card[b]: receiverId of the user's card of b, or NoCard
    pages,       \* the pages opened: their broadcast, pData and newpData
    page,        \* the page on top, or 0
    sends,       \* sends[t]: what the send of t awaits, and on which page
    stores,      \* messages of the loop on their way to a member
    received,    \* messages stored in a member's chat
    told,        \* messages announced by the member's card
    chosen,      \* chosen[b]: the contacts selected when b was begun
    hurried,     \* broadcasts whose queries met the end of a wait or another creation
    slow,        \* broadcasts whose list was written before a message was stored
    reopened,    \* broadcasts opened while a send had not written the list
    kills        \* process kills so far

choiceVars == <<picks, selected, newContact, loading, asks>>
castVars == <<step, users, chosen, hurried>>
sendVars == <<sends, stores, received, told>>
vars == <<choiceVars, castVars, card, pages, page, sendVars, slow, reopened, kills>>

-----------------------------------------------------------------------------
NoChat == <<>>

\* The chat the user had with c before, and the one made up for the i-th
\* element of the list when t was sent.
OldChat(c) == <<"old", c>>

NewChat(t, i) == <<t, i>>

Chat == {NoChat} \cup {OldChat(c) : c \in Contact} \cup (Text \X Nat)

Entry == [who : Contact, chat : Chat]

ASSUME NoCardAssumption == NoCard \notin Seq(Entry)

Page == [cast : Broadcast, data : Seq(Entry), new : Seq(Nat)]

CreateStep == {"none", "wait", "set", "add", "open", "made"}

SendStep == {"none", "wait", "done"}

Who(list) == {list[i].who : i \in DOMAIN list}

Contains(s, x) == \E i \in DOMAIN s : s[i] = x

\* The members a broadcast gets: its maps as they are when they are written.
Entries == [i \in DOMAIN newContact |-> picks[newContact[i]]]

Creating == {b \in Broadcast : step[b] \in {"wait", "set", "add"}}

-----------------------------------------------------------------------------
Init ==
    /\ picks = <<>>
    /\ selected = {}
    /\ newContact = <<>>
    /\ loading = FALSE
    /\ asks = {}
    /\ step = [b \in Broadcast |-> "none"]
    /\ users = [b \in Broadcast |-> <<>>]
    /\ card = [b \in Broadcast |-> NoCard]
    /\ pages = <<>>
    /\ page = 0
    /\ sends = [t \in Text |-> [step |-> "none", page |-> 0]]
    /\ stores = {}
    /\ received = {}
    /\ told = {}
    /\ chosen = [b \in Broadcast |-> {}]
    /\ hurried = {}
    /\ slow = {}
    /\ reopened = {}
    /\ kills = 0

-----------------------------------------------------------------------------
(* Creating a broadcast: CreateGroupController.                            *)

PickOf(c) == {o \in selected : picks[o].who = c}

\* selectUserTap: in with a new map, or out.
Toggle(c) ==
    /\ page = 0 /\ ~loading
    /\ IF PickOf(c) = {}
       THEN /\ Len(picks) < MaxPicks
            /\ picks' = Append(picks, [who |-> c, chat |-> NoChat])
            /\ selected' = selected \cup {Len(picks) + 1}
       ELSE /\ selected' = selected \ PickOf(c)
            /\ UNCHANGED picks
    /\ UNCHANGED <<newContact, loading, asks, castVars, card, pages, page, sendVars,
                   slow, reopened, kills>>

\* The back button of the page that lists the contacts.
Abandon ==
    /\ page = 0 /\ selected # {}
    /\ selected' = {}
    /\ UNCHANGED <<picks, newContact, loading, asks, castVars, card, pages, page,
                   sendVars, slow, reopened, kills>>

\* The button, which takes another tap while it is loading: a query is started
\* for each contact.
Create(b) ==
    /\ page = 0 /\ selected # {}
    /\ step[b] = "none"
    /\ step' = [step EXCEPT ![b] = "wait"]
    /\ loading' = TRUE
    /\ asks' = asks \cup selected
    /\ chosen' = [chosen EXCEPT ![b] = {picks[o].who : o \in selected}]
    /\ hurried' = IF Creating # {} \/ asks # {} \/ newContact # <<>>
                  THEN hurried \cup Creating \cup {b} ELSE hurried
    /\ UNCHANGED <<picks, selected, newContact, users, card, pages, page, sendVars,
                   slow, reopened, kills>>

\* What the loop over the cards leaves in chatId: every card that does not
\* match sets it to null again.
Looked(c) ==
    IF Cards # <<>> /\ Cards[Len(Cards)] = c THEN OldChat(c) ELSE NoChat

WithAnswer(o) == IF Contains(newContact, o) THEN newContact ELSE Append(newContact, o)

\* A query of checkChatAvailable answers, whatever newContact is by then.
Answer(o) ==
    /\ o \in asks
    /\ asks' = asks \ {o}
    /\ picks' = [picks EXCEPT ![o].chat = Looked(picks[o].who)]
    /\ newContact' = WithAnswer(o)
    /\ UNCHANGED <<selected, loading, castVars, card, pages, page, sendVars, slow,
                   reopened, kills>>

\* The wait is over; the document is stored.
WaitOver(b) ==
    /\ step[b] = "wait"
    /\ step' = [step EXCEPT ![b] = "set"]
    /\ users' = [users EXCEPT ![b] = Entries]
    /\ hurried' = IF asks # {} THEN hurried \cup {b} ELSE hurried
    /\ UNCHANGED <<choiceVars, chosen, card, pages, page, sendVars, slow, reopened,
                   kills>>

\* The document is there; the user's card is added.
AddCard(b) ==
    /\ step[b] = "set"
    /\ step' = [step EXCEPT ![b] = "add"]
    /\ card' = [card EXCEPT ![b] = Entries]
    /\ UNCHANGED <<choiceVars, users, chosen, hurried, pages, page, sendVars, slow,
                   reopened, kills>>

\* The card is there; the choice is emptied and a page is popped.
EndCreation(b) ==
    /\ step[b] = "add"
    /\ step' = [step EXCEPT ![b] = "open"]
    /\ selected' = {}
    /\ newContact' = <<>>
    /\ loading' = FALSE
    /\ page' = 0
    /\ UNCHANGED <<picks, asks, users, chosen, hurried, card, pages, sendVars, slow,
                   reopened, kills>>

-----------------------------------------------------------------------------
(* The page of a broadcast: BroadcastChatController.                       *)

Unlisted(b) ==
    \E t \in Text : sends[t].step = "wait" /\ pages[sends[t].page].cast = b

Push(b) ==
    /\ Len(pages) < MaxPages
    /\ pages' = Append(pages, [cast |-> b, data |-> card[b], new |-> <<>>])
    /\ page' = Len(pages) + 1
    /\ reopened' = IF Unlisted(b) THEN reopened \cup {b} ELSE reopened

\* The page opens on the new broadcast, unless one is open.
OpenCreated(b) ==
    /\ step[b] = "open"
    /\ step' = [step EXCEPT ![b] = "made"]
    /\ IF page = 0 THEN Push(b) ELSE UNCHANGED <<pages, page, reopened>>
    /\ UNCHANGED <<choiceVars, users, chosen, hurried, card, sendVars, slow, kills>>

\* A tap on the card.
Open(b) ==
    /\ page = 0
    /\ card[b] # NoCard
    /\ Push(b)
    /\ UNCHANGED <<choiceVars, castVars, card, sendVars, slow, kills>>

\* The page is left; what it has under way goes on.
Back ==
    /\ page # 0
    /\ page' = 0
    /\ UNCHANGED <<choiceVars, castVars, card, pages, sendVars, slow, reopened, kills>>

\* Mutant: the chat made up stays with the message.
Unnamed(t, list) == list

\* The chats after the loop of saveMessageInLoop.
Named(t, list) ==
    [i \in DOMAIN list |->
        IF list[i].chat = NoChat THEN [list[i] EXCEPT !.chat = NewChat(t, i)]
        ELSE list[i]]

\* The places of a list whose elements have a chat.
Known(list) == {i \in DOMAIN list : list[i].chat # NoChat}

\* A set of places as a list, in their order.
InOrder(S) ==
    {s \in [1 .. Cardinality(S) -> S] :
        /\ \A i, j \in DOMAIN s : i < j => s[i] < s[j]
        /\ \A x \in S : \E i \in DOMAIN s : s[i] = x}

\* Mutant: the field the message is stored under is read as it is.
ListedChat(t, list, i) == list[i].chat

\* The chat the message to the i-th member is stored in.
ChatUsed(t, list, i) == IF list[i].chat = NoChat THEN NewChat(t, i) ELSE list[i].chat

\* Mutant: members are listed when their message is stored.
NoneYet(list) == InOrder({})

\* Mutant: all members are listed at once, those without a chat again later.
AllPlaces(list) == InOrder(DOMAIN list)

\* Who is put on newpData before its message is stored.
ListedFirst(list) == InOrder(Known(list))

\* onSendMessage: the loop runs up to the add of each message.
Send(t) ==
    LET list == pages[page].data IN
    /\ page # 0
    /\ sends[t].step = "none"
    /\ sends' = [sends EXCEPT ![t] = [step |-> "wait", page |-> page]]
    /\ \E first \in ListedFirst(list) :
           pages' = [pages EXCEPT ![page] = [cast |-> @.cast, data |-> Named(t, list),
                                             new |-> @.new \o first]]
    /\ stores' = stores \cup
           {[text |-> t, at |-> i, known |-> list[i].chat # NoChat,
             chat |-> ChatUsed(t, list, i)] : i \in DOMAIN list}
    /\ UNCHANGED <<choiceVars, castVars, card, page, received, told, slow, reopened,
                   kills>>

Delivery(x) ==
    [text |-> x.text, at |-> x.at, chat |-> x.chat,
     to |-> pages[sends[x.text].page].data[x.at].who]

\* Mutant: only members who had a chat get a card.
OnlyKnown(x) == IF x.known THEN {Delivery(x)} ELSE {}

\* Whose card saveMessageInUserCollection writes.
Announced(x) == {Delivery(x)}

\* A message is stored: a member without a chat is listed now, and the member's
\* card is written.  Nothing reads what lies between, and a message without its
\* card is what a kill before this step leaves.
Store(x) ==
    /\ x \in stores
    /\ stores' = stores \ {x}
    /\ received' = received \cup {Delivery(x)}
    /\ told' = told \cup Announced(x)
    /\ pages' = IF x.known THEN pages
                ELSE [pages EXCEPT ![sends[x.text].page].new = Append(@, x.at)]
    /\ UNCHANGED <<choiceVars, castVars, card, page, sends, slow, reopened, kills>>

\* The wait of onSendMessage is over: the card is updated.
List(t) ==
    LET p == pages[sends[t].page] IN
    /\ sends[t].step = "wait"
    /\ sends' = [sends EXCEPT ![t].step = "done"]
    /\ card' = [card EXCEPT ![p.cast] = [i \in DOMAIN p.new |-> p.data[p.new[i]]]]
    /\ slow' = IF \E x \in stores : x.text = t /\ ~x.known
               THEN slow \cup {p.cast} ELSE slow
    /\ UNCHANGED <<choiceVars, castVars, pages, page, stores, received, told, reopened,
                   kills>>

-----------------------------------------------------------------------------
\* The app is killed: the messages issued are stored all the same, and nothing
\* that awaits them goes on.
Kill ==
    /\ kills < MaxKills
    /\ kills' = kills + 1
    /\ selected' = {}
    /\ newContact' = <<>>
    /\ asks' = {}
    /\ loading' = FALSE
    /\ step' = [b \in Broadcast |-> IF step[b] = "none" THEN "none" ELSE "made"]
    /\ page' = 0
    /\ received' = received \cup {Delivery(x) : x \in stores}
    /\ stores' = {}
    /\ sends' = [t \in Text |->
                    IF sends[t].step = "wait" THEN [sends[t] EXCEPT !.step = "done"]
                    ELSE sends[t]]
    /\ reopened' = reopened \cup {b \in Broadcast : Unlisted(b)}
    /\ UNCHANGED <<picks, users, chosen, hurried, card, pages, told, slow>>

-----------------------------------------------------------------------------
CastStep(b) ==
    \/ Create(b) \/ WaitOver(b) \/ AddCard(b) \/ EndCreation(b)
    \/ OpenCreated(b) \/ Open(b)

Next ==
    \/ \E c \in Contact : Toggle(c)
    \/ Abandon \/ Back \/ Kill
    \/ \E o \in asks : Answer(o)
    \/ \E b \in Broadcast : CastStep(b)
    \/ \E t \in Text : Send(t) \/ List(t)
    \/ \E x \in stores : Store(x)

Spec == Init /\ [][Next]_vars

-----------------------------------------------------------------------------
(* Type invariant of the entries, documents, pages and messages.           *)
TypeOK ==
    /\ picks \in Seq(Entry)
    /\ selected \subseteq DOMAIN picks
    /\ newContact \in Seq(DOMAIN picks)
    /\ loading \in BOOLEAN
    /\ asks \subseteq DOMAIN picks
    /\ step \in [Broadcast -> CreateStep]
    /\ users \in [Broadcast -> Seq(Entry)]
    /\ card \in [Broadcast -> Seq(Entry) \cup {NoCard}]
    /\ pages \in Seq(Page)
    /\ page \in {0} \cup DOMAIN pages
    /\ sends \in [Text -> [step : SendStep, page : {0} \cup DOMAIN pages]]
    /\ stores \subseteq [text : Text, at : Nat, known : BOOLEAN, chat : Chat]
    /\ received \subseteq [text : Text, at : Nat, chat : Chat \ {NoChat}, to : Contact]
    /\ told \subseteq received
    /\ chosen \in [Broadcast -> SUBSET Contact]
    /\ hurried \subseteq Broadcast
    /\ slow \subseteq Broadcast
    /\ reopened \subseteq Broadcast
    /\ kills \in Nat

\* The document and the card of a broadcast list exactly the contacts chosen
\* for it, through any number of sends, pages and kills, unless a wait was too
\* short: of its creation, for a query, or of a send, for a message.
ListIsChosen ==
    \A b \in Broadcast \ hurried :
        /\ step[b] \in {"set", "add", "open"} => Who(users[b]) = chosen[b]
        /\ card[b] # NoCard /\ b \notin slow => Who(card[b]) = chosen[b]

CastOf(r) == pages[sends[r.text].page].cast

\* A broadcast reaches a member in one chat, unless the page was opened again
\* before a send had written the chats it made up, or the creation was hurried;
\* and that chat is with no other member.
OneChatPerMember ==
    \A r, q \in received :
        /\ r.chat = q.chat => r.to = q.to
        /\ r.to = q.to /\ CastOf(r) = CastOf(q) /\ CastOf(r) \notin reopened \cup hurried
           => r.chat = q.chat

\* Two messages were sent from one page of b.
SentTwice(b) ==
    \E t, s \in Text :
        /\ t # s
        /\ sends[t].page = sends[s].page
        /\ sends[t].page # 0 /\ pages[sends[t].page].cast = b

\* A member gets a message twice only from a broadcast with two messages sent
\* from one page, whose list, which is never emptied, names members twice; or
\* from a hurried one.
TwiceOnlyAfterTwoSends ==
    \A r, q \in received :
        r.text = q.text /\ r.to = q.to /\ r # q
        => SentTwice(CastOf(r)) \/ CastOf(r) \in hurried

\* Once nothing of a message is under way, every member of the page's list has
\* it in a chat and a card that announces it, unless the app was killed.
EveryMemberIsTold ==
    \A t \in Text :
        sends[t].step # "none" /\ kills = 0 /\ (\A x \in stores : x.text # t)
        => Who(pages[sends[t].page].data) = {r.to : r \in {q \in told : q.text = t}}
=============================================================================
