---------------------------- MODULE ChatMessages ----------------------------
(***************************************************************************)
(* One-to-one chats.  Firestore keeps                                      *)
(*                                                                         *)
(*   messages/<chatId>/chat/<auto id>   the messages of a chat             *)
(*   users/<user>/chats/<auto id>       the user's cards: one document per *)
(*       chat with its last message, the list of the home page             *)
(*                                                                         *)
(* A chat page opened on a contact without a card has chatId "0"; the      *)
(* first message sent from it makes up a chatId from the clock.  Here the  *)
(* chat is named by that message.  A message is stored, then the sender's  *)
(* card and then the receiver's are each looked up and written, every step *)
(* after an await, so that any two saves interleave.                       *)
(***************************************************************************)
EXTENDS Naturals

CONSTANTS
    User,      \* the accounts
    Message,   \* the messages; each may also name the chat it opens
    NoChat,    \* the chatId "0"
    CardId,    \* auto ids of cards; a query returns cards in their order
    MaxKills   \* bound on process kills

ASSUME ChatAssumption ==
    /\ NoChat \notin Message
    /\ CardId \subseteq Nat \ {0}
    /\ MaxKills \in Nat

VARIABLES
    letter,    \* letter[m]: what sending m captured, or Unsent
    job,       \* job[m]: where the coroutine that saves m stands
    posted,    \* the messages that were added to their chat
    deleted,   \* those deleted from it since
    cards,     \* cards[u]: the documents of users/u/chats
    page,      \* page[u]: the chat page u has on top, or Closed
    asked,     \* queries of seenMessage under way
    marks,     \* <<u, id>>: updates isSeen = true issued by seenMessage
    kills,     \* process kills so far
    lapped     \* <<u, chat>>: two saves found no card of it at the same time

vars == <<letter, job, posted, deleted, cards, page, asked, marks, kills, lapped>>

-----------------------------------------------------------------------------
Kind == {"text", "block"}

Letter == [from : User, to : User, chat : Message, kind : Kind]

Unsent == [kind |-> "unsent"]

Step == {"idle", "post", "findOwn", "saveOwn", "findPeer", "savePeer"}

NoCard == 0

Job == [step : Step, found : CardId \cup {NoCard}]

Card == [id : CardId, chat : Message, last : Message, sender : User,
         receiver : User, seen : BOOLEAN, isBlock : BOOLEAN]

Page == [peer : User, chat : Message \cup {NoChat}]

Closed == [chat |-> "closed"]

Ask == [by : User, of : User, chat : Message]

At(step) == [step |-> step, found |-> NoCard]

\* The cards of u a query for one chat returns, in the order of their ids.
CardsOf(u, k) == {d \in cards[u] : d.chat = k}

First(S) == {d \in S : \A e \in S : d.id <= e.id}

FirstId(S) == IF S = {} THEN {NoCard} ELSE {d.id : d \in First(S)}

Last(S) == {d \in S : \A e \in S : e.id <= d.id}

\* Mutant: LoadUser takes every card for one of a received message.
SenderShown(u, d) == d.sender

\* The user a card of u stands for: LoadUser shows the receiver of u's own
\* messages and the sender of the others.
Shown(u, d) == IF d.sender = u THEN d.receiver ELSE d.sender

\* seenMessage looks up the cards of both users of the page.  Its first part,
\* guarded by userData["id"] == pId, never runs: a page is open on a peer.
SeenMessage(u, p, k) ==
    asked' = asked \cup {[by |-> u, of |-> v, chat |-> k] : v \in {u, p}}

-----------------------------------------------------------------------------
Init ==
    /\ letter = [m \in Message |-> Unsent]
    /\ job = [m \in Message |-> At("idle")]
    /\ posted = {}
    /\ deleted = {}
    /\ cards = [u \in User |-> {}]
    /\ page = [u \in User |-> Closed]
    /\ asked = {}
    /\ marks = {}
    /\ kills = 0
    /\ lapped = {}

-----------------------------------------------------------------------------
(* Opening and closing a chat page.                                        *)

\* The page becomes ready: getChatData runs seenMessage on an existing chat.
Open(u, p, k) ==
    /\ page' = [page EXCEPT ![u] = [peer |-> p, chat |-> k]]
    /\ IF k = NoChat THEN UNCHANGED asked ELSE SeenMessage(u, p, k)
    /\ UNCHANGED <<letter, job, posted, deleted, cards, marks, kills, lapped>>

\* saveContact: a page is opened for every card of the contact, one replacing
\* the other; without a card, a page with chatId "0".
OpenContact(u, p) ==
    LET found == {d \in cards[u] : p \in {d.sender, d.receiver}} IN
    /\ p # u
    /\ page[u] = Closed
    /\ \/ found = {} /\ Open(u, p, NoChat)
       \/ \E d \in Last(found) : Open(u, p, d.chat)

\* A tap on a card of the home page.
OpenCard(u, d) ==
    /\ page[u] = Closed
    /\ d \in cards[u]
    /\ Open(u, Shown(u, d), d.chat)

Close(u) ==
    /\ page[u] # Closed
    /\ page' = [page EXCEPT ![u] = Closed]
    /\ UNCHANGED <<letter, job, posted, deleted, cards, asked, marks, kills, lapped>>

-----------------------------------------------------------------------------
(* Sending: onSendMessage and blockUser.                                   *)

\* Mutant: the first message is sent under "0".
PageChat(u, m) == page[u].chat

\* The chatId of message m: made up by the first one.
ChatIdOf(u, m) == IF page[u].chat = NoChat THEN m ELSE page[u].chat

\* The stretch before the first await: chatId is made up once and kept on the
\* page, so a second message sent meanwhile goes to the same chat.
Submit(u, m, kind) ==
    /\ page[u] # Closed
    /\ letter[m] = Unsent
    /\ LET k == ChatIdOf(u, m) IN
           /\ page' = [page EXCEPT ![u].chat = k]
           /\ letter' = [letter EXCEPT ![m] =
                  [from |-> u, to |-> page[u].peer, chat |-> k, kind |-> kind]]
    /\ job' = [job EXCEPT ![m] = At("post")]
    /\ UNCHANGED <<posted, deleted, cards, asked, marks, kills, lapped>>

Send(u, m) == Submit(u, m, "text")

\* The controller's isBlock is never set, so the menu always blocks.
Block(u, m) == Submit(u, m, "block")

\* The message is added to messages/<chatId>/chat.  A block does not await
\* this, but its card is committed after it all the same.
Post(m) ==
    /\ job[m].step = "post"
    /\ posted' = posted \cup {m}
    /\ job' = [job EXCEPT ![m] = At("findOwn")]
    /\ UNCHANGED <<letter, deleted, cards, page, asked, marks, kills, lapped>>

\* Mutant: the receiver's card comes first.
PeerFirst(m) ==
    IF job[m].step \in {"findOwn", "saveOwn"} THEN letter[m].to
                                              ELSE letter[m].from

\* Whose card is saved: the sender's and then the receiver's.
Owner(m) ==
    IF job[m].step \in {"findOwn", "saveOwn"} THEN letter[m].from
                                              ELSE letter[m].to

\* Mutant: the query also asks for the sender of the message.
FoundOfSender(m) ==
    {d \in CardsOf(Owner(m), letter[m].chat) : d.sender = letter[m].from}

\* Mutant: the query does not ask for the chatId.
FoundAnyCard(m) == cards[Owner(m)]

\* saveMessageInUserCollection: its query on the owner's chats.
Found(m) == CardsOf(Owner(m), letter[m].chat)

\* Saves about to add a card of chat k to u's, having found none.
Adding(u, k) ==
    {m \in Message :
        /\ job[m] \in [step : {"saveOwn", "savePeer"}, found : {NoCard}]
        /\ Owner(m) = u
        /\ letter[m].chat = k}

\* The query answers; lapped records that another save is about to add.
Find(m) ==
    /\ job[m].step \in {"findOwn", "findPeer"}
    /\ \E id \in FirstId(Found(m)) :
           job' = [job EXCEPT ![m] =
                      [step |-> IF @.step = "findOwn" THEN "saveOwn"
                                                      ELSE "savePeer",
                       found |-> id]]
    /\ lapped' = IF Found(m) = {} /\ Adding(Owner(m), letter[m].chat) # {}
                 THEN lapped \cup {<<Owner(m), letter[m].chat>>} ELSE lapped
    /\ UNCHANGED <<letter, posted, deleted, cards, page, asked, marks, kills>>

\* Mutant: the chatId is read from the page the sender has open by now.
CardForPage(m, id) ==
    [id |-> id,
     chat |-> IF page[letter[m].from].chat \in Message
              THEN page[letter[m].from].chat ELSE letter[m].chat,
     last |-> m, sender |-> letter[m].from, receiver |-> letter[m].to,
     seen |-> FALSE, isBlock |-> letter[m].kind = "block"]

\* The card m leaves behind.  Both cards name the peer as receiver.
CardFor(m, id) ==
    [id |-> id, chat |-> letter[m].chat, last |-> m,
     sender |-> letter[m].from, receiver |-> letter[m].to,
     seen |-> FALSE, isBlock |-> letter[m].kind = "block"]

\* The write that follows: update of the card found, or add of a new one,
\* whatever has been added since the query.
SaveCard(m) ==
    \E id \in CardId :
        /\ IF job[m].found = NoCard
           THEN id \notin {d.id : d \in cards[Owner(m)]}
           ELSE id = job[m].found
        /\ cards' = [cards EXCEPT ![Owner(m)] =
                        {d \in @ : d.id # id} \cup {CardFor(m, id)}]

\* A message goes on to the peer's card, a block does not.
AfterOwn(m) == IF letter[m].kind = "text" THEN "findPeer" ELSE "idle"

SaveOwn(m) ==
    /\ job[m].step = "saveOwn"
    /\ SaveCard(m)
    /\ job' = [job EXCEPT ![m] = At(AfterOwn(m))]
    /\ UNCHANGED <<letter, posted, deleted, page, asked, marks, kills, lapped>>

\* With the peer's card the message is saved; getChatData runs once more.
SavePeer(m) ==
    /\ job[m].step = "savePeer"
    /\ SaveCard(m)
    /\ job' = [job EXCEPT ![m] = At("idle")]
    /\ SeenMessage(letter[m].from, letter[m].to, letter[m].chat)
    /\ UNCHANGED <<letter, posted, deleted, page, marks, kills, lapped>>

-----------------------------------------------------------------------------
(* The rest of seenMessage; deleting; the operating system.                *)

\* A query of seenMessage answers: its first card is to be marked.
FindSeen(q) ==
    /\ q \in asked
    /\ asked' = asked \ {q}
    /\ marks' = marks \cup {<<q.of, d.id>> : d \in First(CardsOf(q.of, q.chat))}
    /\ UNCHANGED <<letter, job, posted, deleted, cards, page, kills, lapped>>

\* The update is not awaited and may find a newer message on the card.
MarkSeen(u, id) ==
    /\ <<u, id>> \in marks
    /\ marks' = marks \ {<<u, id>>}
    /\ cards' = [cards EXCEPT ![u] =
                    {IF d.id = id THEN [d EXCEPT !.seen = TRUE] ELSE d
                        : d \in @}]
    /\ UNCHANGED <<letter, job, posted, deleted, page, asked, kills, lapped>>

\* DeleteAlert: the message goes.  What follows reads and writes a collection
\* contacts that nothing fills, so the cards stay as they are.
Delete(u, m) ==
    /\ m \in posted \ deleted
    /\ page[u].chat = letter[m].chat
    /\ deleted' = deleted \cup {m}
    /\ UNCHANGED <<letter, job, posted, cards, page, asked, marks, kills, lapped>>

\* The app is killed: its coroutines end where they stand.
Kill(u) ==
    /\ kills < MaxKills
    /\ kills' = kills + 1
    /\ page' = [page EXCEPT ![u] = Closed]
    /\ job' = [m \in Message |->
                  IF letter[m] # Unsent /\ letter[m].from = u THEN At("idle")
                                                             ELSE job[m]]
    /\ asked' = {q \in asked : q.by # u}
    /\ UNCHANGED <<letter, posted, deleted, cards, marks, lapped>>

-----------------------------------------------------------------------------
UserStep(u) ==
    \/ \E p \in User : OpenContact(u, p)
    \/ \E d \in cards[u] : OpenCard(u, d)
    \/ Close(u)
    \/ Kill(u)
    \/ \E id \in CardId : MarkSeen(u, id)

MessageStep(m) ==
    \/ \E u \in User : Send(u, m)
    \/ \E u \in User : Block(u, m)
    \/ \E u \in User : Delete(u, m)
    \/ Post(m)
    \/ Find(m)
    \/ SaveOwn(m)
    \/ SavePeer(m)

Next ==
    \/ \E u \in User : UserStep(u)
    \/ \E m \in Message : MessageStep(m)
    \/ \E q \in asked : FindSeen(q)

Spec == Init /\ [][Next]_vars

-----------------------------------------------------------------------------
(* Type invariant of the documents, the pages and the coroutines.          *)
TypeOK ==
    /\ letter \in [Message -> Letter \cup {Unsent}]
    /\ job \in [Message -> Job]
    /\ posted \subseteq Message
    /\ deleted \subseteq posted
    /\ cards \in [User -> SUBSET Card]
    /\ page \in [User -> Page \cup {Closed}]
    /\ asked \subseteq Ask
    /\ marks \subseteq User \X CardId
    /\ kills \in Nat
    /\ lapped \subseteq User \X Message

Parties(m) == {letter[m].from, letter[m].to}

\* Messages stored under one chatId are between the same two users, however
\* their pages were opened: nobody reads a third user's chat.
ChatHasTwoParties ==
    \A m, n \in posted :
        letter[m].chat = letter[n].chat => Parties(m) = Parties(n)

\* The home page shows a card under the name of the other user of its chat,
\* although both cards of a message carry the same sender and receiver.
CardShowsPeer ==
    \A u \in User : \A d \in cards[u] :
        u # Shown(u, d) /\ {u, Shown(u, d)} = Parties(d.chat)

\* A card announces a message that was stored in the card's chat: onSendMessage
\* saves the cards only after the message.
CardAnnouncesPosted ==
    \A u \in User : \A d \in cards[u] :
        d.last \in posted /\ letter[d.last].chat = d.chat

\* Whoever sent the message a card announces has a card of that chat as well,
\* even if its app was killed half way: a chat is never on the receiver's home
\* page alone.
SenderKeepsCard ==
    \A u \in User : \A d \in cards[u] :
        CardsOf(letter[d.last].from, d.chat) # {}

\* A user has one card of a chat, unless a second save looked for it between
\* the look-up and the add of saveMessageInUserCollection, which are not atomic;
\* no kill, mark or later save makes another.
OneCardPerChat ==
    \A u \in User : \A d, e \in cards[u] :
        d.chat = e.chat => d = e \/ <<u, d.chat>> \in lapped

\* Two users have one chat with each other, so that a message is shown where
\* the previous ones are (saveContact looks for an existing chat).
OneChatPerPair ==
    \A m, n \in posted :
        Parties(m) = Parties(n) => letter[m].chat = letter[n].chat
=============================================================================
