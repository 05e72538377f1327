-------------------------- MODULE BroadcastInvariant --------------------------
(***************************************************************************)
(* The strengthenings of the properties of BroadcastChat that every step   *)
(* preserves, one for each property on top of those before it.             *)
(***************************************************************************)
EXTENDS BroadcastChat

\* The page t was sent on, and its list of members.
SentOn(t) == pages[sends[t].page]

Addressed(t) == SentOn(t).data

IsSent(t) == sends[t].page # 0

-----------------------------------------------------------------------------
\* A broadcast has a card from the moment it is added, and pages only then.
CastsOK ==
    \A b \in Broadcast :
        /\ step[b] \in {"none", "wait", "set"} => card[b] = NoCard
        /\ step[b] \in {"add", "open"} => card[b] # NoCard
        /\ card[b] = NoCard => \A p \in DOMAIN pages : pages[p].cast # b

\* newpData names places of pData; a message has a page once it is sent.
PlacesOK ==
    /\ \A p \in DOMAIN pages : \A k \in DOMAIN pages[p].new :
           pages[p].new[k] \in DOMAIN pages[p].data
    /\ \A t \in Text : sends[t].step = "none" <=> ~IsSent(t)

\* Whoever was on a list when a message was sent has a chat there since.
NamedOK ==
    \A t \in Text : IsSent(t) => \A i \in DOMAIN Addressed(t) : Addressed(t)[i].chat # NoChat

\* A message goes to a place of the list, in the chat that stands there.
StoresOK ==
    \A x \in stores :
        /\ IsSent(x.text)
        /\ x.at \in DOMAIN Addressed(x.text)
        /\ x.chat = Addressed(x.text)[x.at].chat

ReceivedOK ==
    \A r \in received :
        /\ IsSent(r.text)
        /\ r.at \in DOMAIN Addressed(r.text)
        /\ r.chat = Addressed(r.text)[r.at].chat
        /\ r.to = Addressed(r.text)[r.at].who

(* Types, and that places, pages and chats fit together.                   *)
BaseInv == TypeOK /\ CastsOK /\ PlacesOK /\ NamedOK /\ StoresOK /\ ReceivedOK

-----------------------------------------------------------------------------
\* Once nothing is on its way to a place, the member there was told.
PlacesTold ==
    kills = 0 =>
        \A t \in Text : IsSent(t) => \A i \in DOMAIN Addressed(t) :
            \/ \E x \in stores : x.text = t /\ x.at = i
            \/ \E r \in told : r.text = t /\ r.at = i

-----------------------------------------------------------------------------
Chosen(o) == picks[o].who

\* No contact is chosen twice, and no map listed twice.
ChoiceOK ==
    /\ \A o, q \in selected : Chosen(o) = Chosen(q) => o = q
    /\ \A i, j \in DOMAIN newContact : newContact[i] = newContact[j] => i = j

\* The maps of newContact and those on their way to it.
Gathered == asks \cup {newContact[i] : i \in DOMAIN newContact}

\* Gathered is one map for each contact chosen for b.
GathersChosen(b) ==
    /\ {Chosen(o) : o \in Gathered} = chosen[b]
    /\ \A o, q \in Gathered : Chosen(o) = Chosen(q) => o = q

\* A creation that is not hurried is the only one, and finds what it asked for.
AloneOK ==
    \A b \in Broadcast \ hurried :
        /\ b \in Creating => Creating = {b}
        /\ step[b] \in {"wait", "set"} => GathersChosen(b)
        /\ step[b] = "set" => asks = {}
        /\ step[b] \in {"set", "add", "open"} => Who(users[b]) = chosen[b]

(* What a creation has gathered when it stores its list.                   *)
CreationInv == BaseInv /\ ChoiceOK /\ AloneOK

-----------------------------------------------------------------------------
\* The card of a broadcast and its pages list the contacts chosen.
ListsOK ==
    \A b \in Broadcast \ (hurried \cup slow) :
        /\ card[b] # NoCard => Who(card[b]) = chosen[b]
        /\ \A p \in DOMAIN pages : pages[p].cast = b => Who(pages[p].data) = chosen[b]

\* Before the list of a send is written, each place is on it or will be once
\* its first message is stored.
PlacesListed ==
    \A t \in Text : sends[t].step = "wait" => \A i \in DOMAIN Addressed(t) :
        \/ \E k \in DOMAIN SentOn(t).new : SentOn(t).new[k] = i
        \/ \E x \in stores : x.text = t /\ x.at = i /\ ~x.known

(* The lists of members that are stored or shown.                          *)
ListInv == CreationInv /\ ListsOK /\ PlacesListed

-----------------------------------------------------------------------------
Distinct(list) == \A i, j \in DOMAIN list : list[i].who = list[j].who => i = j

\* Unless two messages were sent from one page of it, a broadcast's lists name
\* no member twice.
DistinctOK ==
    \A b \in Broadcast \ hurried :
        ~SentTwice(b) =>
            /\ card[b] # NoCard => Distinct(card[b])
            /\ \A p \in DOMAIN pages : pages[p].cast = b => Distinct(pages[p].data)

\* A page on which one message was sent lists no place twice.
OncePerPlace ==
    /\ \A x, y \in stores : x.text = y.text /\ x.at = y.at => x = y
    /\ \A p \in DOMAIN pages :
           (\A t \in Text : sends[t].page # p) => pages[p].new = <<>>
    /\ \A t \in Text :
           IsSent(t) /\ (\A s \in Text : sends[s].page = sends[t].page => s = t)
           => /\ \A j, k \in DOMAIN SentOn(t).new : SentOn(t).new[j] = SentOn(t).new[k] => j = k
              /\ \A x \in stores : x.text = t /\ ~x.known =>
                     \A k \in DOMAIN SentOn(t).new : SentOn(t).new[k] # x.at

(* How often a list names a member.                                        *)
TwiceInv == CreationInv /\ DistinctOK /\ OncePerPlace

-----------------------------------------------------------------------------
\* The chat of an entry is an old one with its contact or was made up for it.
ChatIsOf(chat, c) ==
    \/ chat = NoChat
    \/ chat = OldChat(c)
    \/ \E t \in Text : /\ IsSent(t)
                       /\ \E i \in DOMAIN Addressed(t) :
                              chat = NewChat(t, i) /\ Addressed(t)[i].who = c

ChatsOwned ==
    /\ \A o \in DOMAIN picks : picks[o].chat \in {NoChat, OldChat(Chosen(o))}
    /\ \A b \in Broadcast : card[b] # NoCard =>
           \A i \in DOMAIN card[b] : ChatIsOf(card[b][i].chat, card[b][i].who)
    /\ \A p \in DOMAIN pages : \A i \in DOMAIN pages[p].data :
           ChatIsOf(pages[p].data[i].chat, pages[p].data[i].who)

Elements(list) == {list[i] : i \in DOMAIN list}

\* What the lists of b have, on its card and on its pages.
Listed(b) ==
    UNION ({Elements(card[e]) : e \in {b} \cap {c \in Broadcast : card[c] # NoCard}}
           \cup {Elements(pages[p].data) : p \in {q \in DOMAIN pages : pages[q].cast = b}})

\* Who has no chat on the list is there once and has none on other lists of b.
MayName(b, list) ==
    \A i \in DOMAIN list : list[i].chat = NoChat =>
        /\ \A j \in DOMAIN list : list[j].who = list[i].who => j = i
        /\ \A e \in Listed(b) : e.who = list[i].who => e.chat = NoChat

\* The lists of b agree on the chats of its members.
Agrees(b) ==
    /\ \A e, f \in Listed(b) :
           e.who = f.who /\ e.chat # NoChat /\ f.chat # NoChat => e.chat = f.chat
    /\ card[b] # NoCard /\ ~Unlisted(b) => MayName(b, card[b])
    /\ page # 0 /\ pages[page].cast = b => MayName(b, pages[page].data)

ChatsAgree == \A b \in Broadcast \ (hurried \cup reopened) : Agrees(b)

(* Which chat a member's messages go to.                                   *)
ChatInv == CreationInv /\ ChatsOwned /\ ChatsAgree

-----------------------------------------------------------------------------
(* All parts together.                                                     *)
CastInv == PlacesTold /\ ListInv /\ TwiceInv /\ ChatInv
=============================================================================
