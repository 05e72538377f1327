---------------------------- MODULE ChatInvariant ----------------------------
(***************************************************************************)
(* The strengthening of the safety properties of ChatMessages that every   *)
(* step preserves.  A chat is named by the message that opened it; letters, *)
(* pages and cards all agree with that message on who the two parties are. *)
(***************************************************************************)
EXTENDS ChatMessages

Sent(m) == letter[m] # Unsent

\* k names a chat: it is the message that opened it.
Opened(k) == Sent(k) /\ letter[k].chat = k

\* A message goes to a chat that was opened, between the same two users.
LettersOK ==
    \A m \in Message : Sent(m)
        => /\ letter[m].from # letter[m].to
           /\ Opened(letter[m].chat)
           /\ Parties(m) = Parties(letter[m].chat)

PostedOK == \A m \in posted : Sent(m)

\* A page shows its user the chat with its peer.
PagesOK ==
    \A u \in User : page[u] # Closed
        => /\ page[u].peer # u
           /\ page[u].chat # NoChat
                  => /\ Opened(page[u].chat)
                     /\ {u, page[u].peer} = Parties(page[u].chat)

\* A card is the one its last message left, at a party of that message.
CardsOK ==
    \A u \in User : \A d \in cards[u] :
        /\ d.last \in posted
        /\ d.chat = letter[d.last].chat
        /\ d.sender = letter[d.last].from
        /\ d.receiver = letter[d.last].to
        /\ u \in Parties(d.last)

\* Auto ids are unique in their collection.
IdsOK ==
    \A u \in User : \A d, e \in cards[u] : d.id = e.id => d = e

\* A coroutine saves a message that was sent, after storing it; the card it
\* found is still there, and its sender's card comes first.
JobOK(m) ==
    /\ Sent(m)
    /\ job[m].step # "post" => m \in posted
    /\ job[m].found # NoCard
          => \E d \in CardsOf(Owner(m), letter[m].chat) : d.id = job[m].found
    /\ job[m].step \in {"findPeer", "savePeer"}
          => CardsOf(letter[m].from, letter[m].chat) # {}

JobsOK == \A m \in Message : job[m].step # "idle" => JobOK(m)

\* Unless two saves lapped each other, a save about to add a card is the only
\* one to do so and there is still no card.
AddsOK ==
    \A m \in Message :
        /\ job[m].step \in {"saveOwn", "savePeer"}
        /\ job[m].found = NoCard
        /\ <<Owner(m), letter[m].chat>> \notin lapped
        => /\ CardsOf(Owner(m), letter[m].chat) = {}
           /\ Adding(Owner(m), letter[m].chat) = {m}

(* Every letter, page and card agrees with the chat it belongs to.         *)
ChatInv ==
    /\ TypeOK
    /\ LettersOK
    /\ PostedOK
    /\ PagesOK
    /\ CardsOK
    /\ IdsOK
    /\ JobsOK
    /\ SenderKeepsCard
    /\ AddsOK
    /\ OneCardPerChat

-----------------------------------------------------------------------------
(* Letters, messages and cards as a conversation.                          *)

Members == [k \in Message |-> IF Opened(k) THEN Parties(k) ELSE {}]

Thread ==
    [k \in Message |->
        {<<m, letter[m].from>> : m \in {n \in posted : letter[n].chat = k}}]

Line == [u \in User |-> {<<d.chat, d.last>> : d \in cards[u]}]

C == INSTANCE Conversation
         WITH members <- Members, thread <- Thread, line <- Line

\* Whatever saves overlap and wherever an app is killed, every step of the chats
\* is a step of a conversation or changes nothing of it: a chat never leaves a
\* home page, a line never changes to another chat, and the receiver's page does
\* not list a chat the author's does not (saveMessageInUserCollection).
KeepsConversation == C!Spec
=============================================================================
