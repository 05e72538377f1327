------------------------------ MODULE ChatProofs ------------------------------
(***************************************************************************)
(* ChatInv is inductive: for every set of users, messages and card ids.    *)
(***************************************************************************)
EXTENDS ChatInvariant, TLAPS

(* A message that was sent has a letter.                                   *)
LEMMA SentLetter ==
    ASSUME TypeOK, NEW m \in Message, Sent(m)
    PROVE  letter[m] \in Letter
  BY Zenon DEF TypeOK, Sent

(* Nothing is sent, opened or stored at first.                             *)
LEMMA InitInv == Init => ChatInv
<1> SUFFICES ASSUME Init PROVE ChatInv
  OBVIOUS
<1> USE ChatAssumption DEF Init
<1>1. TypeOK
  BY DEF TypeOK, Job, At, Step, NoCard, Page, Closed
<1>2. LettersOK /\ PostedOK
  BY DEF LettersOK, PostedOK, Sent
<1>3. PagesOK
  BY DEF PagesOK
<1>4. CardsOK /\ IdsOK /\ SenderKeepsCard
  BY DEF CardsOK, IdsOK, SenderKeepsCard
<1>5. JobsOK
  BY DEF JobsOK, JobOK, At
<1>6. AddsOK /\ OneCardPerChat
  BY DEF AddsOK, OneCardPerChat, At
<1> QED
  BY <1>1, <1>2, <1>3, <1>4, <1>5, <1>6 DEF ChatInv

(* What a step that leaves letters, posted messages, coroutines and cards  *)
(* alone, as most steps do for some of them, cannot disturb.               *)
LEMMA MessagesFrame ==
    ASSUME ChatInv, UNCHANGED <<letter, posted>>
    PROVE  LettersOK' /\ PostedOK'
<1>1. LettersOK'
  BY DEF ChatInv, LettersOK, Sent, Opened, Parties
<1>2. PostedOK'
  BY DEF ChatInv, PostedOK, Sent
<1> QED
  BY <1>1, <1>2

LEMMA CardsFrame ==
    ASSUME ChatInv, UNCHANGED <<letter, posted, cards>>
    PROVE  CardsOK' /\ IdsOK' /\ SenderKeepsCard'
<1>1. CardsOK'
  BY DEF ChatInv, CardsOK, Parties
<1>2. IdsOK'
  BY DEF ChatInv, IdsOK
<1>3. SenderKeepsCard'
  BY DEF ChatInv, SenderKeepsCard, CardsOf
<1> QED
  BY <1>1, <1>2, <1>3

LEMMA JobsFrame ==
    ASSUME ChatInv, UNCHANGED <<letter, posted, cards, job>>
    PROVE  JobsOK'
<1> SUFFICES ASSUME NEW m \in Message, job'[m].step # "idle"
             PROVE  /\ Sent(m)'
                    /\ job'[m].step # "post" => m \in posted'
                    /\ job'[m].found # NoCard
                          => \E d \in CardsOf(Owner(m), letter[m].chat)' :
                                 d.id = job'[m].found
                    /\ job'[m].step \in {"findPeer", "savePeer"}
                          => CardsOf(letter[m].from, letter[m].chat)' # {}
  BY DEF JobsOK, JobOK
<1>1. /\ Sent(m)
      /\ job[m].step # "post" => m \in posted
      /\ job[m].found # NoCard
            => \E d \in CardsOf(Owner(m), letter[m].chat) :
                   d.id = job[m].found
      /\ job[m].step \in {"findPeer", "savePeer"}
            => CardsOf(letter[m].from, letter[m].chat) # {}
  BY DEF ChatInv, JobsOK, JobOK
<1> QED
  BY <1>1 DEF Sent, CardsOf, Owner

(* A save that is about to add a card still is the only one, with no card  *)
(* there, after a step that starts no such save and adds no card.          *)
LEMMA AddsKept ==
    ASSUME ChatInv, UNCHANGED lapped,
           \A n \in Message : \/ job'[n] = job[n] /\ letter'[n] = letter[n]
                             \/ job'[n].step \notin {"saveOwn", "savePeer"},
           \A v \in User : \A e \in cards'[v] : \E d \in cards[v] : e.chat = d.chat
    PROVE  AddsOK'
<1> SUFFICES ASSUME NEW m \in Message,
                    job'[m].step \in {"saveOwn", "savePeer"},
                    job'[m].found = NoCard,
                    <<Owner(m)', letter'[m].chat>> \notin lapped'
             PROVE  /\ CardsOf(Owner(m), letter[m].chat)' = {}
                    /\ Adding(Owner(m), letter[m].chat)' = {m}
  BY DEF AddsOK
<1>1. job'[m] = job[m] /\ letter'[m] = letter[m] /\ Owner(m)' = Owner(m)
  BY DEF Owner
<1>2. /\ CardsOf(Owner(m), letter[m].chat) = {}
      /\ Adding(Owner(m), letter[m].chat) = {m}
  BY <1>1 DEF ChatInv, AddsOK
<1>3. Owner(m) \in User
  BY <1>1, SentLetter DEF ChatInv, JobsOK, JobOK, Owner, Letter
<1>4. CardsOf(Owner(m), letter[m].chat)' = {}
  BY <1>1, <1>2, <1>3 DEF CardsOf
<1>5. \A n \in Adding(Owner(m), letter[m].chat)' :
          n \in Adding(Owner(m), letter[m].chat)
  <2> SUFFICES ASSUME NEW n \in Message,
                      job'[n] \in [step : {"saveOwn", "savePeer"},
                                   found : {NoCard}],
                      Owner(n)' = Owner(m)',
                      letter'[n].chat = letter'[m].chat
               PROVE  n \in Adding(Owner(m), letter[m].chat)
    BY DEF Adding
  <2>1. job'[n] = job[n] /\ letter'[n] = letter[n] /\ Owner(n)' = Owner(n)
    BY DEF Owner
  <2> QED
    BY <1>1, <2>1 DEF Adding
<1>6. m \in Adding(Owner(m), letter[m].chat)'
  BY <1>1, <1>2 DEF Adding
<1> QED
  BY <1>2, <1>4, <1>5, <1>6

LEMMA AddsFrame ==
    ASSUME ChatInv, UNCHANGED <<cards, lapped>>,
           \A n \in Message : \/ job'[n] = job[n] /\ letter'[n] = letter[n]
                             \/ job'[n].step \notin {"saveOwn", "savePeer"}
    PROVE  AddsOK' /\ OneCardPerChat'
<1>1. AddsOK'
  BY AddsKept
<1>2. OneCardPerChat'
  BY DEF ChatInv, OneCardPerChat
<1> QED
  BY <1>1, <1>2

(* A step that leaves messages, coroutines and cards alone and opens pages *)
(* only on the parties of a chat preserves the invariant.                  *)
LEMMA OpenInv ==
    ASSUME ChatInv, NEW u \in User, NEW p \in User \ {u},
           NEW k \in Message \cup {NoChat}, Open(u, p, k),
           k # NoChat => Opened(k) /\ {u, p} = Parties(k)
    PROVE  ChatInv'
<1>1. UNCHANGED <<letter, job, posted, deleted, cards, marks, kills, lapped>>
  BY DEF Open
<1>2. page' = [page EXCEPT ![u] = [peer |-> p, chat |-> k]]
  BY DEF Open
<1>3. TypeOK'
  <2>1. asked' \subseteq Ask
    BY DEF Open, SeenMessage, ChatInv, TypeOK, Ask
  <2>2. [peer |-> p, chat |-> k] \in Page
    BY DEF Page
  <2>3. page' \in [User -> Page \cup {Closed}]
    BY <1>2, <2>2 DEF ChatInv, TypeOK
  <2> QED
    BY <1>1, <2>1, <2>3 DEF ChatInv, TypeOK
<1>4. PagesOK'
  <2> SUFFICES ASSUME NEW v \in User, page'[v] # Closed
               PROVE  /\ page'[v].peer # v
                      /\ page'[v].chat # NoChat
                             => /\ Opened(page'[v].chat)
                                /\ {v, page'[v].peer} = Parties(page'[v].chat)
    BY <1>1 DEF PagesOK, Opened, Parties, Sent
  <2>1. CASE v = u
    BY <1>2, <2>1 DEF ChatInv, TypeOK
  <2>2. CASE v # u
    BY <1>2, <2>2 DEF ChatInv, TypeOK, PagesOK
  <2> QED
    BY <2>1, <2>2
<1>5. /\ (LettersOK /\ PostedOK /\ CardsOK /\ IdsOK /\ JobsOK)'
      /\ (SenderKeepsCard /\ AddsOK /\ OneCardPerChat)'
  BY <1>1, MessagesFrame, JobsFrame, CardsFrame, AddsFrame
<1> QED
  BY <1>3, <1>4, <1>5 DEF ChatInv

(* The other user of a card is the peer of its user in the card's chat.    *)
LEMMA CardParties ==
    ASSUME ChatInv, NEW u \in User, NEW d \in cards[u]
    PROVE  /\ d \in Card
           /\ Opened(d.chat)
           /\ d.sender # d.receiver
           /\ u \in {d.sender, d.receiver}
           /\ {d.sender, d.receiver} = Parties(d.chat)
<1>1. d \in Card
  BY DEF ChatInv, TypeOK
<1>2. /\ d.last \in posted
      /\ d.chat = letter[d.last].chat
      /\ d.sender = letter[d.last].from
      /\ d.receiver = letter[d.last].to
      /\ u \in Parties(d.last)
  BY DEF ChatInv, CardsOK
<1>3. Sent(d.last) /\ d.last \in Message
  BY <1>1, <1>2 DEF ChatInv, PostedOK, Card
<1>4. /\ letter[d.last].from # letter[d.last].to
      /\ Opened(letter[d.last].chat)
      /\ Parties(d.last) = Parties(letter[d.last].chat)
  BY <1>3 DEF ChatInv, LettersOK
<1> QED
  BY <1>1, <1>2, <1>4 DEF Parties

LEMMA OpenContactInv ==
    ASSUME ChatInv, NEW u \in User, NEW p \in User, OpenContact(u, p)
    PROVE  ChatInv'
<1> DEFINE found == {d \in cards[u] : p \in {d.sender, d.receiver}}
<1>1. p # u
  BY DEF OpenContact
<1>2. CASE Open(u, p, NoChat)
  BY <1>1, <1>2, OpenInv
<1>3. CASE \E d \in Last(found) : Open(u, p, d.chat)
  <2>1. PICK d \in Last(found) : Open(u, p, d.chat)
    BY <1>3
  <2>2. d \in cards[u] /\ p \in {d.sender, d.receiver}
    BY DEF Last
  <2>3. /\ d \in Card
        /\ Opened(d.chat)
        /\ d.sender # d.receiver
        /\ u \in {d.sender, d.receiver}
        /\ {d.sender, d.receiver} = Parties(d.chat)
    BY <2>2, CardParties
  <2>4. {u, p} = Parties(d.chat) /\ d.chat \in Message
    BY <1>1, <2>2, <2>3 DEF Card
  <2> QED
    BY <1>1, <2>1, <2>3, <2>4, OpenInv
<1> QED
  BY <1>2, <1>3 DEF OpenContact

LEMMA OpenCardInv ==
    ASSUME ChatInv, NEW u \in User, NEW d, OpenCard(u, d)
    PROVE  ChatInv'
<1>1. d \in cards[u] /\ Open(u, Shown(u, d), d.chat)
  BY DEF OpenCard
<1>2. /\ d \in Card
      /\ Opened(d.chat)
      /\ d.sender # d.receiver
      /\ u \in {d.sender, d.receiver}
      /\ {d.sender, d.receiver} = Parties(d.chat)
  BY <1>1, CardParties
<1>3. /\ Shown(u, d) \in User \ {u}
      /\ {u, Shown(u, d)} = Parties(d.chat)
      /\ d.chat \in Message
  BY <1>2 DEF Shown, Card
<1> QED
  BY <1>1, <1>2, <1>3, OpenInv

LEMMA CloseInv ==
    ASSUME ChatInv, NEW u \in User, Close(u)
    PROVE  ChatInv'
<1>1. UNCHANGED <<letter, job, posted, deleted, cards, asked, marks, kills, lapped>>
  BY DEF Close
<1>2. page' = [page EXCEPT ![u] = Closed]
  BY DEF Close
<1>3. TypeOK'
  BY <1>1, <1>2 DEF ChatInv, TypeOK
<1>4. PagesOK'
  BY <1>1, <1>2 DEF ChatInv, TypeOK, PagesOK, Opened, Parties, Sent
<1> QED
  BY <1>1, <1>3, <1>4, MessagesFrame, JobsFrame, CardsFrame, AddsFrame DEF ChatInv

(* The pages are as before, and so are the chats they show.                *)
LEMMA PagesFrame ==
    ASSUME ChatInv, UNCHANGED <<letter, page>>
    PROVE  PagesOK'
  BY DEF ChatInv, PagesOK, Opened, Parties, Sent

LEMMA DeleteInv ==
    ASSUME ChatInv, NEW u \in User, NEW m \in Message, Delete(u, m)
    PROVE  ChatInv'
<1>1. UNCHANGED <<letter, job, posted, cards, page, asked, marks, kills, lapped>>
  BY DEF Delete
<1>2. TypeOK'
  BY <1>1 DEF Delete, ChatInv, TypeOK
<1> QED
  BY <1>1, <1>2, PagesFrame, MessagesFrame, JobsFrame, CardsFrame, AddsFrame
     DEF ChatInv

LEMMA FindSeenInv ==
    ASSUME ChatInv, NEW q \in asked, FindSeen(q)
    PROVE  ChatInv'
<1>1. UNCHANGED <<letter, job, posted, deleted, cards, page, kills, lapped>>
  BY DEF FindSeen
<1>2. q \in Ask /\ q.of \in User
  BY DEF ChatInv, TypeOK, Ask
<1>3. \A d \in First(CardsOf(q.of, q.chat)) : d.id \in CardId
  BY <1>2 DEF First, CardsOf, ChatInv, TypeOK, Card
<1>4. marks' \subseteq User \X CardId
  BY <1>2, <1>3 DEF FindSeen, ChatInv, TypeOK
<1>5. asked' \subseteq Ask
  BY DEF FindSeen, ChatInv, TypeOK
<1>6. TypeOK'
  BY <1>1, <1>4, <1>5 DEF ChatInv, TypeOK
<1> QED
  BY <1>1, <1>6, PagesFrame, MessagesFrame, JobsFrame, CardsFrame, AddsFrame
     DEF ChatInv

(* A killed app has no page and no coroutine left.                         *)
LEMMA KillInv ==
    ASSUME ChatInv, NEW u \in User, Kill(u)
    PROVE  ChatInv'
<1>1. UNCHANGED <<letter, posted, deleted, cards, marks, lapped>>
  BY DEF Kill
<1>2. \A m \in Message : job'[m] = job[m] \/ job'[m] = At("idle")
  BY DEF Kill
<1>3. TypeOK'
  <2>1. job' \in [Message -> Job]
    <3>1. At("idle") \in Job
      BY DEF At, Job, Step, NoCard
    <3> QED
      BY <3>1 DEF Kill, ChatInv, TypeOK
  <2>2. page' \in [User -> Page \cup {Closed}]
    BY DEF Kill, ChatInv, TypeOK
  <2>3. asked' \subseteq Ask /\ kills' \in Nat
    BY ChatAssumption DEF Kill, ChatInv, TypeOK
  <2> QED
    BY <1>1, <2>1, <2>2, <2>3 DEF ChatInv, TypeOK
<1>4. PagesOK'
  <2>1. \A v \in User : page'[v] = page[v] \/ page'[v] = Closed
    BY DEF Kill, ChatInv, TypeOK
  <2> QED
    BY <1>1, <2>1 DEF ChatInv, PagesOK, Opened, Parties, Sent
<1>5. JobsOK'
  <2> SUFFICES ASSUME NEW m \in Message, job'[m].step # "idle"
               PROVE  /\ Sent(m)'
                      /\ job'[m].step # "post" => m \in posted'
                      /\ job'[m].found # NoCard
                            => \E d \in CardsOf(Owner(m), letter[m].chat)' :
                                   d.id = job'[m].found
                      /\ job'[m].step \in {"findPeer", "savePeer"}
                            => CardsOf(letter[m].from, letter[m].chat)' # {}
    BY DEF JobsOK, JobOK
  <2>1. job'[m] = job[m]
    BY <1>2 DEF At
  <2>2. /\ Sent(m)
        /\ job[m].step # "post" => m \in posted
        /\ job[m].found # NoCard
              => \E d \in CardsOf(Owner(m), letter[m].chat) :
                     d.id = job[m].found
        /\ job[m].step \in {"findPeer", "savePeer"}
              => CardsOf(letter[m].from, letter[m].chat) # {}
    BY <2>1 DEF ChatInv, JobsOK, JobOK
  <2> QED
    BY <1>1, <2>1, <2>2 DEF Sent, CardsOf, Owner
<1>6. AddsOK' /\ OneCardPerChat'
  BY <1>1, <1>2, AddsFrame DEF At
<1> QED
  BY <1>1, <1>3, <1>4, <1>5, <1>6, MessagesFrame, CardsFrame DEF ChatInv

(* A new message leaves the letters of the others alone; it opens a chat   *)
(* with the peer of the page, or goes to the chat the page shows.          *)
LEMMA SubmitInv ==
    ASSUME ChatInv, NEW u \in User, NEW m \in Message, NEW kind \in Kind,
           Submit(u, m, kind)
    PROVE  ChatInv'
<1>0. PICK k : k = ChatIdOf(u, m)
  OBVIOUS
<1> DEFINE new == [from |-> u, to |-> page[u].peer, chat |-> k, kind |-> kind]
<1>1. /\ page[u] # Closed
      /\ letter[m] = Unsent
      /\ page' = [page EXCEPT ![u].chat = k]
      /\ letter' = [letter EXCEPT ![m] = new]
      /\ job' = [job EXCEPT ![m] = At("post")]
      /\ UNCHANGED <<posted, deleted, cards, asked, marks, kills, lapped>>
  BY <1>0 DEF Submit
<1>2. page[u] \in Page
  BY <1>1 DEF ChatInv, TypeOK
<1>3. /\ page[u].peer \in User \ {u}
      /\ k \in Message
      /\ page[u].chat # NoChat
            => Opened(page[u].chat) /\ {u, page[u].peer} = Parties(page[u].chat)
  BY <1>0, <1>1, <1>2 DEF ChatInv, PagesOK, Page, ChatIdOf
<1>4. new \in Letter
  BY <1>3 DEF Letter
<1>5. /\ letter' \in [Message -> Letter \cup {Unsent}]
      /\ letter'[m] = new
      /\ \A n \in Message \ {m} : letter'[n] = letter[n]
  BY <1>1, <1>4 DEF ChatInv, TypeOK
<1>6. Sent(m)'
  BY <1>5 DEF Sent, Unsent
<1>7. \A n \in Message : Sent(n)
          => /\ n # m
             /\ Sent(n)'
             /\ letter'[n] = letter[n]
             /\ Parties(n)' = Parties(n)
             /\ Opened(n) => Opened(n)'
  BY <1>1, <1>5 DEF Sent, Opened, Parties
<1>8. Opened(k)' /\ Parties(m)' = Parties(k)' /\ Parties(m)' = {u, page[u].peer}
  <2>1. Parties(m)' = {u, page[u].peer}
    BY <1>5 DEF Parties
  <2>2. CASE page[u].chat = NoChat
    <3>1. k = m
      BY <2>2, <1>0 DEF ChatIdOf
    <3> QED
      BY <2>1, <3>1, <1>5, <1>6 DEF Opened
  <2>3. CASE page[u].chat # NoChat
    <3>1. k = page[u].chat
      BY <2>3, <1>0 DEF ChatIdOf
    <3>2. Opened(k) /\ {u, page[u].peer} = Parties(k)
      BY <2>3, <3>1, <1>3
    <3> QED
      BY <2>1, <3>2, <1>3, <1>7 DEF Opened
  <2> QED
    BY <2>2, <2>3, <2>1
<1>9. TypeOK'
  <2>1. job' \in [Message -> Job]
    BY <1>1 DEF At, Job, Step, NoCard, ChatInv, TypeOK
  <2>2. page' \in [User -> Page \cup {Closed}]
    <3>1. [page[u] EXCEPT !.chat = k] \in Page
      BY <1>2, <1>3 DEF Page
    <3> QED
      BY <1>1, <3>1 DEF ChatInv, TypeOK
  <2> QED
    BY <1>1, <1>5, <2>1, <2>2 DEF ChatInv, TypeOK
<1>10. LettersOK'
  <2> SUFFICES ASSUME NEW n \in Message, Sent(n)'
               PROVE  /\ letter'[n].from # letter'[n].to
                      /\ Opened(letter[n].chat)'
                      /\ Parties(n)' = Parties(letter[n].chat)'
    BY DEF LettersOK
  <2>1. CASE n = m
    <3>1. letter'[n].chat = k /\ letter'[n].from = u
          /\ letter'[n].to = page[u].peer
      BY <2>1, <1>5
    <3> QED
      BY <2>1, <3>1, <1>3, <1>8 DEF Opened, Parties
  <2>2. CASE n # m
    <3>1. Sent(n) /\ letter'[n] = letter[n]
      BY <2>2, <1>5 DEF Sent
    <3>2. /\ letter[n].from # letter[n].to
          /\ Opened(letter[n].chat)
          /\ Parties(n) = Parties(letter[n].chat)
          /\ letter[n].chat \in Message
      BY <3>1, SentLetter DEF ChatInv, LettersOK, Letter
    <3> QED
      BY <3>1, <3>2, <1>7 DEF Opened
  <2> QED
    BY <2>1, <2>2
<1>11. PostedOK'
  BY <1>1, <1>7 DEF ChatInv, PostedOK, TypeOK
<1>12. PagesOK'
  <2> SUFFICES ASSUME NEW v \in User, page'[v] # Closed
               PROVE  /\ page'[v].peer # v
                      /\ page'[v].chat # NoChat
                             => /\ Opened(page[v].chat)'
                                /\ {v, page'[v].peer} = Parties(page[v].chat)'
    BY DEF PagesOK
  <2>1. CASE v = u
    <3>1. page'[u].chat = k /\ page'[u].peer = page[u].peer
      BY <1>1, <1>2 DEF ChatInv, TypeOK, Page
    <3> QED
      BY <2>1, <3>1, <1>3, <1>8 DEF Opened, Parties, Sent
  <2>2. CASE v # u
    <3>1. page'[v] = page[v] /\ page[v] \in Page
      BY <2>2, <1>1 DEF ChatInv, TypeOK
    <3>2. /\ page[v].peer # v
          /\ page[v].chat # NoChat
                => /\ Opened(page[v].chat)
                   /\ {v, page[v].peer} = Parties(page[v].chat)
                   /\ page[v].chat \in Message
      BY <3>1 DEF ChatInv, PagesOK, Page
    <3> QED
      BY <3>1, <3>2, <1>7 DEF Opened
  <2> QED
    BY <2>1, <2>2
<1>13. \A v \in User : \A d \in cards[v] :
           /\ d.last \in Message
           /\ letter'[d.last] = letter[d.last]
           /\ Parties(d.last)' = Parties(d.last)
  BY <1>7 DEF ChatInv, CardsOK, PostedOK, TypeOK
<1>14. CardsOK' /\ IdsOK' /\ SenderKeepsCard'
  <2>1. CardsOK'
    BY <1>1, <1>13 DEF ChatInv, CardsOK
  <2>2. IdsOK'
    BY <1>1 DEF ChatInv, IdsOK
  <2>3. SenderKeepsCard'
    BY <1>1, <1>13 DEF ChatInv, SenderKeepsCard, CardsOf
  <2> QED
    BY <2>1, <2>2, <2>3
<1>15. JobsOK'
  <2> SUFFICES ASSUME NEW n \in Message, job'[n].step # "idle"
               PROVE  /\ Sent(n)'
                      /\ job'[n].step # "post" => n \in posted'
                      /\ job'[n].found # NoCard
                            => \E d \in CardsOf(Owner(n), letter[n].chat)' :
                                   d.id = job'[n].found
                      /\ job'[n].step \in {"findPeer", "savePeer"}
                            => CardsOf(letter[n].from, letter[n].chat)' # {}
    BY DEF JobsOK, JobOK
  <2>1. CASE n = m
    <3>1. job'[m] = At("post")
      BY <1>1 DEF ChatInv, TypeOK
    <3> QED
      BY <2>1, <3>1, <1>6 DEF At, NoCard
  <2>2. CASE n # m
    <3>1. job'[n] = job[n] /\ letter'[n] = letter[n]
      BY <2>2, <1>1, <1>5 DEF ChatInv, TypeOK
    <3>2. /\ Sent(n)
          /\ job[n].step # "post" => n \in posted
          /\ job[n].found # NoCard
                => \E d \in CardsOf(Owner(n), letter[n].chat) :
                       d.id = job[n].found
          /\ job[n].step \in {"findPeer", "savePeer"}
                => CardsOf(letter[n].from, letter[n].chat) # {}
      BY <3>1 DEF ChatInv, JobsOK, JobOK
    <3> QED
      BY <1>1, <1>7, <3>1, <3>2 DEF CardsOf, Owner
  <2> QED
    BY <2>1, <2>2
<1>16. AddsOK' /\ OneCardPerChat'
  <2>1. job'[m].step = "post" /\ \A n \in Message \ {m} : job'[n] = job[n]
    BY <1>1 DEF At, ChatInv, TypeOK
  <2> QED
    BY <1>1, <1>5, <2>1, AddsFrame
<1> QED
  BY <1>9, <1>10, <1>11, <1>12, <1>14, <1>15, <1>16 DEF ChatInv

LEMMA PostInv ==
    ASSUME ChatInv, NEW m \in Message, Post(m)
    PROVE  ChatInv'
<1>1. /\ job[m].step = "post"
      /\ posted' = posted \cup {m}
      /\ job' = [job EXCEPT ![m] = At("findOwn")]
      /\ UNCHANGED <<letter, deleted, cards, page, asked, marks, kills, lapped>>
  BY DEF Post
<1>2. TypeOK'
  BY <1>1 DEF ChatInv, TypeOK, At, Job, Step, NoCard
<1>3. LettersOK'
  BY <1>1 DEF ChatInv, LettersOK, Sent, Opened, Parties
<1>4. Sent(m)
  BY <1>1 DEF ChatInv, JobsOK, JobOK
<1>5. PostedOK'
  BY <1>1, <1>4 DEF ChatInv, PostedOK, Sent
<1>6. CardsOK'
  BY <1>1 DEF ChatInv, CardsOK, Parties
<1>7. IdsOK'
  BY <1>1 DEF ChatInv, IdsOK
<1>8. SenderKeepsCard'
  BY <1>1 DEF ChatInv, SenderKeepsCard, CardsOf
<1>9. JobsOK'
  <2> SUFFICES ASSUME NEW n \in Message, job'[n].step # "idle"
               PROVE  /\ Sent(n)'
                      /\ job'[n].step # "post" => n \in posted'
                      /\ job'[n].found # NoCard
                            => \E d \in CardsOf(Owner(n), letter[n].chat)' :
                                   d.id = job'[n].found
                      /\ job'[n].step \in {"findPeer", "savePeer"}
                            => CardsOf(letter[n].from, letter[n].chat)' # {}
    BY DEF JobsOK, JobOK
  <2>1. CASE n = m
    <3>1. job'[m] = At("findOwn")
      BY <1>1 DEF ChatInv, TypeOK
    <3> QED
      BY <2>1, <3>1, <1>1, <1>4 DEF At, NoCard, Sent
  <2>2. CASE n # m
    <3>1. job'[n] = job[n]
      BY <2>2, <1>1 DEF ChatInv, TypeOK
    <3>2. /\ Sent(n)
          /\ job[n].step # "post" => n \in posted
          /\ job[n].found # NoCard
                => \E d \in CardsOf(Owner(n), letter[n].chat) :
                       d.id = job[n].found
          /\ job[n].step \in {"findPeer", "savePeer"}
                => CardsOf(letter[n].from, letter[n].chat) # {}
      BY <3>1 DEF ChatInv, JobsOK, JobOK
    <3> QED
      BY <1>1, <3>1, <3>2 DEF CardsOf, Owner, Sent
  <2> QED
    BY <2>1, <2>2
<1>10. AddsOK' /\ OneCardPerChat'
  <2>1. job'[m].step = "findOwn" /\ \A n \in Message \ {m} : job'[n] = job[n]
    BY <1>1 DEF At, ChatInv, TypeOK
  <2> QED
    BY <1>1, <2>1, AddsFrame
<1> QED
  BY <1>1, <1>2, <1>3, <1>5, <1>6, <1>7, <1>8, <1>9, <1>10, PagesFrame DEF ChatInv

(* The coroutine of a message is not disturbed by a step that leaves it    *)
(* alone and keeps every card's id and chat.                               *)
LEMMA JobKept ==
    ASSUME ChatInv, NEW m \in Message, job[m].step # "idle",
           job'[m] = job[m], UNCHANGED <<letter, posted>>,
           \A v \in User : \A d \in cards[v] :
               \E e \in cards'[v] : e.id = d.id /\ e.chat = d.chat
    PROVE  JobOK(m)'
<1>1. JobOK(m)
  BY DEF ChatInv, JobsOK, JobOK
<1>2. letter[m].from \in User /\ letter[m].to \in User
  BY <1>1, SentLetter DEF JobOK, ChatInv, Letter
<1>3. Owner(m) \in User /\ Owner(m)' = Owner(m)
  BY <1>2 DEF Owner
<1>4. job'[m].found # NoCard
          => \E d \in CardsOf(Owner(m), letter[m].chat)' : d.id = job'[m].found
  <2> SUFFICES ASSUME job[m].found # NoCard
               PROVE  \E e \in cards'[Owner(m)] :
                          e.chat = letter[m].chat /\ e.id = job[m].found
    BY <1>3 DEF CardsOf
  <2>1. PICK d \in cards[Owner(m)] :
            d.chat = letter[m].chat /\ d.id = job[m].found
    BY <1>1 DEF JobOK, CardsOf
  <2> QED
    BY <2>1, <1>3
<1>5. job'[m].step \in {"findPeer", "savePeer"}
          => CardsOf(letter[m].from, letter[m].chat)' # {}
  BY <1>1, <1>2 DEF JobOK, CardsOf
<1> QED
  BY <1>1, <1>4, <1>5 DEF JobOK, Sent

LEMMA FindInv ==
    ASSUME ChatInv, NEW m \in Message, Find(m)
    PROVE  ChatInv'
<1>1. PICK id \in FirstId(Found(m)) :
          job' = [job EXCEPT ![m] =
                     [step |-> IF @.step = "findOwn" THEN "saveOwn"
                                                     ELSE "savePeer",
                      found |-> id]]
  BY DEF Find
<1>2. /\ job[m].step \in {"findOwn", "findPeer"}
      /\ UNCHANGED <<letter, posted, deleted, cards, page, asked, marks, kills>>
  BY DEF Find
<1>3. JobOK(m)
  BY <1>2 DEF ChatInv, JobsOK, JobOK
<1>4. Owner(m) \in User
  BY <1>3, SentLetter DEF Owner, JobOK, ChatInv, Letter
<1>5. id # NoCard => \E d \in CardsOf(Owner(m), letter[m].chat) : d.id = id
  BY DEF FirstId, Found, First, NoCard
<1>6. id \in CardId \cup {NoCard}
  BY <1>4, <1>5 DEF CardsOf, ChatInv, TypeOK, Card
<1>7. job'[m] = [step |-> IF job[m].step = "findOwn" THEN "saveOwn"
                                                    ELSE "savePeer",
                 found |-> id]
  BY <1>1 DEF ChatInv, TypeOK
<1>8. TypeOK'
  <2>1. job' \in [Message -> Job]
    BY <1>1, <1>6 DEF ChatInv, TypeOK, Job, Step
  <2>2. letter[m].chat \in Message
    BY <1>3, SentLetter DEF JobOK, ChatInv, Letter
  <2>3. lapped' \subseteq User \X Message
    BY <1>4, <2>2 DEF Find, ChatInv, TypeOK
  <2> QED
    BY <1>2, <2>1, <2>3 DEF ChatInv, TypeOK
<1>9. JobsOK'
  <2> SUFFICES ASSUME NEW n \in Message, job'[n].step # "idle"
               PROVE  JobOK(n)'
    BY DEF JobsOK, JobOK
  <2>1. CASE n = m
    <3>1. Owner(m)' = Owner(m)
      BY <1>2, <1>7 DEF Owner
    <3>2. id # NoCard
              => \E d \in CardsOf(Owner(m), letter[m].chat)' : d.id = id
      BY <1>2, <1>5, <3>1 DEF CardsOf
    <3>3. m \in posted /\ Sent(m)
      BY <1>2, <1>3 DEF JobOK
    <3>4. job'[m].step \in {"findPeer", "savePeer"}
              => CardsOf(letter[m].from, letter[m].chat)' # {}
      BY <1>2, <1>3, <1>7 DEF JobOK, CardsOf
    <3> QED
      BY <2>1, <1>2, <1>7, <3>2, <3>3, <3>4 DEF JobOK, Sent
  <2>2. CASE n # m
    <3>1. job'[n] = job[n]
      BY <2>2, <1>1 DEF ChatInv, TypeOK
    <3> QED
      BY <1>2, <3>1, JobKept
  <2> QED
    BY <2>1, <2>2
<1>10. AddsOK'
  <2> SUFFICES ASSUME NEW n \in Message,
                      job'[n].step \in {"saveOwn", "savePeer"},
                      job'[n].found = NoCard,
                      <<Owner(n)', letter'[n].chat>> \notin lapped'
               PROVE  /\ CardsOf(Owner(n), letter[n].chat)' = {}
                      /\ Adding(Owner(n), letter[n].chat)' = {n}
    BY DEF AddsOK
  <2> DEFINE o == Owner(m)
             k == letter[m].chat
  <2>1. /\ lapped \subseteq lapped'
        /\ Found(m) = {} /\ Adding(o, k) # {} => <<o, k>> \in lapped'
    BY DEF Find
  <2>2. \A i \in Message \ {m} : job'[i] = job[i] /\ Owner(i)' = Owner(i)
    BY <1>1, <1>2 DEF ChatInv, TypeOK, Owner
  <2>3. Owner(m)' = o
    BY <1>2, <1>7 DEF Owner
  <2>4. \A u \in User : \A c : Adding(u, c)' \subseteq Adding(u, c) \cup {m}
    BY <1>2, <2>2 DEF Adding
  <2>5. Owner(n)' \in User
    <3>1. Sent(n)'
      BY <1>9 DEF JobsOK, JobOK
    <3>2. letter[n] \in Letter
      BY <1>2, <3>1, SentLetter DEF Sent, ChatInv
    <3> QED
      BY <1>2, <3>2 DEF Owner, Letter
  <2>6. n \in Adding(Owner(n), letter[n].chat)'
    <3>1. job'[n] \in Job
      BY <1>8 DEF TypeOK
    <3> QED
      BY <3>1 DEF Adding, Job
  <2>7. CASE n = m
    <3>1. id = NoCard
      BY <1>7, <2>7
    <3>2. Found(m) = {}
      BY <1>4, <3>1, ChatAssumption
         DEF FirstId, First, Found, CardsOf, ChatInv, TypeOK, Card, NoCard
    <3>3. Adding(o, k) = {}
      BY <1>2, <2>1, <2>3, <2>7, <3>2
    <3>4. CardsOf(o, k) = {}
      BY <3>2 DEF Found
    <3> QED
      BY <1>2, <1>4, <2>3, <2>4, <2>6, <2>7, <3>3, <3>4 DEF CardsOf
  <2>8. CASE n # m
    <3>1. /\ CardsOf(Owner(n), letter[n].chat) = {}
          /\ Adding(Owner(n), letter[n].chat) = {n}
      BY <1>2, <2>1, <2>2, <2>8 DEF ChatInv, AddsOK
    <3>2. CardsOf(Owner(n), letter[n].chat)' = {}
      BY <1>2, <2>2, <2>8, <3>1 DEF CardsOf
    <3>3. ~(Owner(n) = o /\ letter[n].chat = k)
      <4> SUFFICES ASSUME Owner(n) = o, letter[n].chat = k PROVE FALSE
        OBVIOUS
      <4>1. Found(m) = {} /\ Adding(o, k) # {}
        BY <3>1 DEF Found
      <4> QED
        BY <1>2, <2>1, <2>2, <2>8, <4>1
    <3>4. m \notin Adding(Owner(n), letter[n].chat)'
      BY <1>2, <2>2, <2>3, <2>8, <3>3 DEF Adding
    <3> QED
      BY <1>2, <2>2, <2>4, <2>5, <2>6, <2>8, <3>1, <3>2, <3>4
  <2> QED
    BY <2>7, <2>8
<1>11. OneCardPerChat'
  BY <1>2 DEF Find, ChatInv, OneCardPerChat
<1> QED
  BY <1>2, <1>8, <1>9, <1>10, <1>11, PagesFrame, MessagesFrame, CardsFrame
     DEF ChatInv

(* Saving a card keeps the id and the chat of every card, and leaves one   *)
(* for the chat of the message at its owner.                               *)
LEMMA SaveCardFacts ==
    ASSUME ChatInv, NEW m \in Message, job[m].step \in {"saveOwn", "savePeer"},
           SaveCard(m), UNCHANGED <<letter, posted, lapped>>
    PROVE  /\ cards' \in [User -> SUBSET Card]
           /\ CardsOK'
           /\ IdsOK'
           /\ \A v \in User : \A d \in cards[v] :
                  \E e \in cards'[v] : e.id = d.id /\ e.chat = d.chat
           /\ \E e \in cards'[Owner(m)] : e.chat = letter[m].chat
           /\ \A v \in User : \A d \in cards'[v] :
                  d \in cards[v] \/ (d.last = m /\ d.chat = letter[m].chat)
           /\ \A v \in User : \A d \in cards'[v] :
                  \/ \E e \in cards[v] : e.chat = d.chat
                  \/ v = Owner(m) /\ d.chat = letter[m].chat
           /\ OneCardPerChat'
<1>1. PICK id \in CardId :
          /\ IF job[m].found = NoCard
             THEN id \notin {d.id : d \in cards[Owner(m)]}
             ELSE id = job[m].found
          /\ cards' = [cards EXCEPT ![Owner(m)] =
                          {d \in @ : d.id # id} \cup {CardFor(m, id)}]
  BY DEF SaveCard
<1>2. PICK o : o = Owner(m)
  OBVIOUS
<1>3. PICK card : card = CardFor(m, id)
  OBVIOUS
<1>4. JobOK(m) /\ m \in posted
  BY DEF ChatInv, JobsOK, JobOK
<1>5. letter[m] \in Letter
  BY <1>4, SentLetter DEF ChatInv, JobOK
<1>6. o \in User /\ o \in Parties(m)
  BY <1>2, <1>5 DEF Owner, Letter, Parties
<1>7. /\ card \in Card
      /\ card.id = id
      /\ card.chat = letter[m].chat
      /\ card.last = m
      /\ card.sender = letter[m].from
      /\ card.receiver = letter[m].to
  BY <1>3, <1>5 DEF CardFor, Card, Letter
<1>8. /\ cards'[o] = {d \in cards[o] : d.id # id} \cup {card}
      /\ \A v \in User \ {o} : cards'[v] = cards[v]
  BY <1>1, <1>2, <1>3, <1>6 DEF ChatInv, TypeOK
<1>9. \A d \in cards[o] : d.id = id => d.chat = letter[m].chat
  <2>1. CASE job[m].found = NoCard
    BY <2>1, <1>1, <1>2
  <2>2. CASE job[m].found # NoCard
    <3>1. PICK e \in cards[o] : e.chat = letter[m].chat /\ e.id = id
      BY <2>2, <1>1, <1>2, <1>4 DEF JobOK, CardsOf
    <3> QED
      BY <3>1, <1>6 DEF ChatInv, IdsOK
  <2> QED
    BY <2>1, <2>2
<1>10. cards' \in [User -> SUBSET Card]
  BY <1>1, <1>2, <1>3, <1>7 DEF ChatInv, TypeOK
<1>11. CardsOK'
  <2> SUFFICES ASSUME NEW v \in User, NEW d \in cards'[v]
               PROVE  /\ d.last \in posted
                      /\ d.chat = letter[d.last].chat
                      /\ d.sender = letter[d.last].from
                      /\ d.receiver = letter[d.last].to
                      /\ v \in Parties(d.last)
    BY DEF CardsOK, Parties
  <2>1. CASE d \in cards[v]
    BY <2>1 DEF ChatInv, CardsOK
  <2>2. CASE v = o /\ d = card
    BY <2>2, <1>4, <1>6, <1>7
  <2> QED
    BY <2>1, <2>2, <1>8
<1>12. IdsOK'
  <2> SUFFICES ASSUME NEW v \in User, NEW d \in cards'[v], NEW e \in cards'[v],
                      d.id = e.id
               PROVE  d = e
    BY DEF IdsOK
  <2> QED
    BY <1>7, <1>8 DEF ChatInv, IdsOK
<1>13. \A v \in User : \A d \in cards[v] :
           \E e \in cards'[v] : e.id = d.id /\ e.chat = d.chat
  BY <1>7, <1>8, <1>9
<1>14. \E e \in cards'[Owner(m)] : e.chat = letter[m].chat
  BY <1>2, <1>7, <1>8
<1>15. \A v \in User : \A d \in cards'[v] :
           d \in cards[v] \/ (d.last = m /\ d.chat = letter[m].chat)
  BY <1>7, <1>8
<1>16. \A v \in User : \A d \in cards'[v] :
           \/ \E e \in cards[v] : e.chat = d.chat
           \/ v = Owner(m) /\ d.chat = letter[m].chat
  BY <1>2, <1>7, <1>8
<1>17. OneCardPerChat'
  <2> SUFFICES ASSUME NEW v \in User, NEW d \in cards'[v], NEW e \in cards'[v],
                      d.chat = e.chat, <<v, d.chat>> \notin lapped
               PROVE  d = e
    BY DEF OneCardPerChat
  <2>1. \A f, g \in cards[v] : f.chat = d.chat /\ g.chat = d.chat => f = g
    BY DEF ChatInv, OneCardPerChat
  <2>2. v = o => \A f \in cards[o] : f.chat = letter[m].chat /\ d.chat = f.chat
                                        => f.id = id
    <3> SUFFICES ASSUME v = o, NEW f \in cards[o],
                        f.chat = letter[m].chat, d.chat = f.chat
                 PROVE  f.id = id
      OBVIOUS
    <3>1. CASE job[m].found = NoCard
      <4>1. CardsOf(Owner(m), letter[m].chat) = {}
        BY <3>1, <1>2 DEF ChatInv, AddsOK
      <4> QED
        BY <1>2, <4>1 DEF CardsOf
    <3>2. CASE job[m].found # NoCard
      <4>1. PICK g \in cards[o] : g.chat = letter[m].chat /\ g.id = id
        BY <3>2, <1>1, <1>2, <1>4 DEF JobOK, CardsOf
      <4> QED
        BY <2>1, <4>1
    <3> QED
      BY <3>1, <3>2
  <2> QED
    BY <1>6, <1>7, <1>8, <2>1, <2>2
<1> QED
  BY <1>10, <1>11, <1>12, <1>13, <1>14, <1>15, <1>16, <1>17

(* After m's save no other save of the same card was about to add one,     *)
(* unless they lapped.                                                     *)
LEMMA AddsAfterSave ==
    ASSUME ChatInv, NEW m \in Message, job[m].step \in {"saveOwn", "savePeer"},
           NEW next \in {"idle", "findPeer"},
           job' = [job EXCEPT ![m] = At(next)], UNCHANGED <<letter, lapped>>,
           \A v \in User : \A d \in cards'[v] :
               \/ \E e \in cards[v] : e.chat = d.chat
               \/ v = Owner(m) /\ d.chat = letter[m].chat
    PROVE  AddsOK'
<1> SUFFICES ASSUME NEW n \in Message,
                    job'[n].step \in {"saveOwn", "savePeer"},
                    job'[n].found = NoCard,
                    <<Owner(n)', letter'[n].chat>> \notin lapped'
             PROVE  /\ CardsOf(Owner(n), letter[n].chat)' = {}
                    /\ Adding(Owner(n), letter[n].chat)' = {n}
  BY DEF AddsOK
<1>1. job'[m] = At(next) /\ \A i \in Message \ {m} : job'[i] = job[i]
  BY DEF ChatInv, TypeOK
<1>2. n # m /\ job'[n] = job[n] /\ Owner(n)' = Owner(n)
  BY <1>1 DEF At, Owner
<1>3. /\ CardsOf(Owner(n), letter[n].chat) = {}
      /\ Adding(Owner(n), letter[n].chat) = {n}
  BY <1>2 DEF ChatInv, AddsOK
<1>4. ~(Owner(n) = Owner(m) /\ letter[n].chat = letter[m].chat)
  <2> SUFFICES ASSUME Owner(n) = Owner(m), letter[n].chat = letter[m].chat
               PROVE  FALSE
    OBVIOUS
  <2>1. job[m].found = NoCard
    BY <1>3 DEF ChatInv, JobsOK, JobOK
  <2>2. job[m] \in Job
    BY DEF ChatInv, TypeOK
  <2>3. m \in Adding(Owner(n), letter[n].chat)
    BY <2>1, <2>2 DEF Adding, Job
  <2> QED
    BY <1>2, <1>3, <2>3
<1>5. Owner(n) \in User
  BY <1>2, SentLetter DEF ChatInv, JobsOK, JobOK, Owner, Letter
<1>6. CardsOf(Owner(n), letter[n].chat)' = {}
  BY <1>2, <1>3, <1>4, <1>5 DEF CardsOf
<1>7. Adding(Owner(n), letter[n].chat)' \subseteq Adding(Owner(n), letter[n].chat)
  <2> SUFFICES ASSUME NEW i \in Message,
                      job'[i] \in [step : {"saveOwn", "savePeer"},
                                   found : {NoCard}],
                      Owner(i)' = Owner(n)', letter'[i].chat = letter'[n].chat
               PROVE  i \in Adding(Owner(n), letter[n].chat)
    BY DEF Adding
  <2>1. i # m /\ job'[i] = job[i] /\ Owner(i)' = Owner(i)
    BY <1>1 DEF At, Owner
  <2> QED
    BY <1>2, <2>1 DEF Adding
<1>8. n \in Adding(Owner(n), letter[n].chat)'
  BY <1>2, <1>3 DEF Adding
<1> QED
  BY <1>3, <1>6, <1>7, <1>8

(* Where the next coroutine stands after a save: m's at next, the others   *)
(* where they were.                                                        *)
LEMMA JobsAfterSave ==
    ASSUME ChatInv, NEW m \in Message, job[m].step \in {"saveOwn", "savePeer"},
           NEW next \in {"idle", "findPeer"},
           job' = [job EXCEPT ![m] = At(next)], UNCHANGED <<letter, posted>>,
           \A v \in User : \A d \in cards[v] :
               \E e \in cards'[v] : e.id = d.id /\ e.chat = d.chat,
           next = "findPeer" => CardsOf(letter[m].from, letter[m].chat)' # {}
    PROVE  JobsOK'
<1> SUFFICES ASSUME NEW n \in Message, job'[n].step # "idle"
             PROVE  JobOK(n)'
  BY DEF JobsOK, JobOK
<1>1. CASE n = m
  <2>1. job'[m] = At(next)
    BY DEF ChatInv, TypeOK
  <2>2. Sent(m) /\ m \in posted
    BY DEF ChatInv, JobsOK, JobOK
  <2>3. job'[m].step = next /\ job'[m].found = NoCard
    BY <2>1 DEF At
  <2>4. Sent(m)' /\ m \in posted'
    BY <2>2 DEF Sent
  <2>5. job'[m].step \in {"findPeer", "savePeer"}
            => CardsOf(letter[m].from, letter[m].chat)' # {}
    BY <2>3
  <2> QED
    BY <1>1, <2>3, <2>4, <2>5 DEF JobOK
<1>2. CASE n # m
  <2>1. job'[n] = job[n]
    BY <1>2 DEF ChatInv, TypeOK
  <2> QED
    BY <2>1, JobKept
<1> QED
  BY <1>1, <1>2

(* The sender of a saved card's message keeps a card of the chat, if it    *)
(* has one of the chat of the message that was saved.                      *)
LEMMA SenderAfterSave ==
    ASSUME ChatInv, NEW m \in Message, UNCHANGED <<letter, posted>>,
           letter[m] \in Letter,
           CardsOf(letter[m].from, letter[m].chat)' # {},
           \A v \in User : \A d \in cards[v] :
               \E e \in cards'[v] : e.id = d.id /\ e.chat = d.chat,
           \A v \in User : \A d \in cards'[v] :
               d \in cards[v] \/ (d.last = m /\ d.chat = letter[m].chat)
    PROVE  SenderKeepsCard'
<1> SUFFICES ASSUME NEW v \in User, NEW d \in cards'[v]
             PROVE  CardsOf(letter[d.last].from, d.chat)' # {}
  BY DEF SenderKeepsCard, CardsOf
<1>1. CASE d.last = m /\ d.chat = letter[m].chat
  BY <1>1 DEF CardsOf
<1>2. CASE d \in cards[v]
  <2>1. CardsOf(letter[d.last].from, d.chat) # {}
    BY <1>2 DEF ChatInv, SenderKeepsCard
  <2>2. letter[d.last].from \in User
    <3>1. d.last \in Message /\ Sent(d.last)
      BY <1>2 DEF ChatInv, CardsOK, PostedOK, TypeOK
    <3> QED
      BY <3>1, SentLetter DEF ChatInv, Letter
  <2> QED
    BY <2>1, <2>2 DEF CardsOf
<1> QED
  BY <1>1, <1>2

LEMMA SaveOwnInv ==
    ASSUME ChatInv, NEW m \in Message, SaveOwn(m)
    PROVE  ChatInv'
<1>1. /\ job[m].step = "saveOwn"
      /\ SaveCard(m)
      /\ job' = [job EXCEPT ![m] = At(AfterOwn(m))]
      /\ UNCHANGED <<letter, posted, deleted, page, asked, marks, kills, lapped>>
  BY DEF SaveOwn
<1>2. /\ cards' \in [User -> SUBSET Card]
      /\ CardsOK'
      /\ IdsOK'
      /\ \A v \in User : \A d \in cards[v] :
             \E e \in cards'[v] : e.id = d.id /\ e.chat = d.chat
      /\ \E e \in cards'[Owner(m)] : e.chat = letter[m].chat
      /\ \A v \in User : \A d \in cards'[v] :
             d \in cards[v] \/ (d.last = m /\ d.chat = letter[m].chat)
      /\ \A v \in User : \A d \in cards'[v] :
             \/ \E e \in cards[v] : e.chat = d.chat
             \/ v = Owner(m) /\ d.chat = letter[m].chat
      /\ OneCardPerChat'
  BY <1>1, SaveCardFacts
<1>3. letter[m] \in Letter
  BY <1>1, SentLetter DEF ChatInv, JobsOK, JobOK
<1>4. CardsOf(letter[m].from, letter[m].chat)' # {}
  BY <1>1, <1>2 DEF Owner, CardsOf
<1>5. AfterOwn(m) \in {"idle", "findPeer"}
  BY DEF AfterOwn
<1>6. JobsOK'
  BY <1>1, <1>2, <1>4, <1>5, JobsAfterSave
<1>7. SenderKeepsCard'
  BY <1>1, <1>2, <1>3, <1>4, SenderAfterSave
<1>8. TypeOK'
  BY <1>1, <1>2, <1>5 DEF ChatInv, TypeOK, At, Job, Step, NoCard
<1>9. AddsOK'
  BY <1>1, <1>2, <1>5, AddsAfterSave
<1> QED
  BY <1>1, <1>2, <1>6, <1>7, <1>8, <1>9, MessagesFrame, PagesFrame DEF ChatInv

LEMMA SavePeerInv ==
    ASSUME ChatInv, NEW m \in Message, SavePeer(m)
    PROVE  ChatInv'
<1>1. /\ job[m].step = "savePeer"
      /\ SaveCard(m)
      /\ job' = [job EXCEPT ![m] = At("idle")]
      /\ SeenMessage(letter[m].from, letter[m].to, letter[m].chat)
      /\ UNCHANGED <<letter, posted, deleted, page, marks, kills, lapped>>
  BY DEF SavePeer
<1>2. /\ cards' \in [User -> SUBSET Card]
      /\ CardsOK'
      /\ IdsOK'
      /\ \A v \in User : \A d \in cards[v] :
             \E e \in cards'[v] : e.id = d.id /\ e.chat = d.chat
      /\ \A v \in User : \A d \in cards'[v] :
             d \in cards[v] \/ (d.last = m /\ d.chat = letter[m].chat)
      /\ \A v \in User : \A d \in cards'[v] :
             \/ \E e \in cards[v] : e.chat = d.chat
             \/ v = Owner(m) /\ d.chat = letter[m].chat
      /\ OneCardPerChat'
  BY <1>1, SaveCardFacts
<1>3. letter[m] \in Letter
  BY <1>1, SentLetter DEF ChatInv, JobsOK, JobOK
<1>4. CardsOf(letter[m].from, letter[m].chat)' # {}
  <2>1. CardsOf(letter[m].from, letter[m].chat) # {}
    BY <1>1 DEF ChatInv, JobsOK, JobOK
  <2> QED
    BY <1>1, <1>2, <1>3, <2>1 DEF CardsOf, Letter
<1>5. JobsOK'
  BY <1>1, <1>2, JobsAfterSave
<1>6. SenderKeepsCard'
  BY <1>1, <1>2, <1>3, <1>4, SenderAfterSave
<1>7. TypeOK'
  <2>1. asked' \subseteq Ask
    BY <1>1, <1>3 DEF SeenMessage, Ask, Letter, ChatInv, TypeOK
  <2>2. job' \in [Message -> Job]
    BY <1>1 DEF ChatInv, TypeOK, At, Job, Step, NoCard
  <2> QED
    BY <1>1, <1>2, <2>1, <2>2 DEF ChatInv, TypeOK
<1>8. AddsOK'
  BY <1>1, <1>2, AddsAfterSave
<1> QED
  BY <1>1, <1>2, <1>5, <1>6, <1>7, <1>8, MessagesFrame, PagesFrame DEF ChatInv

LEMMA MarkSeenInv ==
    ASSUME ChatInv, NEW u \in User, NEW id \in CardId, MarkSeen(u, id)
    PROVE  ChatInv'
<1> DEFINE mark(d) == IF d.id = id THEN [d EXCEPT !.seen = TRUE] ELSE d
<1>1. /\ marks' = marks \ {<<u, id>>}
      /\ cards' = [cards EXCEPT ![u] = {mark(d) : d \in @}]
      /\ UNCHANGED <<letter, job, posted, deleted, page, asked, kills, lapped>>
  BY DEF MarkSeen
<1>2. \A d \in Card :
          /\ mark(d) \in Card
          /\ mark(d).id = d.id
          /\ mark(d).chat = d.chat
          /\ mark(d).last = d.last
          /\ mark(d).sender = d.sender
          /\ mark(d).receiver = d.receiver
  BY DEF Card
<1>3. cards[u] \subseteq Card
  BY DEF ChatInv, TypeOK
<1>4. /\ cards'[u] = {mark(d) : d \in cards[u]}
      /\ \A v \in User \ {u} : cards'[v] = cards[v]
  BY <1>1 DEF ChatInv, TypeOK
<1> HIDE DEF mark
<1>5. cards' \in [User -> SUBSET Card]
  BY <1>1, <1>2, <1>3 DEF ChatInv, TypeOK
<1>6. \A v \in User : \A e \in cards'[v] :
          \E d \in cards[v] : /\ e = d \/ (v = u /\ e = mark(d))
                              /\ e.id = d.id /\ e.chat = d.chat
                              /\ e.last = d.last /\ e.sender = d.sender
                              /\ e.receiver = d.receiver
  BY <1>2, <1>3, <1>4
<1>7. \A v \in User : \A d \in cards[v] :
          \E e \in cards'[v] : e.id = d.id /\ e.chat = d.chat
  BY <1>2, <1>3, <1>4
<1>8. CardsOK'
  BY <1>1, <1>6 DEF ChatInv, CardsOK, Parties
<1>9. IdsOK'
  <2> SUFFICES ASSUME NEW v \in User, NEW d \in cards'[v], NEW e \in cards'[v],
                      d.id = e.id
               PROVE  d = e
    BY DEF IdsOK
  <2>1. CASE v = u
    <3>1. PICK d0 \in cards[u] : d = mark(d0) /\ d.id = d0.id
      BY <2>1, <1>2, <1>3, <1>4
    <3>2. PICK e0 \in cards[u] : e = mark(e0) /\ e.id = e0.id
      BY <2>1, <1>2, <1>3, <1>4
    <3> QED
      BY <3>1, <3>2 DEF ChatInv, IdsOK
  <2>2. CASE v # u
    BY <2>2, <1>4 DEF ChatInv, IdsOK
  <2> QED
    BY <2>1, <2>2
<1>10. SenderKeepsCard'
  <2> SUFFICES ASSUME NEW v \in User, NEW e \in cards'[v]
               PROVE  CardsOf(letter[e.last].from, e.chat)' # {}
    BY DEF SenderKeepsCard, CardsOf
  <2>1. PICK d \in cards[v] : e.chat = d.chat /\ e.last = d.last
    BY <1>6
  <2>2. letter[d.last].from \in User
    <3>1. d.last \in Message /\ Sent(d.last)
      BY DEF ChatInv, CardsOK, PostedOK, TypeOK
    <3> QED
      BY <3>1, SentLetter DEF ChatInv, Letter
  <2>3. CardsOf(letter[d.last].from, d.chat) # {}
    BY DEF ChatInv, SenderKeepsCard
  <2> QED
    BY <1>1, <1>7, <2>1, <2>2, <2>3 DEF CardsOf
<1>11. JobsOK'
  <2> SUFFICES ASSUME NEW n \in Message, job'[n].step # "idle"
               PROVE  JobOK(n)'
    BY DEF JobsOK, JobOK
  <2> QED
    BY <1>1, <1>7, JobKept
<1>12. TypeOK'
  <2>1. marks' \subseteq User \X CardId
    BY <1>1 DEF ChatInv, TypeOK
  <2> QED
    BY <1>1, <1>5, <2>1 DEF ChatInv, TypeOK
<1>13. AddsOK'
  BY <1>1, <1>6, AddsKept
<1>14. OneCardPerChat'
  <2> SUFFICES ASSUME NEW v \in User, NEW d \in cards'[v], NEW e \in cards'[v],
                      d.chat = e.chat, <<v, d.chat>> \notin lapped
               PROVE  d = e
    BY <1>1 DEF OneCardPerChat
  <2>1. PICK d0 \in cards[v] : (d = d0 \/ (v = u /\ d = mark(d0)))
                              /\ d.chat = d0.chat
    BY <1>6
  <2>2. PICK e0 \in cards[v] : (e = e0 \/ (v = u /\ e = mark(e0)))
                              /\ e.chat = e0.chat
    BY <1>6
  <2>3. d0 = e0 /\ d.id = d0.id /\ e.id = e0.id
    BY <1>2, <1>3, <2>1, <2>2 DEF ChatInv, OneCardPerChat
  <2> QED
    BY <1>9, <2>3 DEF IdsOK
<1> QED
  BY <1>1, <1>8, <1>9, <1>10, <1>11, <1>12, <1>13, <1>14,
     MessagesFrame, PagesFrame DEF ChatInv

LEMMA StutterInv ==
    ASSUME ChatInv, UNCHANGED vars
    PROVE  ChatInv'
<1>1. TypeOK'
  BY DEF vars, ChatInv, TypeOK
<1>2. AddsOK' /\ OneCardPerChat'
  BY AddsFrame DEF vars
<1> QED
  BY <1>1, <1>2, MessagesFrame, PagesFrame, CardsFrame, JobsFrame DEF ChatInv, vars

(* Every step preserves the invariant.                                     *)
LEMMA NextInv ==
    ASSUME ChatInv, [Next]_vars
    PROVE  ChatInv'
<1>1. ASSUME NEW u \in User, UserStep(u) PROVE ChatInv'
  BY <1>1, OpenContactInv, OpenCardInv, CloseInv, KillInv, MarkSeenInv
     DEF UserStep
<1>2. ASSUME NEW m \in Message, MessageStep(m) PROVE ChatInv'
  <2>1. ASSUME NEW u \in User, Send(u, m) \/ Block(u, m) PROVE ChatInv'
    BY <2>1, SubmitInv DEF Send, Block, Kind
  <2>2. ASSUME NEW u \in User, Delete(u, m) PROVE ChatInv'
    BY <2>2, DeleteInv
  <2> QED
    BY <1>2, <2>1, <2>2, PostInv, FindInv, SaveOwnInv, SavePeerInv
       DEF MessageStep
<1>3. ASSUME NEW q \in asked, FindSeen(q) PROVE ChatInv'
  BY <1>3, FindSeenInv
<1>4. CASE UNCHANGED vars
  BY <1>4, StutterInv
<1> QED
  BY <1>1, <1>2, <1>3, <1>4 DEF Next

-----------------------------------------------------------------------------
(* Letters, pages, cards and coroutines agree on the chats they belong to, *)
(* whatever overlaps: onSendMessage, blockUser, seenMessage and kills.     *)
THEOREM ChatsAgree == Spec => []ChatInv
<1>1. Init => ChatInv
  BY InitInv
<1>2. ChatInv /\ [Next]_vars => ChatInv'
  BY NextInv
<1> QED
  BY <1>1, <1>2, PTL DEF Spec

(* No message is stored under the chatId of another pair of users: however *)
(* a page was opened, onSendMessage sends to the parties of its chat.      *)
THEOREM NobodyElseReads == Spec => []ChatHasTwoParties
<1>1. ChatInv => ChatHasTwoParties
  <2> SUFFICES ASSUME ChatInv, NEW m \in posted, NEW n \in posted,
                      letter[m].chat = letter[n].chat
               PROVE  Parties(m) = Parties(n)
    BY DEF ChatHasTwoParties
  <2>1. m \in Message /\ n \in Message /\ Sent(m) /\ Sent(n)
    BY DEF ChatInv, PostedOK, TypeOK
  <2> QED
    BY <2>1 DEF ChatInv, LettersOK
<1> QED
  BY <1>1, ChatsAgree, PTL

(* LoadUser shows every card under the name of the other user of its chat. *)
THEOREM CardNamesPeer == Spec => []CardShowsPeer
<1>1. ChatInv => CardShowsPeer
  <2> SUFFICES ASSUME ChatInv, NEW u \in User, NEW d \in cards[u]
               PROVE  u # Shown(u, d) /\ {u, Shown(u, d)} = Parties(d.chat)
    BY DEF CardShowsPeer
  <2> QED
    BY CardParties DEF Shown
<1> QED
  BY <1>1, ChatsAgree, PTL

(* A card announces a message that was stored in the chat of the card.     *)
THEOREM CardIsOfPosted == Spec => []CardAnnouncesPosted
<1>1. ChatInv => CardAnnouncesPosted
  BY DEF ChatInv, CardsOK, CardAnnouncesPosted
<1> QED
  BY <1>1, ChatsAgree, PTL

(* The sender of what a card announces has a card of the chat as well, even *)
(* if its app is killed between the two saves of onSendMessage.            *)
THEOREM SenderHasCard == Spec => []SenderKeepsCard
<1>1. ChatInv => SenderKeepsCard
  BY DEF ChatInv
<1> QED
  BY <1>1, ChatsAgree, PTL

(* The look-up and the add of saveMessageInUserCollection leave one card of *)
(* a chat, whatever else overlaps, unless two of them lapped each other.   *)
THEOREM CardIsSingle == Spec => []OneCardPerChat
<1>1. ChatInv => OneCardPerChat
  BY DEF ChatInv
<1> QED
  BY <1>1, ChatsAgree, PTL

-----------------------------------------------------------------------------
(* ChatMessages implements Conversation: each step is one of its steps or  *)
(* changes nothing of it.                                                  *)

(* Where letters, stored messages and cards are left alone nothing of the  *)
(* conversation changes.                                                   *)
LEMMA ConversationFrame ==
    ASSUME UNCHANGED <<letter, posted, cards>>
    PROVE  UNCHANGED C!vars
<1>1. Members' = Members
  BY DEF Members, Opened, Sent, Parties
<1>2. Thread' = Thread
  BY DEF Thread
<1>3. Line' = Line
  BY DEF Line
<1> QED
  BY <1>1, <1>2, <1>3 DEF C!vars

(* Sending the first message of a page begins a chat; the message is not   *)
(* stored before Post.                                                     *)
LEMMA SubmitConversation ==
    ASSUME ChatInv, NEW u \in User, NEW m \in Message, NEW kind \in Kind,
           Submit(u, m, kind)
    PROVE  C!Next \/ UNCHANGED C!vars
<1>0. PICK k : k = ChatIdOf(u, m)
  OBVIOUS
<1> DEFINE new == [from |-> u, to |-> page[u].peer, chat |-> k, kind |-> kind]
<1>1. /\ page[u] # Closed
      /\ letter[m] = Unsent
      /\ letter' = [letter EXCEPT ![m] = new]
      /\ UNCHANGED <<posted, cards>>
  BY <1>0 DEF Submit
<1>2. page[u] \in Page
  BY <1>1 DEF ChatInv, TypeOK
<1>3. /\ page[u].peer \in User \ {u}
      /\ page[u].chat # NoChat => Opened(page[u].chat)
  BY <1>1, <1>2 DEF ChatInv, PagesOK, Page
<1>4. /\ letter'[m] = new
      /\ \A n \in Message \ {m} : letter'[n] = letter[n]
  BY <1>1 DEF ChatInv, TypeOK
<1>5. m \notin posted /\ ~Opened(m) /\ \A n \in posted : n \in Message
  BY <1>1 DEF ChatInv, PostedOK, Opened, Sent, TypeOK
<1>6. Thread' = Thread
  BY <1>1, <1>4, <1>5 DEF Thread
<1>7. Line' = Line
  BY <1>1 DEF Line
<1>8. \A n \in Message \ {m} :
          (Opened(n)' <=> Opened(n)) /\ Parties(n)' = Parties(n)
  BY <1>4 DEF Opened, Sent, Parties
<1>9. CASE k = m
  <2>1. Opened(m)' /\ Parties(m)' = {u, page[u].peer}
    BY <1>4, <1>9 DEF Opened, Sent, Unsent, Parties
  <2>2. Members' = [Members EXCEPT ![m] = {u, page[u].peer}]
    BY <1>8, <2>1 DEF Members
  <2>3. Members[m] = {}
    BY <1>5 DEF Members
  <2>4. C!Begin(m, u, page[u].peer)
    BY <1>3, <1>6, <1>7, <2>2, <2>3 DEF C!Begin
  <2> QED
    BY <1>3, <2>4 DEF C!Next
<1>10. CASE k # m
  <2>1. ~Opened(m)'
    BY <1>4, <1>10 DEF Opened
  <2>2. Members' = Members
    BY <1>5, <1>8, <2>1 DEF Members
  <2> QED
    BY <1>6, <1>7, <2>2 DEF C!vars
<1> QED
  BY <1>9, <1>10

(* The add to messages/<chatId>/chat stores the message.                   *)
LEMMA PostConversation ==
    ASSUME ChatInv, NEW m \in Message, Post(m)
    PROVE  C!Next \/ UNCHANGED C!vars
<1>1. /\ posted' = posted \cup {m}
      /\ UNCHANGED <<letter, cards>>
      /\ Sent(m)
  BY DEF Post, ChatInv, JobsOK, JobOK
<1>2. letter[m] \in Letter
  BY <1>1, SentLetter DEF ChatInv
<1> DEFINE k == letter[m].chat
           u == letter[m].from
<1>3. k \in Message /\ u \in User
  BY <1>2 DEF Letter
<1>4. u \in Members[k]
  BY <1>1, <1>3 DEF ChatInv, LettersOK, Members, Parties
<1>5. Members' = Members /\ Line' = Line
  BY <1>1 DEF Members, Opened, Sent, Parties, Line
<1>6. CASE m \in posted
  <2>1. UNCHANGED <<letter, posted, cards>>
    BY <1>1, <1>6
  <2> QED
    BY <2>1, ConversationFrame
<1>7. CASE m \notin posted
  <2>1. \A c \in Message, w \in User : <<m, w>> \notin Thread[c]
    BY <1>7 DEF Thread
  <2>2. Thread' = [Thread EXCEPT ![k] = @ \cup {<<m, u>>}]
    <3>1. \A c \in Message : Thread'[c] = IF c = k THEN Thread[c] \cup {<<m, u>>}
                                                   ELSE Thread[c]
      BY <1>1 DEF Thread
    <3> QED
      BY <3>1 DEF Thread
  <2>3. C!Store(k, m, u)
    BY <1>4, <1>5, <2>1, <2>2 DEF C!Store
  <2> QED
    BY <1>3, <2>3 DEF C!Next
<1> QED
  BY <1>6, <1>7

(* A saved card announces its message, to the author or after the author.  *)
LEMMA SaveConversation ==
    ASSUME ChatInv, NEW m \in Message, job[m].step \in {"saveOwn", "savePeer"},
           SaveCard(m), UNCHANGED <<letter, posted>>
    PROVE  C!Next
<1>1. PICK id \in CardId :
          /\ IF job[m].found = NoCard
             THEN id \notin {d.id : d \in cards[Owner(m)]}
             ELSE id = job[m].found
          /\ cards' = [cards EXCEPT ![Owner(m)] =
                          {d \in @ : d.id # id} \cup {CardFor(m, id)}]
  BY DEF SaveCard
<1>2. PICK o, k, w : o = Owner(m) /\ k = letter[m].chat /\ w = letter[m].from
  OBVIOUS
<1>3. JobOK(m) /\ m \in posted /\ Sent(m)
  BY DEF ChatInv, JobsOK, JobOK
<1>4. letter[m] \in Letter
  BY <1>3, SentLetter DEF ChatInv
<1>5. o \in User /\ o \in Parties(m) /\ k \in Message /\ w \in User
  BY <1>2, <1>4 DEF Owner, Letter, Parties
<1>6. o \in Members[k]
  BY <1>2, <1>3, <1>5 DEF ChatInv, LettersOK, Members
<1>7. <<m, w>> \in Thread[k]
  BY <1>2, <1>3, <1>5 DEF Thread
<1>8. o = w \/ \E n \in Message : <<k, n>> \in Line[w]
  <2>1. CASE job[m].step = "saveOwn"
    BY <2>1, <1>2 DEF Owner
  <2>2. CASE job[m].step = "savePeer"
    <3>1. PICK d \in cards[w] : d.chat = k
      BY <2>2, <1>2, <1>3 DEF JobOK, CardsOf
    <3>2. d.last \in Message
      BY <1>5 DEF ChatInv, CardsOK, TypeOK
    <3> QED
      BY <1>5, <3>1, <3>2 DEF Line
  <2> QED
    BY <2>1, <2>2
<1>9. PICK card : card = CardFor(m, id)
  OBVIOUS
<1>10. card.chat = k /\ card.last = m
  BY <1>2, <1>9 DEF CardFor
<1>11. /\ cards'[o] = {d \in cards[o] : d.id # id} \cup {card}
       /\ \A v \in User \ {o} : cards'[v] = cards[v]
  BY <1>1, <1>2, <1>5, <1>9 DEF ChatInv, TypeOK
<1>12. Members' = Members /\ Thread' = Thread
  BY DEF Members, Opened, Sent, Parties, Thread
<1>13. Line'[o] = {<<d.chat, d.last>> : d \in {e \in cards[o] : e.id # id}}
                      \cup {<<k, m>>}
  BY <1>5, <1>10, <1>11 DEF Line
<1>14. \A v \in User \ {o} : Line'[v] = Line[v]
  BY <1>11 DEF Line
<1>15. \E old \in {{}} \cup {{l} : l \in {l \in Line[o] : l[1] = k}} :
           Line'[o] = (Line[o] \ old) \cup {<<k, m>>}
  <2>1. Line[o] = {<<d.chat, d.last>> : d \in cards[o]}
    BY <1>5 DEF Line
  <2>2. CASE \A d \in cards[o] : d.id # id
    <3>1. {e \in cards[o] : e.id # id} = cards[o]
      BY <2>2
    <3>2. Line'[o] = (Line[o] \ {}) \cup {<<k, m>>}
      BY <1>13, <2>1, <3>1
    <3> QED
      BY <3>2
  <2>3. ASSUME NEW f \in cards[o], f.id = id
        PROVE  \E old \in {{}} \cup {{l} : l \in {l \in Line[o] : l[1] = k}} :
                   Line'[o] = (Line[o] \ old) \cup {<<k, m>>}
    <3>1. f.chat = k
      <4>1. job[m].found # NoCard
        BY <1>1, <1>2, <2>3
      <4>2. PICK e \in cards[o] : e.chat = k /\ e.id = id
        BY <1>1, <1>2, <1>3, <4>1 DEF JobOK, CardsOf
      <4> QED
        BY <1>5, <2>3, <4>2 DEF ChatInv, IdsOK
    <3>2. \A e \in cards[o] : e.id = id => e = f
      BY <1>5, <2>3 DEF ChatInv, IdsOK
    <3>3. <<f.chat, f.last>> \in Line[o] /\ <<f.chat, f.last>>[1] = k
      BY <2>1, <3>1
    <3>4. CASE \E e \in cards[o] :
                   e.id # id /\ <<e.chat, e.last>> = <<f.chat, f.last>>
      <4>1. {<<d.chat, d.last>> : d \in {e \in cards[o] : e.id # id}} = Line[o]
        BY <2>1, <3>2, <3>4
      <4>2. Line'[o] = (Line[o] \ {}) \cup {<<k, m>>}
        BY <1>13, <4>1
      <4> QED
        BY <4>2
    <3>5. CASE ~\E e \in cards[o] :
                   e.id # id /\ <<e.chat, e.last>> = <<f.chat, f.last>>
      <4>1. {<<d.chat, d.last>> : d \in {e \in cards[o] : e.id # id}}
                = Line[o] \ {<<f.chat, f.last>>}
        BY <2>1, <3>2, <3>5
      <4>2. Line'[o] = (Line[o] \ {<<f.chat, f.last>>}) \cup {<<k, m>>}
        BY <1>13, <4>1
      <4>3. {<<f.chat, f.last>>} \in {{l} : l \in {l \in Line[o] : l[1] = k}}
        BY <3>3
      <4> QED
        BY <4>2, <4>3
    <3> QED
      BY <3>4, <3>5
  <2> QED
    BY <2>2, <2>3
<1>16. PICK old \in {{}} \cup {{l} : l \in {l \in Line[o] : l[1] = k}} :
           Line'[o] = (Line[o] \ old) \cup {<<k, m>>}
  BY <1>15
<1>17. Line' = [Line EXCEPT ![o] = (@ \ old) \cup {<<k, m>>}]
  BY <1>5, <1>14, <1>16 DEF Line
<1>18. C!Announce(o, k, m, w)
  BY <1>6, <1>7, <1>8, <1>12, <1>17 DEF C!Announce
<1> QED
  BY <1>5, <1>18 DEF C!Next

(* An update of isSeen shows nothing else on the home page.                *)
LEMMA MarkSeenConversation ==
    ASSUME ChatInv, NEW u \in User, NEW id \in CardId, MarkSeen(u, id)
    PROVE  UNCHANGED C!vars
<1> DEFINE mark(d) == IF d.id = id THEN [d EXCEPT !.seen = TRUE] ELSE d
<1>1. /\ cards' = [cards EXCEPT ![u] = {mark(d) : d \in @}]
      /\ UNCHANGED <<letter, posted>>
  BY DEF MarkSeen
<1>2. \A d \in cards[u] : mark(d).chat = d.chat /\ mark(d).last = d.last
  BY DEF ChatInv, TypeOK, Card
<1>3. /\ cards'[u] = {mark(d) : d \in cards[u]}
      /\ \A v \in User \ {u} : cards'[v] = cards[v]
  BY <1>1 DEF ChatInv, TypeOK
<1> HIDE DEF mark
<1>4. {<<d.chat, d.last>> : d \in cards'[u]} = {<<d.chat, d.last>> : d \in cards[u]}
  BY <1>2, <1>3
<1>5. Line' = Line
  BY <1>3, <1>4 DEF Line
<1>6. Members' = Members /\ Thread' = Thread
  BY <1>1 DEF Members, Opened, Sent, Parties, Thread
<1> QED
  BY <1>5, <1>6 DEF C!vars

(* Every step of the chats is a step of a conversation.                    *)
LEMMA NextConversation ==
    ASSUME ChatInv, [Next]_vars
    PROVE  C!Next \/ UNCHANGED C!vars
<1>1. ASSUME NEW u \in User, UserStep(u) PROVE C!Next \/ UNCHANGED C!vars
  <2>1. ASSUME NEW id \in CardId, MarkSeen(u, id) PROVE UNCHANGED C!vars
    BY <2>1, MarkSeenConversation
  <2>2. CASE UNCHANGED <<letter, posted, cards>>
    BY <2>2, ConversationFrame
  <2> QED
    BY <1>1, <2>1, <2>2 DEF UserStep, OpenContact, OpenCard, Open, Close, Kill
<1>2. ASSUME NEW m \in Message, MessageStep(m)
      PROVE  C!Next \/ UNCHANGED C!vars
  <2>1. ASSUME NEW u \in User, Send(u, m) \/ Block(u, m)
        PROVE  C!Next \/ UNCHANGED C!vars
    BY <2>1, SubmitConversation DEF Send, Block, Kind
  <2>2. ASSUME SaveOwn(m) \/ SavePeer(m) PROVE C!Next
    <3>1. /\ job[m].step \in {"saveOwn", "savePeer"}
          /\ SaveCard(m)
          /\ UNCHANGED <<letter, posted>>
      BY <2>2 DEF SaveOwn, SavePeer
    <3> QED
      BY <3>1, SaveConversation
  <2>3. CASE UNCHANGED <<letter, posted, cards>>
    BY <2>3, ConversationFrame
  <2> QED
    BY <1>2, <2>1, <2>2, <2>3, PostConversation DEF MessageStep, Delete, Find
<1>3. ASSUME NEW q \in asked, FindSeen(q) PROVE UNCHANGED C!vars
  BY <1>3, ConversationFrame DEF FindSeen
<1>4. CASE UNCHANGED vars
  BY <1>4, ConversationFrame DEF vars
<1> QED
  BY <1>1, <1>2, <1>3, <1>4 DEF Next

(* However saves overlap and wherever an app is killed, the chats are a    *)
(* conversation: saveMessageInUserCollection only ever announces stored    *)
(* messages in their own chat, to the author first.                        *)
THEOREM ChatsAreConversations == Spec => KeepsConversation
<1>1. Init => C!Init
  BY DEF Init, C!Init, Members, Opened, Sent, Thread, Line
<1>2. ChatInv /\ [Next]_vars => [C!Next]_C!vars
  BY NextConversation
<1> QED
  BY <1>1, <1>2, ChatsAgree, PTL DEF Spec, KeepsConversation, C!Spec
=============================================================================
