----------------------------- MODULE GroupProofs -----------------------------
(***************************************************************************)
(* CardInv and TypingInv are inductive: for all users, groups, messages    *)
(* and cards.                                                              *)
(***************************************************************************)
EXTENDS GroupInvariant, FiniteSetTheorems, TLAPS

(* A message that was sent has a letter, to a group.                       *)
LEMMA SentLetter ==
    ASSUME TypeOK, NEW m \in Message, Sent(m)
    PROVE  letter[m] \in Letter
  BY Zenon DEF TypeOK, Sent

(* A message of some group was sent.                                       *)
LEMMA GroupIsSent ==
    ASSUME TypeOK, NEW m \in Message, letter[m].group \in Group
    PROVE  Sent(m)
  BY GroupAssumption DEF Sent, Unsent

(* A card is issued when it is a document or a write about to add it.      *)
LEMMA IssuedFacts ==
    ASSUME NEW v \in User, NEW d
    PROVE  d \in IssuedTo(v) <=>
               \/ d \in cards[v]
               \/ \E u \in User : \E i \in DOMAIN outbox[u] :
                      /\ outbox[u][i].op = "add"
                      /\ outbox[u][i].to = v
                      /\ outbox[u][i].card = d
BY DEF IssuedTo, Pending

LEMMA SeenIsIssued ==
    ASSUME NEW u \in User, NEW v \in User
    PROVE  CardsSeen(u, v) \subseteq IssuedTo(v)
BY DEF IssuedTo, CardsSeen

LEMMA SeenTyped ==
    ASSUME TypeOK, NEW u \in User, NEW v \in User
    PROVE  CardsSeen(u, v) \subseteq Card
<1> SUFFICES ASSUME NEW d \in CardsSeen(u, v)
             PROVE  d \in Card
  OBVIOUS
<1>1. CASE d \in cards[v]
  BY <1>1 DEF TypeOK
<1>2. ASSUME NEW i \in DOMAIN outbox[u],
             outbox[u][i].op = "add", outbox[u][i].card = d
      PROVE  d \in Card
  <2>1. outbox[u][i] \in Write
    BY DEF TypeOK
  <2> QED
    BY <1>2, <2>1 DEF Write
<1> QED
  BY <1>1, <1>2 DEF CardsSeen, Pending

(* Issuing appends writes to one outbox.                                   *)
LEMMA IssueFacts ==
    ASSUME TypeOK, NEW u \in User, NEW writes \in Seq(Write), Issue(u, writes)
    PROVE  /\ outbox' \in [User -> Seq(Write)]
           /\ \A v \in User :
                 /\ \A i \in DOMAIN outbox[v] :
                        i \in DOMAIN outbox'[v] /\ outbox'[v][i] = outbox[v][i]
                 /\ \A i \in DOMAIN outbox'[v] :
                        \/ i \in DOMAIN outbox[v]
                        \/ v = u /\ \E k \in DOMAIN writes :
                                        i = Len(outbox[u]) + k
           /\ \A k \in DOMAIN writes :
                  /\ Len(outbox[u]) + k \in DOMAIN outbox'[u]
                  /\ outbox'[u][Len(outbox[u]) + k] = writes[k]
<1>1. outbox \in [User -> Seq(Write)]
  BY DEF TypeOK
<1> DEFINE s == outbox[u]
<1>2. s \in Seq(Write)
  BY <1>1
<1>3. outbox' = [outbox EXCEPT ![u] = s \o writes]
  BY DEF Issue
<1>4. s \o writes \in Seq(Write)
  BY <1>2
<1>5. outbox' \in [User -> Seq(Write)] /\ outbox'[u] = s \o writes
  BY <1>1, <1>3, <1>4
<1>6. \A v \in User \ {u} : outbox'[v] = outbox[v]
  BY <1>1, <1>3
<1>7. /\ \A i \in DOMAIN s : i \in DOMAIN (s \o writes) /\ (s \o writes)[i] = s[i]
      /\ \A i \in DOMAIN (s \o writes) :
             i \in DOMAIN s \/ \E k \in DOMAIN writes : i = Len(s) + k
      /\ \A k \in DOMAIN writes : /\ Len(s) + k \in DOMAIN (s \o writes)
                                  /\ (s \o writes)[Len(s) + k] = writes[k]
  <2> HIDE DEF s
  <2>1. \A i \in DOMAIN (s \o writes) :
            i \in DOMAIN s \/ (i - Len(s) \in DOMAIN writes /\ i = Len(s) + (i - Len(s)))
    BY <1>2
  <2> QED
    BY <1>2, <2>1
<1> QED
  BY <1>5, <1>6, <1>7

(* Committing takes the first write of one outbox.                         *)
LEMMA CommitFacts ==
    ASSUME TypeOK, NEW u \in User, Commit(u)
    PROVE  /\ 1 \in DOMAIN outbox[u]
           /\ outbox[u][1] \in Write
           /\ Head(outbox[u]) = outbox[u][1]
           /\ outbox' \in [User -> Seq(Write)]
           /\ \A v \in User \ {u} : outbox'[v] = outbox[v]
           /\ \A i \in DOMAIN outbox'[u] :
                  i + 1 \in DOMAIN outbox[u] /\ outbox'[u][i] = outbox[u][i + 1]
           /\ \A i \in DOMAIN outbox[u] :
                  i = 1 \/ (i - 1 \in DOMAIN outbox'[u] /\ outbox[u][i] = outbox'[u][i - 1])
<1>1. outbox \in [User -> Seq(Write)]
  BY DEF TypeOK
<1>2. outbox[u] \in Seq(Write) /\ outbox[u] # <<>>
  BY <1>1 DEF Commit
<1>3. outbox' = [outbox EXCEPT ![u] = Tail(outbox[u])]
  BY DEF Commit
<1>4. Tail(outbox[u]) \in Seq(Write)
  BY <1>2
<1> DEFINE s == outbox[u]
<1>5. /\ 1 \in DOMAIN s
      /\ s[1] \in Write
      /\ Head(s) = s[1]
      /\ \A i \in DOMAIN Tail(s) : i + 1 \in DOMAIN s /\ Tail(s)[i] = s[i + 1]
      /\ \A i \in DOMAIN s :
             i = 1 \/ (i - 1 \in DOMAIN Tail(s) /\ s[i] = Tail(s)[i - 1])
  <2>1. s \in Seq(Write) /\ s # <<>>
    BY <1>2
  <2> HIDE DEF s
  <2> QED
    BY <2>1
<1> QED
  BY <1>1, <1>3, <1>4, <1>5

(* What createGroup issues: the message, then a card for every member.     *)
Creation(g, m, id, writes) ==
    /\ \A v \in Members[g] : \A d \in IssuedTo(v) : d.id # id[v]
    /\ 1 \in DOMAIN writes /\ writes[1] = MessageWrite(m)
    /\ \A k \in DOMAIN writes \ {1} : \E v \in Members[g] :
           writes[k] = AddWrite(v, [id |-> id[v], group |-> g, last |-> m])
    /\ \A v \in Members[g] : \E k \in DOMAIN writes \ {1} :
           writes[k] = AddWrite(v, [id |-> id[v], group |-> g, last |-> m])

LEMMA CreateFacts ==
    ASSUME TypeOK, NEW u \in User, NEW g \in Group, NEW m \in Message,
           Create(u, g, m)
    PROVE  \E id \in [Members[g] -> CardId], writes \in Seq(Write) :
               Issue(u, writes) /\ Creation(g, m, id, writes)
<1>1. PICK s \in Orders(u, g), id \in [Members[g] -> CardId] :
          /\ \A v \in Members[g] : \A d \in IssuedTo(v) : d.id # id[v]
          /\ Issue(u, <<MessageWrite(m)>> \o
                          [i \in DOMAIN s |->
                              AddWrite(s[i], [id |-> id[s[i]], group |-> g, last |-> m])])
  BY Zenon DEF Create
<1> DEFINE add(v) == AddWrite(v, [id |-> id[v], group |-> g, last |-> m])
           n == Cardinality(Members[g])
           adds == [i \in DOMAIN s |-> add(s[i])]
<1>2. n \in Nat /\ Members[g] \subseteq User
  BY GroupAssumption, FS_CardinalityType
<1>3. /\ s \in [1 .. n -> Members[g]]
      /\ \A v \in Members[g] : \E i \in 1 .. n : s[i] = v
  BY DEF Orders
<1>4. MessageWrite(m) \in Write
  BY DEF MessageWrite, Write
<1>5. \A v \in Members[g] : add(v) \in Write
  BY <1>2 DEF AddWrite, Write, Card
<1>6. adds \in Seq(Write) /\ DOMAIN adds = 1 .. n
  <2> HIDE DEF n, add
  <2> QED
    BY <1>2, <1>3, <1>5
<1>7. /\ \A i \in DOMAIN adds : \E v \in Members[g] : adds[i] = add(v)
      /\ \A v \in Members[g] : \E i \in 1 .. n : adds[i] = add(v)
  <2> HIDE DEF n, add
  <2> QED
    BY <1>3
<1> DEFINE writes == <<MessageWrite(m)>> \o adds
<1>8. /\ writes \in Seq(Write)
      /\ 1 \in DOMAIN writes /\ writes[1] = MessageWrite(m)
      /\ \A k \in DOMAIN writes \ {1} : k - 1 \in DOMAIN adds /\ writes[k] = adds[k - 1]
      /\ \A i \in 1 .. n : i + 1 \in DOMAIN writes \ {1} /\ writes[i + 1] = adds[i]
  <2> HIDE DEF adds, n
  <2> QED
    BY <1>2, <1>4, <1>6
<1>9. /\ \A k \in DOMAIN writes \ {1} : \E v \in Members[g] : writes[k] = add(v)
      /\ \A v \in Members[g] : \E k \in DOMAIN writes \ {1} : writes[k] = add(v)
  <2> HIDE DEF adds, add, writes
  <2> QED
    BY <1>7, <1>8
<1>10. Issue(u, writes)
  BY <1>1
<1>11. Creation(g, m, id, writes)
  <2> HIDE DEF writes
  <2> QED
    BY <1>1, <1>8, <1>9 DEF Creation
<1> HIDE DEF writes
<1> QED
  BY <1>8, <1>10, <1>11

(* Compose gives the message a letter and leaves the others alone.         *)
LEMMA ComposeFacts ==
    ASSUME TypeOK, NEW u \in User, NEW m \in Message, NEW g \in Group,
           Compose(u, m, g)
    PROVE  /\ letter' \in [Message -> Letter \cup {Unsent}]
           /\ sent' \in Seq(Message)
           /\ letter'[m].group = g /\ Sent(m)'
           /\ \A n \in Message : Sent(n) => letter'[n] = letter[n] /\ Sent(n)'
<1>1. [by |-> u, group |-> g] \in Letter
  BY DEF Letter
<1>2. [by |-> u, group |-> g] # Unsent
  BY GroupAssumption DEF Unsent
<1> QED
  BY <1>1, <1>2 DEF Compose, TypeOK, Sent

LEMMA InitType == Init => TypeOK
<1> SUFFICES ASSUME Init PROVE TypeOK
  OBVIOUS
<1>1. cards \in [User -> SUBSET Card]
  BY GroupAssumption DEF Init, Card
<1>2. outbox \in [User -> Seq(Write)] /\ sent \in Seq(Message)
  BY DEF Init
<1> QED
  BY <1>1, <1>2 DEF Init, TypeOK

(* Typing writes are writes.                                               *)
LEMMA TypingWriteFacts ==
    ASSUME TypeOK, NEW u \in User, page[u] # Home
    PROVE  /\ page[u] \in Group
           /\ \A who \in User \cup {NoOne} : TypingWrite(page[u], who) \in Write
           /\ TypingEnds(u) \in Seq(Write)
           /\ WrittenOnBack(u) \in Seq(Write)
           /\ Deserters(u) \subseteq User \X Group
<1>1. page[u] \in Group
  BY DEF TypeOK
<1>2. \A who \in User \cup {NoOne} : TypingWrite(page[u], who) \in Write
  BY <1>1 DEF TypingWrite, Write
<1> QED
  BY <1>1, <1>2 DEF TypingEnds, WrittenOnBack, Deserters

LEMMA RestoredFacts ==
    ASSUME NEW u \in User, NEW g \in Group
    PROVE  LastSeen(u, g) \subseteq MessagesSeen(u, g)
BY DEF LastSeen, Newest

(* What a step issues is typed; so are the documents a write leaves.       *)
LEMMA IssueTyped ==
    ASSUME TypeOK, NEW u \in User, NEW writes \in Seq(Write), Issue(u, writes)
    PROVE  outbox' \in [User -> Seq(Write)]
BY IssueFacts

(* Retelling changes the text of the cards with the id and nothing else.   *)
LEMMA RetoldFacts ==
    ASSUME NEW S \in SUBSET Card, NEW w, w.msg \in Message
    PROVE  /\ Retold(S, w) \subseteq Card
           /\ \A e \in Retold(S, w) : \E d \in S :
                  /\ e.id = d.id /\ e.group = d.group
                  /\ e = d \/ (d.id = w.id /\ e.last = w.msg)
           /\ \A d \in S : \E e \in Retold(S, w) : e.id = d.id /\ e.group = d.group
<1> DEFINE new(d) == IF d.id = w.id THEN [d EXCEPT !.last = w.msg] ELSE d
<1>1. \A d \in S : /\ new(d) \in Card
                   /\ new(d).id = d.id /\ new(d).group = d.group
                   /\ new(d) = d \/ (d.id = w.id /\ new(d).last = w.msg)
  BY DEF Card
<1>2. Retold(S, w) = {new(d) : d \in S}
  BY DEF Retold
<1> HIDE DEF new
<1> QED
  BY <1>1, <1>2

LEMMA ApplyTyped ==
    ASSUME TypeOK, NEW w \in Write, Apply(w)
    PROVE  /\ posted' \subseteq Message
           /\ deleted' \subseteq Message
           /\ cards' \in [User -> SUBSET Card]
           /\ status' \in [Group -> User \cup {NoOne}]
<1>1. posted' \subseteq Message /\ deleted' \subseteq Message
  BY DEF TypeOK, Apply, Write
<1>2. status' \in [Group -> User \cup {NoOne}]
  BY DEF TypeOK, Apply, Write
<1>3. cards' \in [User -> SUBSET Card]
  <2>1. CASE w.op = "add"
    <3>1. w.to \in User /\ w.card \in Card
      BY <2>1 DEF Write
    <3> QED
      BY <2>1, <3>1 DEF TypeOK, Apply
  <2>2. CASE w.op \in {"tell", "mend"}
    <3>1. w.to \in User /\ w.msg \in Message
      BY <2>2 DEF Write
    <3>2. Retold(cards[w.to], w) \subseteq Card
      BY <3>1, RetoldFacts DEF TypeOK
    <3> QED
      BY <2>2, <3>1, <3>2 DEF TypeOK, Apply
  <2>3. CASE w.op \notin {"add", "tell", "mend"}
    BY <2>3 DEF TypeOK, Apply
  <2> QED
    BY <2>1, <2>2, <2>3
<1> QED
  BY <1>1, <1>2, <1>3

(* Every step preserves the type invariant.                                *)
LEMMA StepType == TypeOK /\ [Next]_vars => TypeOK'
<1> SUFFICES ASSUME TypeOK, [Next]_vars
             PROVE  TypeOK'
  OBVIOUS
<1> USE DEF docVars, pageVars, queryVars, pastVars
<1>1. ASSUME NEW u \in User, NEW g \in Group, NEW m \in Message, Create(u, g, m)
      PROVE  TypeOK'
  <2>1. outbox' \in [User -> Seq(Write)]
    BY Zenon, <1>1, CreateFacts, IssueTyped
  <2>2. /\ letter' \in [Message -> Letter \cup {Unsent}]
        /\ sent' \in Seq(Message)
    BY <1>1, ComposeFacts DEF Create
  <2>3. /\ page' = [page EXCEPT ![u] = g]
        /\ UNCHANGED <<docVars, queryVars, typing, taps, kills, pastVars>>
    BY <1>1 DEF Create
  <2>4. g # Home \/ u \notin typing
    BY <1>1 DEF Create, TypeOK
  <2> QED
    BY <2>1, <2>2, <2>3, <2>4 DEF TypeOK
<1>2. ASSUME NEW u \in User, NEW g \in Group, Open(u, g)
      PROVE  TypeOK'
  BY <1>2 DEF Open, Tap, TypeOK
<1>3. ASSUME NEW u \in User, Type(u)
      PROVE  TypeOK'
  <2>1. page[u] # Home
    BY <1>3 DEF Type
  <2>2. <<TypingWrite(page[u], u)>> \in Seq(Write)
    BY <2>1, TypingWriteFacts
  <2>3. outbox' \in [User -> Seq(Write)]
    BY <1>3, <2>2, IssueTyped DEF Type
  <2> QED
    BY <1>3, <2>1, <2>3 DEF Type, Tap, TypeOK
<1>4. ASSUME NEW u \in User, Clear(u)
      PROVE  TypeOK'
  <2>1. page[u] # Home
    BY <1>4 DEF Clear, TypeOK
  <2>2. outbox' \in [User -> Seq(Write)]
    BY <1>4, <2>1, TypingWriteFacts, IssueTyped DEF Clear
  <2> QED
    BY <1>4, <2>2 DEF Clear, TypeOK
<1>5. ASSUME NEW u \in User, Back(u)
      PROVE  TypeOK'
  <2>1. outbox' \in [User -> Seq(Write)]
    BY <1>5, TypingWriteFacts, IssueTyped DEF Back
  <2> QED
    BY <1>5, <2>1 DEF Back, TypeOK
<1>6. ASSUME NEW u \in User, Leave(u)
      PROVE  TypeOK'
  <2>1. Deserters(u) \subseteq User \X Group
    BY <1>6, TypingWriteFacts DEF Leave
  <2> QED
    BY <1>6, <2>1 DEF Leave, TypeOK
<1>7. ASSUME NEW u \in User, NEW m \in Message, Send(u, m)
      PROVE  TypeOK'
  <2>1. page[u] # Home /\ page[u] \in Group
    BY <1>7 DEF Send, TypeOK
  <2>2. TypingEnds(u) \o <<MessageWrite(m)>> \in Seq(Write)
    <3>1. MessageWrite(m) \in Write
      BY DEF MessageWrite, Write
    <3> QED
      BY <2>1, <3>1, TypingWriteFacts
  <2>3. outbox' \in [User -> Seq(Write)]
    BY <1>7, <2>2, IssueTyped DEF Send
  <2>4. /\ letter' \in [Message -> Letter \cup {Unsent}]
        /\ sent' \in Seq(Message)
    BY <1>7, <2>1, ComposeFacts DEF Send
  <2>5. asked' \subseteq Ask
    BY <1>7, <2>1, GroupAssumption DEF Send, Told, Ask, TypeOK
  <2>6. torn' \subseteq Group
    BY <1>7, <2>1 DEF Send, TypeOK
  <2> QED
    BY <1>7, <2>3, <2>4, <2>5, <2>6 DEF Send, TypeOK
<1>8. ASSUME NEW q \in asked, FindCard(q)
      PROVE  TypeOK'
  <2>1. q \in Ask
    BY DEF TypeOK
  <2>2. outbox' \in [User -> Seq(Write)]
    <3>1. CASE UNCHANGED outbox
      BY <3>1 DEF TypeOK
    <3>2. CASE \E d \in Found(q) :
                   Issue(q.by, <<[op |-> "tell", to |-> q.to, id |-> d.id,
                                  group |-> q.group, msg |-> q.msg]>>)
      <4>1. PICK d \in Found(q) :
                Issue(q.by, <<[op |-> "tell", to |-> q.to, id |-> d.id,
                               group |-> q.group, msg |-> q.msg]>>)
        BY Zenon, <3>2
      <4>2. d.id \in CardId
        BY <2>1, SeenTyped DEF Ask, Found, First, Card
      <4>3. <<[op |-> "tell", to |-> q.to, id |-> d.id,
               group |-> q.group, msg |-> q.msg]>> \in Seq(Write)
        <5>1. [op |-> "tell", to |-> q.to, id |-> d.id,
               group |-> q.group, msg |-> q.msg] \in Write
          BY <2>1, <4>2 DEF Ask, Write
        <5> QED
          BY <5>1
      <4> QED
        BY <2>1, <4>1, <4>3, IssueTyped DEF Ask
    <3> QED
      BY <1>8, <3>1, <3>2 DEF FindCard
  <2> QED
    BY <1>8, <2>2 DEF FindCard, TypeOK
<1>9. ASSUME NEW u \in User, NEW m \in Message, Delete(u, m)
      PROVE  TypeOK'
  <2>1. page[u] \in Group
    BY <1>9 DEF Delete, TypeOK
  <2>2. <<DeleteWrite(m)>> \in Seq(Write)
    BY DEF DeleteWrite, Write
  <2>3. outbox' \in [User -> Seq(Write)]
    BY <1>9, <2>2, IssueTyped DEF Delete
  <2> QED
    BY <1>9, <2>1, <2>3 DEF Delete, Tap, TypeOK
<1>10. ASSUME NEW u \in User, NEW g \in Group, FindLast(u, g)
       PROVE  TypeOK'
  <2>1. LastSeen(u, g) \subseteq Message
    BY RestoredFacts DEF MessagesSeen
  <2>2. mending' \subseteq Mend
    BY <1>10, <2>1, GroupAssumption DEF FindLast, Mend, TypeOK
  <2> QED
    BY <1>10, <2>1, <2>2 DEF FindLast, TypeOK
<1>11. ASSUME NEW q \in mending, FindAnyCard(q)
       PROVE  TypeOK'
  <2>1. q \in Mend
    BY DEF TypeOK
  <2>2. PICK d \in First(CardsSeen(q.by, q.to)) :
            /\ Issue(q.by, <<[op |-> "mend", to |-> q.to, id |-> d.id, msg |-> q.msg]>>)
            /\ torn' = torn \cup ({d.group} \cap Group)
    BY Zenon, <1>11 DEF FindAnyCard
  <2>3. d.id \in CardId
    BY <2>1, SeenTyped DEF Mend, First, Card
  <2>4. <<[op |-> "mend", to |-> q.to, id |-> d.id, msg |-> q.msg]>> \in Seq(Write)
    <3>1. [op |-> "mend", to |-> q.to, id |-> d.id, msg |-> q.msg] \in Write
      BY <2>1, <2>3 DEF Mend, Write
    <3> QED
      BY <3>1
  <2>5. outbox' \in [User -> Seq(Write)]
    BY <2>1, <2>2, <2>4, IssueTyped DEF Mend
  <2> QED
    BY <1>11, <2>2, <2>5 DEF FindAnyCard, TypeOK
<1>12. ASSUME NEW u \in User, Commit(u)
       PROVE  TypeOK'
  <2>1. /\ outbox' \in [User -> Seq(Write)]
        /\ Head(outbox[u]) \in Write
    BY <1>12, CommitFacts
  <2>2. /\ posted' \subseteq Message
        /\ deleted' \subseteq Message
        /\ cards' \in [User -> SUBSET Card]
        /\ status' \in [Group -> User \cup {NoOne}]
    BY <1>12, <2>1, ApplyTyped DEF Commit
  <2> QED
    BY <1>12, <2>1, <2>2 DEF Commit, TypeOK
<1>13. ASSUME NEW u \in User, Kill(u)
       PROVE  TypeOK'
  <2>1. Deserters(u) \subseteq User \X Group
    BY DEF Deserters, TypeOK
  <2>2. torn' \subseteq Group
    BY <1>13 DEF Kill, TypeOK, Ask
  <2> QED
    BY <1>13, <2>1, <2>2 DEF Kill, TypeOK
<1>14. CASE UNCHANGED vars
  BY <1>14 DEF vars, TypeOK
<1> QED
  BY <1>1, <1>2, <1>3, <1>4, <1>5, <1>6, <1>7, <1>8, <1>9, <1>10, <1>11, <1>12,
     <1>13, <1>14
     DEF Next, UserStep

(* Documents, writes, queries and pages stay well typed.                   *)
THEOREM GroupIsTyped == Spec => []TypeOK
BY InitType, StepType, PTL DEF Spec

-----------------------------------------------------------------------------
(* Texts of cards.                                                         *)

(* Letters of sent messages stay, and what was stored or restored too.     *)
Grows ==
    /\ \A m \in Message : Sent(m) => letter'[m] = letter[m] /\ Sent(m)'
    /\ posted \subseteq posted'
    /\ restored \subseteq restored'

(* Cards keep their ids and groups from when they are issued.              *)
KeepsNames ==
    \A v \in User : \A d \in IssuedTo(v) : \E e \in IssuedTo(v)' :
        e.id = d.id /\ e.group = d.group

LEMMA MessageWriteFacts ==
    \A m, n : /\ MessageWrite(m).op = "message"
              /\ MessageWrite(m).msg = m
              /\ MessageWrite(m) = MessageWrite(n) => m = n
BY DEF MessageWrite

(* A message that is stored or about to be was sent.                       *)
LEMMA StoredIsSent ==
    ASSUME TypeOK, WritesOK, PostedOK, NEW u \in User, NEW m,
           m \in posted \/ \E j \in DOMAIN outbox[u] : outbox[u][j] = MessageWrite(m)
    PROVE  m \in Message /\ Sent(m)
<1>1. CASE m \in posted
  BY <1>1 DEF TypeOK, PostedOK
<1>2. ASSUME NEW j \in DOMAIN outbox[u], outbox[u][j] = MessageWrite(m)
      PROVE  m \in Message /\ Sent(m)
  <2>1. outbox[u][j] \in Write
    BY DEF TypeOK
  <2>2. m \in Message
    BY <1>2, <2>1, MessageWriteFacts DEF Write
  <2> QED
    BY <1>2, <2>2, MessageWriteFacts DEF WritesOK, WriteOK
<1> QED
  BY <1>1, <1>2

(* A write stays right wherever it is, if what precedes it does.           *)
LEMMA WriteKept ==
    ASSUME TypeOK, WritesOK, PostedOK, Grows, KeepsNames,
           NEW u \in User, NEW i \in DOMAIN outbox[u], NEW j,
           outbox'[u][j] = outbox[u][i],
           \A m \in Message : StoredBefore(u, i, m) => StoredBefore(u, j, m)'
    PROVE  WriteOK(u, j)'
<1> DEFINE w == outbox[u][i]
<1>1. w \in Write
  BY DEF TypeOK
<1>2. WriteOK(u, i)
  BY DEF WritesOK
<1>3. \A m \in Message :
          StoredBefore(u, i, m) => letter'[m] = letter[m] /\ StoredBefore(u, j, m)'
  BY Zenon, StoredIsSent DEF StoredBefore, Grows
<1>4. \A v \in User : \A id, g : Names(v, id, g) => Names(v, id, g)'
  BY DEF Names, KeepsNames
<1>5. CASE w.op = "message"
  <2>1. w.msg \in Message
    BY <1>1, <1>5 DEF Write
  <2> QED
    BY <1>2, <1>5, <2>1 DEF WriteOK, Grows
<1>6. CASE w.op = "add"
  <2>1. w.card.last \in Message
    BY <1>2, <1>6, StoredIsSent DEF WriteOK, StoredBefore
  <2> QED
    BY <1>2, <1>3, <1>6, <2>1 DEF WriteOK
<1>7. CASE w.op = "tell"
  <2>1. w.msg \in Message /\ w.to \in User
    BY <1>1, <1>7 DEF Write
  <2> QED
    BY <1>2, <1>3, <1>4, <1>7, <2>1 DEF WriteOK
<1>8. CASE w.op = "mend"
  <2>1. w.msg \in Message
    BY <1>1, <1>8 DEF Write
  <2> QED
    BY <1>2, <1>3, <1>8, <2>1 DEF WriteOK, Grows
<1> QED
  BY <1>5, <1>6, <1>7, <1>8 DEF WriteOK

(* What a device has issued or stored stays known while it issues more.    *)
LEMMA IssueKeeps ==
    ASSUME TypeOK, NEW u \in User, NEW writes \in Seq(Write), Issue(u, writes),
           posted \subseteq posted'
    PROVE  /\ \A v \in User : \A m : Known(v, m) => Known(v, m)'
           /\ \A v \in User : \A i \in DOMAIN outbox[v] : \A m :
                  StoredBefore(v, i, m) => StoredBefore(v, i, m)'
<1>1. \A v \in User : \A i \in DOMAIN outbox[v] :
          i \in DOMAIN outbox'[v] /\ outbox'[v][i] = outbox[v][i]
  BY IssueFacts
<1>2. ASSUME NEW v \in User, NEW m, Known(v, m)
      PROVE  Known(v, m)'
  BY <1>1, <1>2 DEF Known, Pending
<1>3. ASSUME NEW v \in User, NEW i \in DOMAIN outbox[v], NEW m,
             StoredBefore(v, i, m)
      PROVE  StoredBefore(v, i, m)'
  BY <1>1, <1>3 DEF StoredBefore
<1> QED
  BY <1>2, <1>3

(* New writes that are right leave all writes right.                       *)
LEMMA IssueWrites ==
    ASSUME CardInv, Grows, KeepsNames,
           NEW u \in User, NEW writes \in Seq(Write), Issue(u, writes),
           \A k \in DOMAIN writes : \A i : i = Len(outbox[u]) + k => WriteOK(u, i)'
    PROVE  WritesOK'
<1> SUFFICES ASSUME NEW v \in User, NEW i \in DOMAIN outbox'[v]
             PROVE  WriteOK(v, i)'
  BY DEF WritesOK
<1> USE DEF CardInv
<1>1. CASE i \in DOMAIN outbox[v]
  <2>1. outbox'[v][i] = outbox[v][i]
    BY <1>1, IssueFacts
  <2>2. \A m \in Message : StoredBefore(v, i, m) => StoredBefore(v, i, m)'
    BY <1>1, IssueKeeps DEF Grows
  <2> QED
    BY <1>1, <2>1, <2>2, WriteKept
<1>2. CASE i \notin DOMAIN outbox[v]
  <2>1. v = u /\ \E k \in DOMAIN writes : i = Len(outbox[u]) + k
    BY <1>2, IssueFacts
  <2> QED
    BY <2>1
<1> QED
  BY <1>1, <1>2

(* Queries stay right while what they know stays known.                    *)
LEMMA QueriesKept ==
    ASSUME CardInv, Grows, \A v \in User : \A m : Known(v, m) => Known(v, m)'
    PROVE  /\ \A q \in asked : Known(q.by, q.msg)' /\ letter'[q.msg].group = q.group
           /\ \A q \in mending : Known(q.by, q.msg)' /\ q.msg \in restored'
<1> USE DEF CardInv
<1>1. ASSUME NEW q \in asked
      PROVE  Known(q.by, q.msg)' /\ letter'[q.msg].group = q.group
  <2>1. q.by \in User /\ q.msg \in Message
    BY DEF TypeOK, Ask
  <2>2. Known(q.by, q.msg) /\ letter[q.msg].group = q.group
    BY DEF QueriesOK
  <2>3. Sent(q.msg)
    BY <2>1, <2>2, StoredIsSent DEF Known, Pending
  <2> QED
    BY <2>1, <2>2, <2>3 DEF Grows
<1>2. ASSUME NEW q \in mending
      PROVE  Known(q.by, q.msg)' /\ q.msg \in restored'
  <2>1. q.by \in User /\ q.msg \in Message
    BY DEF TypeOK, Mend
  <2> QED
    BY <2>1 DEF QueriesOK, Grows
<1> QED
  BY <1>1, <1>2

(* Cards that stay keep to their groups.                                   *)
LEMMA CardsKept ==
    ASSUME CardInv, Grows, NEW d \in Card,
           \/ d.last = NoMessage
           \/ d.last \in posted
              /\ (letter[d.last].group = d.group \/ d.last \in restored)
    PROVE  \/ d.last = NoMessage
           \/ d.last \in posted'
              /\ (letter'[d.last].group = d.group \/ d.last \in restored')
BY DEF CardInv, Grows, PostedOK, TypeOK

(* Nothing but a write for a new card issues one.                          *)
LEMMA IssuedKept ==
    ASSUME TypeOK, UNCHANGED cards,
           NEW u \in User, NEW writes \in Seq(Write), Issue(u, writes),
           \A k \in DOMAIN writes : writes[k].op # "add"
    PROVE  \A v \in User : IssuedTo(v)' = IssuedTo(v)
<1> SUFFICES ASSUME NEW v \in User, NEW d
             PROVE  d \in IssuedTo(v)' <=> d \in IssuedTo(v)
  OBVIOUS
<1>1. d \in IssuedTo(v)' <=>
          \/ d \in cards'[v]
          \/ \E x \in User : \E i \in DOMAIN outbox'[x] :
                 /\ outbox'[x][i].op = "add"
                 /\ outbox'[x][i].to = v
                 /\ outbox'[x][i].card = d
  BY DEF IssuedTo, Pending
<1>2. \A x \in User : \A i \in DOMAIN outbox[x] :
          i \in DOMAIN outbox'[x] /\ outbox'[x][i] = outbox[x][i]
  BY IssueFacts
<1>3. \A x \in User : \A i \in DOMAIN outbox'[x] :
          \/ i \in DOMAIN outbox[x] /\ outbox'[x][i] = outbox[x][i]
          \/ outbox'[x][i].op # "add"
  BY IssueFacts
<1> QED
  BY <1>1, <1>2, <1>3, IssuedFacts

(* A step that issues no card and touches no document.                     *)
LEMMA IssueInv ==
    ASSUME CardInv, TypeOK', Grows, UNCHANGED <<posted, cards>>,
           NEW u \in User, NEW writes \in Seq(Write), Issue(u, writes),
           \A k \in DOMAIN writes : writes[k].op # "add",
           \A k \in DOMAIN writes : \A i : i = Len(outbox[u]) + k => WriteOK(u, i)',
           \A q \in asked' :
               q \in asked \/ (Known(q.by, q.msg)' /\ letter'[q.msg].group = q.group),
           \A q \in mending' :
               q \in mending \/ (Known(q.by, q.msg)' /\ q.msg \in restored')
    PROVE  CardInv'
<1>1. TypeOK
  BY DEF CardInv
<1>2. \A v \in User : IssuedTo(v)' = IssuedTo(v)
  BY <1>1, IssuedKept
<1>3. NamesOK'
  BY <1>2 DEF CardInv, NamesOK
<1>4. KeepsNames
  BY <1>2 DEF KeepsNames
<1>5. WritesOK'
  BY <1>4, IssueWrites
<1>6. PostedOK'
  BY <1>1 DEF CardInv, PostedOK, Grows, TypeOK
<1>7. QueriesOK'
  <2>1. \A v \in User : \A m : Known(v, m) => Known(v, m)'
    BY <1>1, IssueKeeps
  <2> QED
    BY <2>1, QueriesKept DEF QueriesOK
<1>8. CardKeepsToItsGroup'
  <2> SUFFICES ASSUME NEW v \in User, NEW d \in cards[v]
               PROVE  \/ d.last = NoMessage
                      \/ d.last \in posted'
                         /\ (letter'[d.last].group = d.group \/ d.last \in restored')
    BY DEF CardKeepsToItsGroup
  <2>1. d \in Card
    BY <1>1 DEF TypeOK
  <2> QED
    BY <2>1, CardsKept DEF CardInv, CardKeepsToItsGroup
<1> QED
  BY <1>3, <1>5, <1>6, <1>7, <1>8 DEF CardInv

(* A step that issues nothing and touches no document.                     *)
LEMMA QuietInv ==
    ASSUME CardInv, TypeOK', Grows, UNCHANGED <<posted, cards, outbox>>,
           \A q \in asked' : q \in asked,
           \A q \in mending' :
               q \in mending \/ (Known(q.by, q.msg)' /\ q.msg \in restored')
    PROVE  CardInv'
<1>1. CASE User = {}
  BY <1>1 DEF CardInv, NamesOK, PostedOK, WritesOK, QueriesOK, CardKeepsToItsGroup,
              TypeOK, Ask, Mend, Grows
<1>2. ASSUME NEW u \in User
      PROVE  CardInv'
  <2>1. <<>> \in Seq(Write) /\ DOMAIN <<>> = {}
    OBVIOUS
  <2>2. Issue(u, <<>>)
    <3>1. outbox[u] \o <<>> = outbox[u] /\ outbox = [outbox EXCEPT ![u] = outbox[u]]
      BY DEF CardInv, TypeOK
    <3> QED
      BY <3>1 DEF Issue
  <2> QED
    BY <2>1, <2>2, IssueInv
<1> QED
  BY <1>1, <1>2

(* Writes that carry no text to a card are right.                          *)
LEMMA TypingWritesRight ==
    ASSUME NEW u \in User, NEW i, NEW writes, NEW k \in DOMAIN writes,
           outbox'[u][i] = writes[k], writes[k].op \in {"typing", "delete"}
    PROVE  WriteOK(u, i)'
BY DEF WriteOK

LEMMA TypingOps ==
    ASSUME NEW u \in User
    PROVE  /\ \A k \in DOMAIN TypingEnds(u) : TypingEnds(u)[k].op = "typing"
           /\ \A k \in DOMAIN WrittenOnBack(u) : WrittenOnBack(u)[k].op = "typing"
           /\ Len(TypingEnds(u)) \in Nat
BY DEF TypingEnds, WrittenOnBack, TypingWrite

(* Typing, clearing, deleting and leaving by onBackPress.                  *)
LEMMA WordlessInv ==
    ASSUME CardInv, TypeOK', UNCHANGED <<letter, posted, cards, asked, mending, restored>>,
           NEW u \in User, NEW writes \in Seq(Write), Issue(u, writes),
           \A k \in DOMAIN writes : writes[k].op \in {"typing", "delete"}
    PROVE  CardInv'
<1>1. Grows
  BY DEF Grows, Sent
<1>2. \A k \in DOMAIN writes : \A i : i = Len(outbox[u]) + k => WriteOK(u, i)'
  BY IssueFacts, TypingWritesRight DEF CardInv
<1> QED
  BY <1>1, <1>2, IssueInv

(* A message that was not sent is nowhere yet.                             *)
LEMMA ComposeGrows ==
    ASSUME TypeOK, NEW u \in User, NEW m \in Message, NEW g \in Group,
           Compose(u, m, g), UNCHANGED <<posted, restored>>
    PROVE  Grows
BY ComposeFacts DEF Grows

LEMMA SendInv ==
    ASSUME CardInv, TypeOK', NEW u \in User, NEW m \in Message, Send(u, m)
    PROVE  CardInv'
<1> DEFINE writes == TypingEnds(u) \o <<MessageWrite(m)>>
           g == page[u]
<1>1. TypeOK /\ g \in Group
  BY DEF CardInv, TypeOK, Send
<1>2. Issue(u, writes) /\ Compose(u, m, g)
  BY DEF Send
<1>3. MessageWrite(m) \in Write /\ TypingEnds(u) \in Seq(Write)
  BY <1>1, TypingWriteFacts DEF MessageWrite, Write, Send
<1>4. writes \in Seq(Write)
  BY <1>3
<1>5. UNCHANGED <<posted, cards, mending, restored>>
  BY DEF Send, docVars
<1>6. Grows /\ letter'[m].group = g /\ Sent(m)'
  BY <1>1, <1>2, <1>5, ComposeGrows, ComposeFacts
<1>7. \A k \in DOMAIN writes : writes[k].op = "typing" \/ writes[k] = MessageWrite(m)
  <2>1. \A k \in DOMAIN writes :
            \/ k \in DOMAIN TypingEnds(u) /\ writes[k] = TypingEnds(u)[k]
            \/ writes[k] = MessageWrite(m)
    BY <1>3
  <2> QED
    BY <2>1, TypingOps
<1>8. \A k \in DOMAIN writes : \A i : i = Len(outbox[u]) + k => WriteOK(u, i)'
  <2> SUFFICES ASSUME NEW k \in DOMAIN writes, NEW i, i = Len(outbox[u]) + k
               PROVE  WriteOK(u, i)'
    OBVIOUS
  <2>1. outbox'[u][i] = writes[k]
    BY Zenon, <1>1, <1>2, <1>4, IssueFacts
  <2> HIDE DEF writes
  <2> QED
    BY <1>6, <1>7, <2>1, MessageWriteFacts DEF WriteOK
<1>9. Known(u, m)'
  <2>1. Len(writes) \in DOMAIN writes /\ writes[Len(writes)] = MessageWrite(m)
    BY <1>3
  <2> HIDE DEF writes
  <2>2. /\ Len(outbox[u]) + Len(writes) \in DOMAIN outbox'[u]
        /\ outbox'[u][Len(outbox[u]) + Len(writes)] = MessageWrite(m)
    BY <1>1, <1>2, <1>4, <2>1, IssueFacts
  <2> QED
    BY <2>2 DEF Known, Pending
<1>10. \A q \in asked' :
           q \in asked \/ (Known(q.by, q.msg)' /\ letter'[q.msg].group = q.group)
  BY <1>6, <1>9 DEF Send
<1>11. \A k \in DOMAIN writes : writes[k].op # "add"
  <2> HIDE DEF writes
  <2> QED
    BY <1>7, MessageWriteFacts
<1> HIDE DEF writes
<1> QED
  BY <1>2, <1>4, <1>5, <1>6, <1>8, <1>10, <1>11, IssueInv

(* A message known to a device precedes whatever the device issues next.   *)
LEMMA KnownBefore ==
    ASSUME TypeOK, NEW u \in User, NEW m, Known(u, m), NEW w \in Write,
           Issue(u, <<w>>), UNCHANGED posted, NEW i, i = Len(outbox[u]) + 1
    PROVE  outbox'[u][i] = w /\ StoredBefore(u, i, m)'
<1>1. <<w>> \in Seq(Write) /\ 1 \in DOMAIN <<w>> /\ <<w>>[1] = w
  OBVIOUS
<1>2. outbox'[u][i] = w
  BY <1>1, IssueFacts
<1>3. \A j \in DOMAIN outbox[u] :
          j < i /\ j \in DOMAIN outbox'[u] /\ outbox'[u][j] = outbox[u][j]
  <2>1. outbox[u] \in Seq(Write)
    BY DEF TypeOK
  <2>2. \A j \in DOMAIN outbox[u] : j < i
    BY <2>1
  <2> QED
    BY <1>1, <2>2, IssueFacts
<1> QED
  BY <1>2, <1>3 DEF Known, Pending, StoredBefore

LEMMA FindCardInv ==
    ASSUME CardInv, TypeOK', NEW q \in asked, FindCard(q)
    PROVE  CardInv'
<1>1. UNCHANGED <<letter, posted, cards, mending, restored>>
  BY DEF FindCard, docVars, pastVars
<1>2. Grows
  BY <1>1 DEF Grows, Sent
<1>3. asked' \subseteq asked
  BY DEF FindCard
<1>4. CASE UNCHANGED outbox
  BY <1>1, <1>2, <1>3, <1>4, QuietInv
<1>5. ASSUME NEW d \in Found(q),
             Issue(q.by, <<[op |-> "tell", to |-> q.to, id |-> d.id,
                            group |-> q.group, msg |-> q.msg]>>)
      PROVE  CardInv'
  <2> DEFINE w == [op |-> "tell", to |-> q.to, id |-> d.id,
                   group |-> q.group, msg |-> q.msg]
  <2>1. TypeOK /\ q \in Ask
    BY DEF CardInv, TypeOK
  <2>2. q.by \in User /\ q.to \in User /\ q.msg \in Message
    BY <2>1 DEF Ask
  <2>3. /\ d \in IssuedTo(q.to) /\ d.group = q.group
        /\ d.id \in CardId
    BY <2>1, <2>2, SeenIsIssued, SeenTyped DEF Found, First, Card
  <2>4. w \in Write
    BY <2>1, <2>3 DEF Ask, Write
  <2>5. <<w>> \in Seq(Write) /\ DOMAIN <<w>> = {1} /\ <<w>>[1] = w
    BY <2>4
  <2>6. Issue(q.by, <<w>>) /\ UNCHANGED posted /\ UNCHANGED cards /\ w.op # "add"
    BY <1>1, <1>5
  <2>7. Known(q.by, q.msg) /\ letter[q.msg].group = q.group
    BY DEF CardInv, QueriesOK
  <2>8. \A v \in User : IssuedTo(v)' = IssuedTo(v)
    <3> HIDE DEF w
    <3> QED
      BY <2>6, <2>1, <2>2, <2>5, IssuedKept
  <2>9. \A i : i = Len(outbox[q.by]) + 1 => WriteOK(q.by, i)'
    <3> SUFFICES ASSUME NEW i, i = Len(outbox[q.by]) + 1
                 PROVE  WriteOK(q.by, i)'
      OBVIOUS
    <3>1. outbox'[q.by][i] = w /\ StoredBefore(q.by, i, q.msg)'
      <4> HIDE DEF w
      <4> QED
        BY <2>6, <2>1, <2>2, <2>4, <2>7, KnownBefore
    <3>2. Names(q.to, d.id, q.group)'
      BY <2>2, <2>3, <2>8 DEF Names
    <3> QED
      BY <1>1, <2>7, <3>1, <3>2 DEF WriteOK
  <2> HIDE DEF w
  <2> QED
    BY <1>1, <1>2, <1>3, <2>2, <2>6, <2>5, <2>9, IssueInv DEF w
<1> QED
  BY <1>4, <1>5 DEF FindCard

LEMMA FindAnyCardInv ==
    ASSUME CardInv, TypeOK', NEW q \in mending, FindAnyCard(q)
    PROVE  CardInv'
<1>1. UNCHANGED <<letter, posted, cards, asked, restored>>
  BY DEF FindAnyCard, docVars
<1>2. Grows
  BY <1>1 DEF Grows, Sent
<1>3. mending' \subseteq mending
  BY DEF FindAnyCard
<1>4. PICK d \in First(CardsSeen(q.by, q.to)) :
          Issue(q.by, <<[op |-> "mend", to |-> q.to, id |-> d.id, msg |-> q.msg]>>)
  BY Zenon DEF FindAnyCard
<1> DEFINE w == [op |-> "mend", to |-> q.to, id |-> d.id, msg |-> q.msg]
<1>5. TypeOK /\ q \in Mend
  BY DEF CardInv, TypeOK
<1>6. q.by \in User /\ q.to \in User /\ q.msg \in Message
  BY <1>5 DEF Mend
<1>7. w \in Write
  BY <1>5, <1>6, SeenTyped DEF First, Card, Mend, Write
<1>8. <<w>> \in Seq(Write) /\ DOMAIN <<w>> = {1} /\ <<w>>[1] = w
  BY <1>7
<1>9. Known(q.by, q.msg) /\ q.msg \in restored
  BY DEF CardInv, QueriesOK
<1>10. \A i : i = Len(outbox[q.by]) + 1 => WriteOK(q.by, i)'
  <2> SUFFICES ASSUME NEW i, i = Len(outbox[q.by]) + 1
               PROVE  WriteOK(q.by, i)'
    OBVIOUS
  <2>1. Issue(q.by, <<w>>) /\ UNCHANGED posted
    BY <1>1, <1>4
  <2>2. outbox'[q.by][i] = w /\ StoredBefore(q.by, i, q.msg)'
    <3> HIDE DEF w
    <3> QED
      BY <1>5, <1>6, <1>7, <1>9, <2>1, KnownBefore
  <2> QED
    BY <1>1, <1>9, <2>2 DEF WriteOK
<1>11. w.op # "add"
  OBVIOUS
<1> HIDE DEF w
<1> QED
  BY <1>1, <1>2, <1>3, <1>4, <1>6, <1>8, <1>10, <1>11, IssueInv DEF w

LEMMA FindLastInv ==
    ASSUME CardInv, TypeOK', NEW u \in User, NEW g \in Group, FindLast(u, g)
    PROVE  CardInv'
<1>1. UNCHANGED <<letter, posted, cards, outbox, asked>>
  BY DEF FindLast, docVars
<1>2. restored' = restored \cup LastSeen(u, g)
  BY DEF FindLast
<1>3. Grows
  BY <1>1, <1>2 DEF Grows, Sent
<1>4. \A m \in LastSeen(u, g) : Known(u, m)'
  BY <1>1, RestoredFacts DEF MessagesSeen, Known, Pending
<1>5. \A q \in mending' :
          q \in mending \/ (Known(q.by, q.msg)' /\ q.msg \in restored')
  BY <1>2, <1>4 DEF FindLast
<1> QED
  BY <1>1, <1>3, <1>5, QuietInv

LEMMA CreateInv ==
    ASSUME CardInv, TypeOK', NEW u \in User, NEW g \in Group, NEW m \in Message,
           Create(u, g, m)
    PROVE  CardInv'
<1>1. TypeOK
  BY DEF CardInv
<1>2. PICK id \in [Members[g] -> CardId], writes \in Seq(Write) :
          Issue(u, writes) /\ Creation(g, m, id, writes)
  BY <1>1, CreateFacts
<1>3. UNCHANGED <<posted, cards, asked, mending, restored>> /\ Compose(u, m, g)
  <2>1. UNCHANGED <<docVars, queryVars, pastVars>> /\ Compose(u, m, g)
    BY Zenon DEF Create
  <2> QED
    BY <2>1 DEF docVars, queryVars, pastVars
<1>4. Grows /\ letter'[m].group = g /\ Sent(m)'
  BY <1>1, <1>3, ComposeGrows, ComposeFacts
<1> DEFINE card(v) == [id |-> id[v], group |-> g, last |-> m]
<1>5. \A k \in DOMAIN writes \ {1} : \E v \in Members[g] :
          writes[k].op = "add" /\ writes[k].to = v /\ writes[k].card = card(v)
  <2>1. \A k \in DOMAIN writes \ {1} : \E v \in Members[g] :
            writes[k] = AddWrite(v, card(v))
    BY <1>2 DEF Creation
  <2> HIDE DEF card
  <2> QED
    BY <2>1 DEF AddWrite
<1>6. /\ card(u).group = g /\ card(u).last = m
      /\ \A v : card(v).id = id[v] /\ card(v).group = g /\ card(v).last = m
  OBVIOUS
<1> HIDE DEF card
<1>7. ASSUME NEW v \in User
      PROVE  /\ IssuedTo(v) \subseteq IssuedTo(v)'
             /\ \A d \in IssuedTo(v)' :
                    d \in IssuedTo(v) \/ (v \in Members[g] /\ d = card(v))
  <2>1. \A d : d \in IssuedTo(v)' <=>
            \/ d \in cards'[v]
            \/ \E x \in User : \E i \in DOMAIN outbox'[x] :
                   /\ outbox'[x][i].op = "add"
                   /\ outbox'[x][i].to = v
                   /\ outbox'[x][i].card = d
    BY DEF IssuedTo, Pending
  <2>2. \A x \in User : \A i \in DOMAIN outbox[x] :
            i \in DOMAIN outbox'[x] /\ outbox'[x][i] = outbox[x][i]
    BY <1>1, <1>2, IssueFacts
  <2>3. \A x \in User : \A i \in DOMAIN outbox'[x] :
            \/ i \in DOMAIN outbox[x] /\ outbox'[x][i] = outbox[x][i]
            \/ \E k \in DOMAIN writes : outbox'[x][i] = writes[k]
    BY <1>1, <1>2, IssueFacts
  <2>4. \A k \in DOMAIN writes :
            \/ writes[k].op # "add"
            \/ writes[k].to \in Members[g] /\ writes[k].card = card(writes[k].to)
    BY <1>2, <1>5, MessageWriteFacts DEF Creation
  <2>5. IssuedTo(v) \subseteq IssuedTo(v)'
    BY <1>3, <2>1, <2>2, IssuedFacts
  <2>6. ASSUME NEW d \in IssuedTo(v)'
        PROVE  d \in IssuedTo(v) \/ (v \in Members[g] /\ d = card(v))
    BY <1>3, <2>1, <2>3, <2>4, IssuedFacts
  <2> QED
    BY <2>5, <2>6
<1>8. NamesOK'
  <2> SUFFICES ASSUME NEW v \in User, NEW d \in IssuedTo(v)', NEW e \in IssuedTo(v)',
                      d.id = e.id
               PROVE  d.group = e.group
    BY DEF NamesOK
  <2> QED
    BY <1>2, <1>6, <1>7 DEF CardInv, NamesOK, Creation
<1>9. KeepsNames
  BY <1>7 DEF KeepsNames
<1>10. \A k \in DOMAIN writes : \A i : i = Len(outbox[u]) + k => WriteOK(u, i)'
  <2> SUFFICES ASSUME NEW k \in DOMAIN writes, NEW i, i = Len(outbox[u]) + k
               PROVE  WriteOK(u, i)'
    OBVIOUS
  <2>1. outbox'[u][i] = writes[k] /\ i \in DOMAIN outbox'[u]
    BY <1>1, <1>2, IssueFacts
  <2>2. CASE k = 1
    BY <1>2, <1>4, <2>1, <2>2, MessageWriteFacts DEF WriteOK, Creation
  <2>3. CASE k # 1
    <3>1. \E j \in DOMAIN outbox'[u] : j < i /\ outbox'[u][j] = MessageWrite(m)
      <4>1. Len(outbox[u]) \in Nat /\ k \in Nat /\ 1 < k
        BY <1>1, <2>3 DEF TypeOK
      <4>2. /\ Len(outbox[u]) + 1 \in DOMAIN outbox'[u]
            /\ outbox'[u][Len(outbox[u]) + 1] = MessageWrite(m)
        BY <1>1, <1>2, IssueFacts DEF Creation
      <4> QED
        BY <4>1, <4>2
    <3> QED
      BY <1>4, <1>5, <1>6, <2>1, <2>3, <3>1 DEF WriteOK, StoredBefore
  <2> QED
    BY <2>2, <2>3
<1>11. WritesOK'
  BY <1>2, <1>4, <1>9, <1>10, IssueWrites
<1>12. PostedOK'
  BY <1>1, <1>3, <1>4 DEF CardInv, PostedOK, Grows, TypeOK
<1>13. QueriesOK'
  <2>1. \A v \in User : \A n : Known(v, n) => Known(v, n)'
    BY <1>1, <1>2, <1>3, IssueKeeps
  <2> QED
    BY <1>3, <1>4, <2>1, QueriesKept DEF QueriesOK
<1>14. CardKeepsToItsGroup'
  <2> SUFFICES ASSUME NEW v \in User, NEW d \in cards[v]
               PROVE  \/ d.last = NoMessage
                      \/ d.last \in posted'
                         /\ (letter'[d.last].group = d.group \/ d.last \in restored')
    BY <1>3 DEF CardKeepsToItsGroup
  <2>1. d \in Card
    BY <1>1 DEF TypeOK
  <2> QED
    BY <1>4, <2>1, CardsKept DEF CardInv, CardKeepsToItsGroup
<1> QED
  BY <1>8, <1>11, <1>12, <1>13, <1>14 DEF CardInv

(* What the commit of a write leaves on home pages, and where it was.      *)
LEMMA ApplyFacts ==
    ASSUME TypeOK, NEW w \in Write, Apply(w), NEW v \in User
    PROVE  /\ posted' = IF w.op = "message" THEN posted \cup {w.msg} ELSE posted
           /\ \A d \in cards[v] : \E e \in cards'[v] : e.id = d.id /\ e.group = d.group
           /\ w.op = "add" /\ w.to = v => w.card \in cards'[v]
           /\ \A e \in cards'[v] :
                 \/ e \in cards[v]
                 \/ w.op = "add" /\ w.to = v /\ w.card = e
                 \/ /\ w.op \in {"tell", "mend"} /\ w.to = v /\ e.last = w.msg
                    /\ \E d \in cards[v] : d.id = w.id /\ e.id = d.id /\ e.group = d.group
<1>1. posted' = IF w.op = "message" THEN posted \cup {w.msg} ELSE posted
  BY DEF Apply
<1>2. CASE w.op = "add"
  <2>1. cards' = [cards EXCEPT ![w.to] = @ \cup {w.card}]
    BY <1>2 DEF Apply
  <2> QED
    BY <1>1, <1>2, <2>1 DEF TypeOK
<1>3. CASE w.op \in {"tell", "mend"}
  <2>1. cards' = [cards EXCEPT ![w.to] = Retold(cards[w.to], w)]
    BY <1>3 DEF Apply
  <2>2. w.msg \in Message /\ w.to \in User
    BY <1>3 DEF Write
  <2>3. cards[v] \in SUBSET Card
    BY DEF TypeOK
  <2>4. CASE w.to = v
    <3>1. cards'[v] = Retold(cards[v], w)
      BY <2>1, <2>4 DEF TypeOK
    <3> QED
      BY <1>1, <1>3, <2>2, <2>3, <2>4, <3>1, RetoldFacts
  <2>5. CASE w.to # v
    BY <1>1, <1>3, <2>1, <2>5 DEF TypeOK
  <2> QED
    BY <2>4, <2>5
<1>4. CASE w.op \notin {"add", "tell", "mend"}
  BY <1>1, <1>4 DEF Apply
<1> QED
  BY <1>2, <1>3, <1>4

(* The commit of a write leaves the cards issued, by id and group.         *)
LEMMA CommitIssued ==
    ASSUME TypeOK, NEW u \in User, Commit(u), NEW v \in User
    PROVE  /\ \A d \in IssuedTo(v) : \E e \in IssuedTo(v)' :
                  e.id = d.id /\ e.group = d.group
           /\ \A e \in IssuedTo(v)' : \E d \in IssuedTo(v) :
                  d.id = e.id /\ d.group = e.group
<1> DEFINE w == outbox[u][1]
<1>2. 1 \in DOMAIN outbox[u] /\ w \in Write /\ Apply(w)
  BY CommitFacts DEF Commit
<1>3. /\ \A x \in User \ {u} : outbox'[x] = outbox[x]
      /\ \A i \in DOMAIN outbox'[u] :
             i + 1 \in DOMAIN outbox[u] /\ outbox'[u][i] = outbox[u][i + 1]
      /\ \A i \in DOMAIN outbox[u] :
             i = 1 \/ (i - 1 \in DOMAIN outbox'[u] /\ outbox[u][i] = outbox'[u][i - 1])
  BY CommitFacts
<1> HIDE DEF w
<1>4. \A e : e \in IssuedTo(v)' <=>
          \/ e \in cards'[v]
          \/ \E x \in User : \E i \in DOMAIN outbox'[x] :
                 /\ outbox'[x][i].op = "add"
                 /\ outbox'[x][i].to = v
                 /\ outbox'[x][i].card = e
  BY DEF IssuedTo, Pending
<1>7. ASSUME NEW d \in IssuedTo(v)
      PROVE  \E e \in IssuedTo(v)' : e.id = d.id /\ e.group = d.group
  <2>2. CASE d \in cards[v]
    BY <1>2, <1>4, <2>2, ApplyFacts
  <2>3. ASSUME NEW x \in User, NEW i \in DOMAIN outbox[x], outbox[x][i].op = "add",
               outbox[x][i].to = v, outbox[x][i].card = d
        PROVE  d \in IssuedTo(v)'
    <3>1. CASE x = u /\ i = 1
      BY <1>2, <1>4, <2>3, <3>1, ApplyFacts DEF w
    <3>2. CASE ~(x = u /\ i = 1)
      BY <1>3, <1>4, <2>3, <3>2
    <3> QED
      BY <3>1, <3>2
  <2> QED
    BY <2>2, <2>3, IssuedFacts
<1>8. ASSUME NEW e \in IssuedTo(v)'
      PROVE  \E d \in IssuedTo(v) : d.id = e.id /\ d.group = e.group
  <2>2. CASE e \in cards'[v]
    <3>1. \/ e \in cards[v]
          \/ w.op = "add" /\ w.to = v /\ w.card = e
          \/ \E d \in cards[v] : e.id = d.id /\ e.group = d.group
      BY <1>2, <2>2, ApplyFacts
    <3> QED
      BY <1>2, <3>1, IssuedFacts DEF w
  <2>3. ASSUME NEW x \in User, NEW i \in DOMAIN outbox'[x], outbox'[x][i].op = "add",
               outbox'[x][i].to = v, outbox'[x][i].card = e
        PROVE  e \in IssuedTo(v)
    BY <1>3, <2>3, IssuedFacts
  <2> QED
    BY <1>4, <2>2, <2>3
<1> QED
  BY <1>7, <1>8

LEMMA CommitInv ==
    ASSUME CardInv, TypeOK', NEW u \in User, Commit(u)
    PROVE  CardInv'
<1> DEFINE w == outbox[u][1]
<1>1. TypeOK
  BY DEF CardInv
<1>2. /\ 1 \in DOMAIN outbox[u]
      /\ w \in Write
      /\ Apply(w)
      /\ UNCHANGED <<letter, asked, mending, restored>>
  BY <1>1, CommitFacts DEF Commit, queryVars, pastVars
<1>3. /\ \A v \in User \ {u} : outbox'[v] = outbox[v]
      /\ \A i \in DOMAIN outbox'[u] :
             i + 1 \in DOMAIN outbox[u] /\ outbox'[u][i] = outbox[u][i + 1]
      /\ \A i \in DOMAIN outbox[u] :
             i = 1 \/ (i - 1 \in DOMAIN outbox'[u] /\ outbox[u][i] = outbox'[u][i - 1])
  BY <1>1, CommitFacts
<1>4. WriteOK(u, 1)
  BY <1>2 DEF CardInv, WritesOK
<1> HIDE DEF w
<1>5. posted \subseteq posted' /\ \A m : w = MessageWrite(m) => m \in posted'
  BY <1>1, <1>2, ApplyFacts, MessageWriteFacts
<1>6. Grows
  BY <1>2, <1>5 DEF Grows, Sent
<1>7. KeepsNames
  BY <1>1, CommitIssued DEF KeepsNames
<1>8. ASSUME NEW v \in User, NEW e \in IssuedTo(v)'
      PROVE  \E d \in IssuedTo(v) : d.id = e.id /\ d.group = e.group
  BY <1>1, <1>8, CommitIssued
<1>9. NamesOK'
  <2> SUFFICES ASSUME NEW v \in User, NEW d \in IssuedTo(v)', NEW e \in IssuedTo(v)',
                      d.id = e.id
               PROVE  d.group = e.group
    BY DEF NamesOK
  <2> QED
    BY <1>8 DEF CardInv, NamesOK
<1>10. WritesOK'
  <2> SUFFICES ASSUME NEW v \in User, NEW j \in DOMAIN outbox'[v]
               PROVE  WriteOK(v, j)'
    BY DEF WritesOK
  <2>1. CASE v # u
    <3>1. outbox'[v] = outbox[v]
      BY <1>3, <2>1
    <3>2. \A m : StoredBefore(v, j, m) => StoredBefore(v, j, m)'
      BY <1>5, <3>1 DEF StoredBefore
    <3> QED
      BY <1>1, <1>6, <1>7, <3>1, <3>2, WriteKept DEF CardInv
  <2>2. CASE v = u
    <3>1. j + 1 \in DOMAIN outbox[u] /\ outbox'[u][j] = outbox[u][j + 1] /\ j \in Nat
      BY <1>3, <2>2 DEF TypeOK
    <3>2. ASSUME NEW m, StoredBefore(u, j + 1, m)
          PROVE  StoredBefore(u, j, m)'
      <4>1. CASE m \in posted
        BY <1>5, <4>1 DEF StoredBefore
      <4>2. ASSUME NEW k \in DOMAIN outbox[u], k < j + 1,
                   outbox[u][k] = MessageWrite(m)
            PROVE  StoredBefore(u, j, m)'
        <5>1. CASE k = 1
          BY <1>5, <4>2, <5>1 DEF StoredBefore, w
        <5>2. CASE k # 1
          <6>1. k \in Nat
            BY <1>1 DEF TypeOK
          <6>2. k - 1 \in DOMAIN outbox'[u] /\ outbox'[u][k - 1] = MessageWrite(m)
            BY <1>3, <4>2, <5>2
          <6>3. k - 1 < j
            BY <3>1, <4>2, <6>1
          <6> QED
            BY <6>2, <6>3 DEF StoredBefore
        <5> QED
          BY <5>1, <5>2
      <4> QED
        BY <3>2, <4>1, <4>2 DEF StoredBefore
    <3> QED
      BY <1>1, <1>6, <1>7, <2>2, <3>1, <3>2, WriteKept DEF CardInv
  <2> QED
    BY <2>1, <2>2
<1>11. PostedOK'
  <2> SUFFICES ASSUME NEW m \in posted', m \notin posted
               PROVE  Sent(m)'
    BY <1>2 DEF CardInv, PostedOK, Sent
  <2>1. w.op = "message" /\ m = w.msg
    BY <1>1, <1>2, ApplyFacts
  <2> QED
    BY <1>2, <1>4, <2>1 DEF WriteOK, Sent, w
<1>12. QueriesOK'
  <2>1. ASSUME NEW v \in User, NEW m, Known(v, m)
        PROVE  Known(v, m)'
    <3>1. CASE m \in posted
      BY <1>5, <3>1 DEF Known
    <3>2. ASSUME NEW i \in DOMAIN outbox[v], outbox[v][i] = MessageWrite(m)
          PROVE  Known(v, m)'
      <4>1. CASE v = u /\ i = 1
        BY <1>5, <3>2, <4>1 DEF Known, w
      <4>2. CASE ~(v = u /\ i = 1)
        BY <1>3, <3>2, <4>2 DEF Known, Pending
      <4> QED
        BY <4>1, <4>2
    <3> QED
      BY <2>1, <3>1, <3>2 DEF Known, Pending
  <2> QED
    BY <1>2, <1>6, <2>1, QueriesKept DEF QueriesOK
<1>13. \A m : StoredBefore(u, 1, m) => m \in posted
  <2>1. outbox[u] \in Seq(Write)
    BY <1>1 DEF TypeOK
  <2>2. \A j \in DOMAIN outbox[u] : ~(j < 1)
    BY <2>1
  <2> QED
    BY <2>2 DEF StoredBefore
<1>14. CardKeepsToItsGroup'
  <2> SUFFICES ASSUME NEW v \in User, NEW e \in cards'[v]
               PROVE  \/ e.last = NoMessage
                      \/ e.last \in posted'
                         /\ (letter'[e.last].group = e.group \/ e.last \in restored')
    BY DEF CardKeepsToItsGroup
  <2>1. CASE e \in cards[v]
    <3>1. e \in Card
      BY <1>1, <2>1 DEF TypeOK
    <3> QED
      BY <1>6, <2>1, <3>1, CardsKept DEF CardInv, CardKeepsToItsGroup
  <2>2. CASE w.op = "add" /\ w.card = e
    BY <1>2, <1>4, <1>5, <1>13, <2>2 DEF WriteOK, w
  <2>3. ASSUME w.op \in {"tell", "mend"}, w.to = v, e.last = w.msg,
               NEW d \in cards[v], d.id = w.id, e.id = d.id, e.group = d.group
        PROVE  \/ e.last = NoMessage
               \/ e.last \in posted'
                  /\ (letter'[e.last].group = e.group \/ e.last \in restored')
    <3>1. CASE w.op = "mend"
      BY <1>2, <1>4, <1>5, <1>13, <2>3, <3>1 DEF WriteOK, w
    <3>2. CASE w.op = "tell"
      <4>1. /\ w.msg \in posted /\ letter[w.msg].group = w.group
            /\ Names(v, w.id, w.group)
        BY <1>4, <1>13, <2>3, <3>2 DEF WriteOK, w
      <4>2. d \in IssuedTo(v)
        BY IssuedFacts
      <4>3. d.group = w.group
        BY <2>3, <4>1, <4>2 DEF Names, CardInv, NamesOK
      <4> QED
        BY <1>2, <1>5, <2>3, <4>1, <4>3
    <3> QED
      BY <2>3, <3>1, <3>2
  <2> QED
    BY <1>1, <1>2, <2>1, <2>2, <2>3, ApplyFacts
<1> QED
  BY <1>9, <1>10, <1>11, <1>12, <1>14 DEF CardInv

LEMMA InitCards == Init => CardInv
<1> SUFFICES ASSUME Init PROVE CardInv
  OBVIOUS
<1>1. \A u \in User : DOMAIN outbox[u] = {}
  BY DEF Init
<1>2. \A v \in User : \A d \in IssuedTo(v) : d.group = Private
  BY <1>1, IssuedFacts DEF Init
<1>3. NamesOK /\ WritesOK
  BY <1>1, <1>2 DEF NamesOK, WritesOK
<1>4. PostedOK /\ QueriesOK /\ CardKeepsToItsGroup
  BY DEF Init, PostedOK, QueriesOK, CardKeepsToItsGroup
<1> QED
  BY <1>3, <1>4, InitType DEF CardInv

(* Every step keeps account of the texts on cards.                         *)
LEMMA StepCards == CardInv /\ [Next]_vars => CardInv'
<1> SUFFICES ASSUME CardInv, [Next]_vars
             PROVE  CardInv'
  OBVIOUS
<1>0. TypeOK'
  BY StepType DEF CardInv
<1> USE <1>0 DEF docVars, pageVars, queryVars, pastVars
<1>1. ASSUME NEW u \in User, NEW g \in Group, NEW m \in Message, Create(u, g, m)
      PROVE  CardInv'
  BY <1>1, CreateInv
<1>2. ASSUME NEW u \in User, NEW m \in Message, Send(u, m)
      PROVE  CardInv'
  BY <1>2, SendInv
<1>3. ASSUME NEW q \in asked, FindCard(q)
      PROVE  CardInv'
  BY <1>3, FindCardInv
<1>4. ASSUME NEW u \in User, NEW g \in Group, FindLast(u, g)
      PROVE  CardInv'
  BY <1>4, FindLastInv
<1>5. ASSUME NEW q \in mending, FindAnyCard(q)
      PROVE  CardInv'
  BY <1>5, FindAnyCardInv
<1>6. ASSUME NEW u \in User, Commit(u)
      PROVE  CardInv'
  BY <1>6, CommitInv
<1>7. ASSUME NEW u \in User, Type(u)
      PROVE  CardInv'
  <2>1. <<TypingWrite(page[u], u)>> \in Seq(Write)
    BY <1>7, TypingWriteFacts DEF CardInv, Type
  <2>2. \A k \in DOMAIN <<TypingWrite(page[u], u)>> :
            <<TypingWrite(page[u], u)>>[k].op \in {"typing", "delete"}
    BY DEF TypingWrite
  <2> QED
    BY <1>7, <2>1, <2>2, WordlessInv DEF Type
<1>8. ASSUME NEW u \in User, Clear(u)
      PROVE  CardInv'
  BY <1>8, TypingWriteFacts, TypingOps, WordlessInv DEF Clear, CardInv, TypeOK
<1>9. ASSUME NEW u \in User, Back(u)
      PROVE  CardInv'
  BY <1>9, TypingWriteFacts, TypingOps, WordlessInv DEF Back, CardInv
<1>10. ASSUME NEW u \in User, NEW m \in Message, Delete(u, m)
       PROVE  CardInv'
  <2>1. <<DeleteWrite(m)>> \in Seq(Write)
    BY DEF DeleteWrite, Write
  <2>2. \A k \in DOMAIN <<DeleteWrite(m)>> :
            <<DeleteWrite(m)>>[k].op \in {"typing", "delete"}
    BY DEF DeleteWrite
  <2> QED
    BY <1>10, <2>1, <2>2, WordlessInv DEF Delete
<1>11. ASSUME UNCHANGED <<letter, posted, cards, outbox, restored>>,
              asked' \subseteq asked, mending' \subseteq mending
       PROVE  CardInv'
  BY <1>11, QuietInv DEF Grows, Sent
<1>12. ASSUME NEW u \in User, NEW g \in Group, Open(u, g)
       PROVE  CardInv'
  BY <1>11, <1>12 DEF Open
<1>13. ASSUME NEW u \in User, Leave(u)
       PROVE  CardInv'
  BY <1>11, <1>13 DEF Leave
<1>14. ASSUME NEW u \in User, Kill(u)
       PROVE  CardInv'
  BY <1>11, <1>14 DEF Kill
<1>15. CASE UNCHANGED vars
  BY <1>11, <1>15 DEF vars
<1> QED
  BY <1>1, <1>2, <1>3, <1>4, <1>5, <1>6, <1>7, <1>8, <1>9, <1>10, <1>12, <1>13,
     <1>14, <1>15
     DEF Next, UserStep

(* A card announces a message stored in its own group, unless a deletion   *)
(* wrote another one there (GroupDeleteAlert), whoever sends, in whatever  *)
(* order queries answer and wherever an app is killed.                     *)
THEOREM GroupCardsKeep == Spec => []CardKeepsToItsGroup
<1>1. Spec => []CardInv
  BY InitCards, StepCards, PTL DEF Spec
<1>2. CardInv => CardKeepsToItsGroup
  BY DEF CardInv
<1> QED
  BY <1>1, <1>2, PTL

-----------------------------------------------------------------------------
(* Typing statuses.                                                        *)

(* Who types keeps typing, or u issues a typing status for the group.      *)
KeepsTypists(u, writes) ==
    \A v \in User, g \in Group : Typist(v, g)
        => \/ Typist(v, g)'
           \/ v = u /\ \E k \in DOMAIN writes :
                           writes[k].op = "typing" /\ writes[k].group = g

LEMMA IssueTyping ==
    ASSUME TypingInv, TypeOK', UNCHANGED status,
           NEW u \in User, NEW writes \in Seq(Write), Issue(u, writes),
           KeepsTypists(u, writes),
           \A k \in DOMAIN writes :
               writes[k].op = "typing" /\ writes[k].who # NoOne
               => writes[k].who = u /\ Typist(u, writes[k].group)'
    PROVE  TypingInv'
<1> DEFINE new(k) == Len(outbox[u]) + k
<1>1. TypeOK /\ Len(outbox[u]) \in Nat
  BY DEF TypingInv, TypeOK
<1>2. \A v \in User : \A i \in DOMAIN outbox[v] :
          i \in DOMAIN outbox'[v] /\ outbox'[v][i] = outbox[v][i]
  BY <1>1, IssueFacts
<1>3. \A k \in DOMAIN writes :
          new(k) \in DOMAIN outbox'[u] /\ outbox'[u][new(k)] = writes[k]
  BY <1>1, IssueFacts
<1>4. \A i \in DOMAIN outbox[u], k \in DOMAIN writes : i < new(k)
  <2>1. \A i \in DOMAIN outbox[u] : i \in Nat /\ i <= Len(outbox[u])
    BY <1>1 DEF TypeOK
  <2> QED
    BY <1>1, <2>1
<1>5. \A v \in User : \A i \in DOMAIN outbox'[v] :
          \/ i \in DOMAIN outbox[v] /\ outbox'[v][i] = outbox[v][i]
          \/ v = u /\ \E k \in DOMAIN writes : outbox'[v][i] = writes[k]
  BY <1>1, IssueFacts
<1> HIDE DEF new
<1>6. TypingOK'
  <2> SUFFICES ASSUME NEW v \in User, NEW i \in DOMAIN outbox'[v],
                      outbox'[v][i].op = "typing", outbox'[v][i].who # NoOne
               PROVE  /\ outbox'[v][i].who = v
                      /\ \/ Typist(v, outbox[v][i].group)'
                         \/ \E j \in DOMAIN outbox'[v] :
                                /\ i < j
                                /\ outbox'[v][j].op = "typing"
                                /\ outbox'[v][j].group = outbox'[v][i].group
    BY DEF TypingOK
  <2>1. CASE i \in DOMAIN outbox[v] /\ outbox'[v][i] = outbox[v][i]
    <3>1. outbox[v][i] \in Write
      BY <1>1, <2>1 DEF TypeOK
    <3>2. PICK g \in Group : g = outbox[v][i].group
      BY <2>1, <3>1 DEF Write
    <3>3. /\ outbox[v][i].who = v
          /\ \/ Typist(v, g)
             \/ \E j \in DOMAIN outbox[v] :
                    i < j /\ outbox[v][j].op = "typing" /\ outbox[v][j].group = g
      BY <2>1, <3>2 DEF TypingInv, TypingOK
    <3>4. outbox'[v][i].group = g
      BY <2>1, <3>2
    <3>5. CASE Typist(v, g)
      <4>1. CASE Typist(v, g)'
        BY <2>1, <3>3, <3>4, <4>1 DEF Typist
      <4>2. ASSUME v = u, NEW k \in DOMAIN writes,
                   writes[k].op = "typing", writes[k].group = g
            PROVE  \E j \in DOMAIN outbox'[v] :
                       i < j /\ outbox'[v][j].op = "typing" /\ outbox'[v][j].group = g
        BY <1>3, <1>4, <2>1, <4>2
      <4> QED
        BY <2>1, <3>2, <3>3, <3>4, <3>5, <4>1, <4>2 DEF KeepsTypists
    <3>6. ASSUME NEW j \in DOMAIN outbox[v], i < j,
                 outbox[v][j].op = "typing", outbox[v][j].group = g
          PROVE  \E k \in DOMAIN outbox'[v] :
                     i < k /\ outbox'[v][k].op = "typing" /\ outbox'[v][k].group = g
      BY <1>2, <3>6
    <3> QED
      BY <2>1, <3>3, <3>4, <3>5, <3>6
  <2>2. ASSUME v = u, NEW k \in DOMAIN writes, outbox'[v][i] = writes[k]
        PROVE  outbox'[v][i].who = v /\ Typist(v, outbox[v][i].group)'
    BY <2>2 DEF Typist
  <2> QED
    BY <1>5, <2>1, <2>2
<1>7. StatusNamesTypist'
  <2> SUFFICES ASSUME NEW g \in Group, status[g] # NoOne
               PROVE  \/ Typist(status[g], g)'
                      \/ \E v \in User : \E i \in DOMAIN outbox'[v] :
                             outbox'[v][i].op = "typing" /\ outbox'[v][i].group = g
    BY DEF StatusNamesTypist, Pending, Typist
  <2>1. status[g] \in User
    BY <1>1 DEF TypeOK
  <2>2. \/ Typist(status[g], g)
        \/ \E v \in User : \E i \in DOMAIN outbox[v] :
               outbox[v][i].op = "typing" /\ outbox[v][i].group = g
    BY DEF TypingInv, StatusNamesTypist, Pending
  <2>3. CASE Typist(status[g], g)
    <3>1. \/ Typist(status[g], g)'
          \/ \E k \in DOMAIN writes : writes[k].op = "typing" /\ writes[k].group = g
      BY <2>1, <2>3 DEF KeepsTypists, Typist
    <3> QED
      BY <1>3, <3>1
  <2>4. CASE \E v \in User : \E i \in DOMAIN outbox[v] :
                 outbox[v][i].op = "typing" /\ outbox[v][i].group = g
    BY <1>2, <2>4
  <2> QED
    BY <2>2, <2>3, <2>4
<1> QED
  BY <1>6, <1>7 DEF TypingInv

(* A step that issues nothing and tells of nobody who typed.               *)
LEMMA QuietTyping ==
    ASSUME TypingInv, TypeOK', UNCHANGED <<status, outbox>>,
           \A v \in User, g \in Group : Typist(v, g) => Typist(v, g)'
    PROVE  TypingInv'
<1>1. TypeOK
  BY DEF TypingInv
<1>2. TypingOK'
  <2> SUFFICES ASSUME NEW v \in User, NEW i \in DOMAIN outbox[v],
                      outbox[v][i].op = "typing", outbox[v][i].who # NoOne
               PROVE  /\ outbox[v][i].who = v
                      /\ \/ Typist(v, outbox[v][i].group)'
                         \/ \E j \in DOMAIN outbox[v] :
                                /\ i < j
                                /\ outbox[v][j].op = "typing"
                                /\ outbox[v][j].group = outbox[v][i].group
    BY DEF TypingOK, Typist
  <2>1. outbox[v][i] \in Write
    BY <1>1 DEF TypeOK
  <2>2. PICK g \in Group : g = outbox[v][i].group
    BY <2>1 DEF Write
  <2>3. Typist(v, g)' => Typist(v, outbox[v][i].group)'
    BY <2>2 DEF Typist
  <2> QED
    BY <2>2, <2>3 DEF TypingInv, TypingOK
<1>3. StatusNamesTypist'
  <2> SUFFICES ASSUME NEW g \in Group, status[g] # NoOne
               PROVE  \/ Typist(status[g], g)'
                      \/ \E v \in User : \E w \in Pending(v)' :
                             w.op = "typing" /\ w.group = g
    BY DEF StatusNamesTypist, Typist
  <2>1. PICK u \in User : u = status[g]
    BY <1>1 DEF TypeOK
  <2>2. Typist(u, g)' => Typist(status[g], g)'
    BY <2>1 DEF Typist
  <2> QED
    BY <2>1, <2>2 DEF TypingInv, StatusNamesTypist, Pending
<1> QED
  BY <1>2, <1>3 DEF TypingInv

LEMMA CommitTyping ==
    ASSUME TypingInv, TypeOK', NEW u \in User, Commit(u)
    PROVE  TypingInv'
<1> DEFINE w == outbox[u][1]
<1>1. TypeOK
  BY DEF TypingInv
<1>2. /\ 1 \in DOMAIN outbox[u]
      /\ w \in Write
      /\ status' = IF w.op = "typing" THEN [status EXCEPT ![w.group] = w.who] ELSE status
      /\ UNCHANGED <<page, typing, deserted>>
  BY <1>1, CommitFacts DEF Commit, Apply, pageVars, pastVars
<1>3. /\ \A v \in User \ {u} : outbox'[v] = outbox[v]
      /\ \A i \in DOMAIN outbox'[u] :
             i + 1 \in DOMAIN outbox[u] /\ outbox'[u][i] = outbox[u][i + 1]
      /\ \A i \in DOMAIN outbox[u] :
             i = 1 \/ (i - 1 \in DOMAIN outbox'[u] /\ outbox[u][i] = outbox'[u][i - 1])
  BY <1>1, CommitFacts
<1>4. \A v, g : Typist(v, g)' <=> Typist(v, g)
  BY <1>2 DEF Typist
<1>5. ASSUME NEW v \in User, NEW i \in DOMAIN outbox'[v],
             outbox'[v][i].op = "typing", outbox'[v][i].who # NoOne
      PROVE  /\ outbox'[v][i].who = v
             /\ \/ Typist(v, outbox'[v][i].group)
                \/ \E j \in DOMAIN outbox'[v] :
                       /\ i < j
                       /\ outbox'[v][j].op = "typing"
                       /\ outbox'[v][j].group = outbox'[v][i].group
  <2>1. CASE v # u
    BY <1>3, <1>5, <2>1 DEF TypingInv, TypingOK
  <2>2. CASE v = u
    <3>1. i + 1 \in DOMAIN outbox[u] /\ outbox'[u][i] = outbox[u][i + 1] /\ i \in Nat
      BY <1>3, <2>2 DEF TypeOK
    <3>2. ASSUME NEW j \in DOMAIN outbox[u], i + 1 < j
          PROVE  j - 1 \in DOMAIN outbox'[u] /\ outbox'[u][j - 1] = outbox[u][j] /\ i < j - 1
      <4>1. j \in Nat /\ j # 1
        BY <1>1, <3>1, <3>2 DEF TypeOK
      <4> QED
        BY <1>3, <3>1, <3>2, <4>1
    <3>3. /\ outbox[u][i + 1].who = u
          /\ \/ Typist(u, outbox[u][i + 1].group)
             \/ \E j \in DOMAIN outbox[u] :
                    /\ i + 1 < j
                    /\ outbox[u][j].op = "typing"
                    /\ outbox[u][j].group = outbox[u][i + 1].group
      BY <1>5, <2>2, <3>1 DEF TypingInv, TypingOK
    <3> QED
      BY <2>2, <3>1, <3>2, <3>3
  <2> QED
    BY <2>1, <2>2
<1>6. TypingOK'
  BY <1>4, <1>5 DEF TypingOK, Typist
<1>7. \A v \in User : \A i \in DOMAIN outbox[v] :
          \/ v = u /\ i = 1
          \/ \E j \in DOMAIN outbox'[v] : outbox'[v][j] = outbox[v][i]
  BY <1>3
<1>8. ASSUME NEW g \in Group
      PROVE  \/ status'[g] = NoOne
             \/ Typist(status'[g], g)
             \/ \E v \in User : \E i \in DOMAIN outbox'[v] :
                    outbox'[v][i].op = "typing" /\ outbox'[v][i].group = g
  <2>1. CASE w.op = "typing" /\ w.group = g
    <3>1. status'[g] = w.who
      BY <1>1, <1>2, <2>1 DEF TypeOK
    <3>2. \/ w.who = NoOne
          \/ w.who = u /\ Typist(u, g)
          \/ \E j \in DOMAIN outbox[u] :
                 1 < j /\ outbox[u][j].op = "typing" /\ outbox[u][j].group = g
      BY <1>2, <2>1 DEF TypingInv, TypingOK
    <3> QED
      BY <1>7, <3>1, <3>2
  <2>2. CASE ~(w.op = "typing" /\ w.group = g)
    <3>1. status'[g] = status[g]
      BY <1>1, <1>2, <2>2 DEF TypeOK, Write
    <3>2. \/ status[g] = NoOne
          \/ Typist(status[g], g)
          \/ \E v \in User : \E i \in DOMAIN outbox[v] :
                 outbox[v][i].op = "typing" /\ outbox[v][i].group = g
      BY DEF TypingInv, StatusNamesTypist, Pending
    <3> QED
      BY <1>7, <2>2, <3>1, <3>2
  <2> QED
    BY <2>1, <2>2
<1>9. StatusNamesTypist'
  BY <1>2, <1>8 DEF StatusNamesTypist, Typist, Pending
<1> QED
  BY <1>6, <1>9 DEF TypingInv

LEMMA CreateTyping ==
    ASSUME TypingInv, TypeOK', NEW u \in User, NEW g \in Group, NEW m \in Message,
           Create(u, g, m)
    PROVE  TypingInv'
<1>1. TypeOK
  BY DEF TypingInv
<1>2. PICK id \in [Members[g] -> CardId], writes \in Seq(Write) :
          Issue(u, writes) /\ Creation(g, m, id, writes)
  BY <1>1, CreateFacts
<1>3. \A k \in DOMAIN writes : writes[k].op # "typing"
  BY <1>2, MessageWriteFacts DEF Creation, AddWrite
<1>4. page[u] = Home /\ page' = [page EXCEPT ![u] = g]
  BY Zenon DEF Create
<1>5. UNCHANGED <<docVars, typing, pastVars>>
  BY Zenon DEF Create
<1>6. u \notin typing
  BY <1>1, <1>4 DEF TypeOK
<1>7. KeepsTypists(u, writes)
  BY <1>1, <1>4, <1>5, <1>6 DEF KeepsTypists, Typist, pastVars, TypeOK
<1> QED
  BY <1>2, <1>3, <1>5, <1>7, IssueTyping DEF docVars

LEMMA SendTyping ==
    ASSUME TypingInv, TypeOK', NEW u \in User, NEW m \in Message, Send(u, m)
    PROVE  TypingInv'
<1> DEFINE writes == TypingEnds(u) \o <<MessageWrite(m)>>
<1>1. TypeOK /\ page[u] \in Group
  BY DEF TypingInv, TypeOK, Send
<1>2. Issue(u, writes)
  BY DEF Send
<1>3. MessageWrite(m) \in Write /\ TypingEnds(u) \in Seq(Write)
  BY <1>1, TypingWriteFacts DEF MessageWrite, Write, Send
<1>4. writes \in Seq(Write)
  BY <1>3
<1>5. UNCHANGED <<status, page, deserted>> /\ typing' = typing \ {u}
  BY DEF Send, docVars
<1>6. \A k \in DOMAIN writes :
          \/ k \in DOMAIN TypingEnds(u) /\ writes[k] = TypingEnds(u)[k]
          \/ writes[k] = MessageWrite(m)
  BY <1>3
<1>7. \A k \in DOMAIN TypingEnds(u) : TypingEnds(u)[k] = TypingWrite(page[u], NoOne)
  BY DEF TypingEnds
<1>8. \A k \in DOMAIN writes : writes[k].op = "typing" => writes[k].who = NoOne
  <2> HIDE DEF writes
  <2> QED
    BY <1>6, <1>7, MessageWriteFacts DEF TypingWrite
<1>9. u \in typing => \E k \in DOMAIN writes : writes[k] = TypingWrite(page[u], NoOne)
  <2> SUFFICES ASSUME u \in typing
               PROVE  1 \in DOMAIN writes /\ writes[1] = TypingWrite(page[u], NoOne)
    OBVIOUS
  <2>1. TypingEnds(u) = <<TypingWrite(page[u], NoOne)>>
    BY DEF TypingEnds
  <2> QED
    BY <2>1
<1> HIDE DEF writes
<1>10. KeepsTypists(u, writes)
  BY <1>5, <1>9 DEF KeepsTypists, Typist, TypingWrite
<1> QED
  BY <1>2, <1>4, <1>5, <1>8, <1>10, IssueTyping

(* Every step keeps account of who types.                                  *)
LEMMA StepTyping == TypingInv /\ [Next]_vars => TypingInv'
<1> SUFFICES ASSUME TypingInv, [Next]_vars
             PROVE  TypingInv'
  OBVIOUS
<1>0. TypeOK /\ TypeOK'
  BY StepType DEF TypingInv
<1> USE <1>0 DEF docVars, pageVars, queryVars, pastVars
<1>1. ASSUME NEW u \in User, NEW g \in Group, NEW m \in Message, Create(u, g, m)
      PROVE  TypingInv'
  BY <1>1, CreateTyping
<1>2. ASSUME NEW u \in User, NEW m \in Message, Send(u, m)
      PROVE  TypingInv'
  BY <1>2, SendTyping
<1>3. ASSUME NEW u \in User, Commit(u)
      PROVE  TypingInv'
  BY <1>3, CommitTyping
<1>4. ASSUME NEW u \in User, Type(u)
      PROVE  TypingInv'
  <2>1. PICK writes : writes = <<TypingWrite(page[u], u)>>
    OBVIOUS
  <2>2. PICK g \in Group : g = page[u]
    BY <1>4 DEF Type, TypeOK
  <2>3. writes \in Seq(Write)
    BY <1>4, <2>1, TypingWriteFacts DEF Type
  <2>4. /\ 1 \in DOMAIN writes
        /\ \A k \in DOMAIN writes :
               writes[k].op = "typing" /\ writes[k].group = g /\ writes[k].who = u
    BY <2>1, <2>2 DEF TypingWrite
  <2>5. /\ Issue(u, writes)
        /\ typing' = typing \cup {u} /\ deserted' = deserted \ {<<u, g>>}
        /\ UNCHANGED <<status, page>>
    BY <1>4, <2>1, <2>2 DEF Type
  <2>6. KeepsTypists(u, writes)
    BY <2>4, <2>5 DEF KeepsTypists, Typist
  <2>7. \A k \in DOMAIN writes : Typist(u, writes[k].group)'
    BY <2>2, <2>4, <2>5 DEF Typist
  <2> QED
    BY <2>3, <2>4, <2>5, <2>6, <2>7, IssueTyping
<1>5. ASSUME NEW u \in User, Clear(u)
      PROVE  TypingInv'
  <2> DEFINE writes == <<TypingWrite(page[u], NoOne)>>
  <2>1. page[u] # Home /\ TypingEnds(u) = writes
    BY <1>5 DEF Clear, TypingEnds, TypeOK
  <2>2. writes \in Seq(Write)
    BY <2>1, TypingWriteFacts
  <2>3. /\ 1 \in DOMAIN writes
        /\ \A k \in DOMAIN writes :
               writes[k].op = "typing" /\ writes[k].group = page[u] /\ writes[k].who = NoOne
    BY DEF TypingWrite
  <2>4. /\ Issue(u, writes)
        /\ typing' = typing \ {u}
        /\ UNCHANGED <<status, page, deserted>>
    BY <1>5, <2>1 DEF Clear
  <2> HIDE DEF writes
  <2>5. KeepsTypists(u, writes)
    BY <2>3, <2>4 DEF KeepsTypists, Typist
  <2> QED
    BY <2>2, <2>3, <2>4, <2>5, IssueTyping
<1>6. ASSUME NEW u \in User, Back(u)
      PROVE  TypingInv'
  <2> DEFINE writes == WrittenOnBack(u)
  <2>1. writes \in Seq(Write) /\ page[u] \in Group
    BY <1>6, TypingWriteFacts DEF Back
  <2>2. /\ 1 \in DOMAIN writes
        /\ \A k \in DOMAIN writes :
               writes[k].op = "typing" /\ writes[k].group = page[u] /\ writes[k].who = NoOne
    BY DEF WrittenOnBack, TypingWrite
  <2>3. /\ Issue(u, writes)
        /\ typing' = typing \ {u} /\ deserted' = deserted \ {<<u, page[u]>>}
        /\ page' = [page EXCEPT ![u] = Home]
        /\ UNCHANGED status
    BY <1>6 DEF Back
  <2> HIDE DEF writes
  <2>4. KeepsTypists(u, writes)
    BY <2>1, <2>2, <2>3 DEF KeepsTypists, Typist, TypeOK
  <2> QED
    BY <2>1, <2>2, <2>3, <2>4, IssueTyping
<1>7. ASSUME UNCHANGED <<status, page, typing, deserted>>,
             NEW u \in User, NEW w \in Write, w.op # "typing", Issue(u, <<w>>)
      PROVE  TypingInv'
  <2>1. <<w>> \in Seq(Write) /\ \A k \in DOMAIN <<w>> : <<w>>[k] = w
    OBVIOUS
  <2>2. KeepsTypists(u, <<w>>)
    BY <1>7 DEF KeepsTypists, Typist
  <2> QED
    BY <1>7, <2>1, <2>2, IssueTyping
<1>8. ASSUME UNCHANGED <<status, outbox>>,
             \A v \in User, g \in Group : Typist(v, g) => Typist(v, g)'
      PROVE  TypingInv'
  BY <1>8, QuietTyping
<1>9. ASSUME NEW u \in User, NEW m \in Message, Delete(u, m)
      PROVE  TypingInv'
  <2>1. DeleteWrite(m) \in Write /\ DeleteWrite(m).op # "typing"
    BY DEF DeleteWrite, Write
  <2> QED
    BY <1>7, <1>9, <2>1 DEF Delete
<1>10. ASSUME NEW q \in asked, FindCard(q)
       PROVE  TypingInv'
  <2>1. q \in Ask
    BY DEF TypeOK
  <2>2. UNCHANGED <<status, page, typing, deserted>>
    BY <1>10 DEF FindCard
  <2>3. CASE UNCHANGED outbox
    BY <1>8, <2>2, <2>3 DEF Typist
  <2>4. ASSUME NEW d \in Found(q),
               Issue(q.by, <<[op |-> "tell", to |-> q.to, id |-> d.id,
                              group |-> q.group, msg |-> q.msg]>>)
        PROVE  TypingInv'
    <3> DEFINE w == [op |-> "tell", to |-> q.to, id |-> d.id,
                     group |-> q.group, msg |-> q.msg]
    <3>1. d.id \in CardId
      BY <2>1, SeenTyped DEF Ask, Found, First, Card
    <3>2. w \in Write /\ w.op # "typing"
      BY <2>1, <3>1 DEF Ask, Write
    <3> QED
      BY <1>7, <2>1, <2>2, <2>4, <3>2 DEF Ask
  <2> QED
    BY <1>10, <2>3, <2>4 DEF FindCard
<1>11. ASSUME NEW q \in mending, FindAnyCard(q)
       PROVE  TypingInv'
  <2>1. q \in Mend
    BY DEF TypeOK
  <2>2. UNCHANGED <<status, page, typing, deserted>>
    BY <1>11 DEF FindAnyCard
  <2>3. PICK d \in First(CardsSeen(q.by, q.to)) :
            Issue(q.by, <<[op |-> "mend", to |-> q.to, id |-> d.id, msg |-> q.msg]>>)
    BY Zenon, <1>11 DEF FindAnyCard
  <2> DEFINE w == [op |-> "mend", to |-> q.to, id |-> d.id, msg |-> q.msg]
  <2>4. w \in Write /\ w.op # "typing"
    BY <2>1, SeenTyped DEF First, Card, Mend, Write
  <2> QED
    BY <1>7, <2>1, <2>2, <2>3, <2>4 DEF Mend
<1>12. ASSUME NEW u \in User, NEW g \in Group, FindLast(u, g)
       PROVE  TypingInv'
  BY <1>8, <1>12 DEF FindLast, Typist
<1>13. ASSUME NEW u \in User, NEW g \in Group, Open(u, g)
       PROVE  TypingInv'
  <2>1. \A v \in User, h \in Group : Typist(v, h) => Typist(v, h)'
    BY <1>13 DEF Open, Typist, TypeOK
  <2> QED
    BY <1>8, <1>13, <2>1 DEF Open
<1>14. ASSUME NEW u \in User, Leave(u)
       PROVE  TypingInv'
  <2>1. \A v \in User, h \in Group : Typist(v, h) => Typist(v, h)'
    BY <1>14 DEF Leave, Typist, Deserters, TypeOK
  <2> QED
    BY <1>8, <1>14, <2>1 DEF Leave
<1>15. ASSUME NEW u \in User, Kill(u)
       PROVE  TypingInv'
  <2>1. \A v \in User, h \in Group : Typist(v, h) => Typist(v, h)'
    BY <1>15 DEF Kill, Typist, Deserters, TypeOK
  <2> QED
    BY <1>8, <1>15, <2>1 DEF Kill
<1>16. CASE UNCHANGED vars
  BY <1>8, <1>16 DEF vars, Typist
<1> QED
  BY <1>1, <1>2, <1>3, <1>4, <1>5, <1>6, <1>9, <1>10, <1>11, <1>12, <1>13,
     <1>14, <1>15, <1>16
     DEF Next, UserStep

(* The typing status of a group names, once no other is on its way, a user *)
(* who types there or left without onBackPress (the arrow, a kill).        *)
THEOREM GroupStatusNamesTypist == Spec => []StatusNamesTypist
<1>1. Init => TypingInv
  BY InitType DEF Init, TypingInv, TypingOK, StatusNamesTypist
<1>2. TypingInv => StatusNamesTypist
  BY DEF TypingInv
<1> QED
  BY <1>1, <1>2, StepTyping, PTL DEF Spec
=============================================================================
