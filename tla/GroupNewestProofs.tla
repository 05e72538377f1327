-------------------------- MODULE GroupNewestProofs --------------------------
(***************************************************************************)
(* NewestInv is inductive: for all users, groups, messages and cards, the  *)
(* card of every member announces the newest message once a group whose    *)
(* sends did not meet has settled.                                         *)
(***************************************************************************)
EXTENDS GroupProofs

(* Outboxes grow at their end.                                             *)
Fresh(v, i, w) == i \in DOMAIN outbox'[v] \ DOMAIN outbox[v] /\ w = outbox'[v][i]

Extended ==
    \A v \in User :
        /\ \A i \in DOMAIN outbox[v] :
               i \in DOMAIN outbox'[v] /\ outbox'[v][i] = outbox[v][i]
        /\ \A i \in DOMAIN outbox'[v] \ DOMAIN outbox[v] :
               \A j \in DOMAIN outbox[v] : j < i

LEMMA OutboxIndices ==
    ASSUME TypeOK, NEW v \in User
    PROVE  /\ DOMAIN outbox[v] = 1 .. Len(outbox[v])
           /\ Len(outbox[v]) \in Nat
           /\ \A i \in DOMAIN outbox[v] : outbox[v][i] \in Write
<1>1. outbox[v] \in Seq(Write)
  BY DEF TypeOK
<1> QED
  BY <1>1

LEMMA NextIndices ==
    ASSUME TypeOK', NEW v \in User
    PROVE  DOMAIN outbox'[v] \subseteq Nat \ {0}
<1>1. outbox'[v] \in Seq(Write)
  BY DEF TypeOK
<1> QED
  BY <1>1

LEMMA IssueExtends ==
    ASSUME TypeOK, NEW u \in User, NEW writes \in Seq(Write), Issue(u, writes)
    PROVE  /\ Extended
           /\ \A v \in User : \A i, w : Fresh(v, i, w) =>
                  v = u /\ \E k \in DOMAIN writes : w = writes[k]
           /\ \A k \in DOMAIN writes : \E i : Fresh(u, i, writes[k])
<1>1. \A v \in User : DOMAIN outbox[v] = 1 .. Len(outbox[v]) /\ Len(outbox[v]) \in Nat
  BY OutboxIndices
<1>2. DOMAIN writes \subseteq Nat \ {0}
  OBVIOUS
<1>3. ASSUME NEW v \in User, NEW i, NEW w, Fresh(v, i, w)
      PROVE  v = u /\ \E k \in DOMAIN writes : i = Len(outbox[u]) + k /\ w = writes[k]
  BY <1>3, IssueFacts DEF Fresh
<1>4. Extended
  <2>1. ASSUME NEW v \in User, NEW i \in DOMAIN outbox'[v] \ DOMAIN outbox[v],
               NEW j \in DOMAIN outbox[v]
        PROVE  j < i
    BY <1>1, <1>2, <1>3, <2>1 DEF Fresh
  <2> QED
    BY <2>1, IssueFacts DEF Extended
<1>5. ASSUME NEW k \in DOMAIN writes
      PROVE  \E i : Fresh(u, i, writes[k])
  <2>1. Len(outbox[u]) + k \notin DOMAIN outbox[u]
    BY <1>1, <1>2
  <2> QED
    BY <2>1, IssueFacts DEF Fresh
<1> QED
  BY <1>3, <1>4, <1>5

LEMMA OneExtends ==
    ASSUME TypeOK, NEW u \in User, NEW w \in Write, Issue(u, <<w>>)
    PROVE  /\ Extended
           /\ \A v \in User : \A i, x : Fresh(v, i, x) => v = u /\ x = w
           /\ \E i : Fresh(u, i, w)
<1> DEFINE writes == <<w>>
<1>1. writes \in Seq(Write) /\ DOMAIN writes = {1} /\ writes[1] = w
  OBVIOUS
<1>2. Issue(u, writes)
  OBVIOUS
<1> HIDE DEF writes
<1> QED
  BY <1>1, <1>2, IssueExtends

LEMMA StillExtends ==
    ASSUME UNCHANGED outbox
    PROVE  Extended /\ \A v \in User : \A i, w : ~Fresh(v, i, w)
BY DEF Extended, Fresh

(* Cards issued, and seen, stay so while outboxes grow.                    *)
LEMMA ExtendedCards ==
    ASSUME Extended, UNCHANGED cards, NEW v \in User
    PROVE  /\ IssuedTo(v) \subseteq IssuedTo(v)'
           /\ \A x \in User : CardsSeen(x, v) \subseteq CardsSeen(x, v)'
           /\ \A d \in IssuedTo(v)' :
                  \/ d \in IssuedTo(v)
                  \/ \E x \in User : \E i, w :
                         /\ Fresh(x, i, w) /\ w.op = "add" /\ w.to = v /\ w.card = d
<1>1. \A d : d \in IssuedTo(v)' <=>
          \/ d \in cards'[v]
          \/ \E x \in User : \E i \in DOMAIN outbox'[x] :
                 /\ outbox'[x][i].op = "add"
                 /\ outbox'[x][i].to = v
                 /\ outbox'[x][i].card = d
  BY DEF IssuedTo, Pending
<1>2. IssuedTo(v) \subseteq IssuedTo(v)'
  BY <1>1, IssuedFacts DEF Extended
<1>3. ASSUME NEW x \in User, NEW d \in CardsSeen(x, v)
      PROVE  d \in CardsSeen(x, v)'
  <2>1. CASE d \in cards[v]
    BY <2>1 DEF CardsSeen
  <2>2. ASSUME NEW i \in DOMAIN outbox[x], outbox[x][i].op = "add",
               outbox[x][i].to = v, outbox[x][i].card = d
        PROVE  d \in CardsSeen(x, v)'
    BY <2>2 DEF CardsSeen, Pending, Extended
  <2> QED
    BY <2>1, <2>2 DEF CardsSeen, Pending
<1>4. ASSUME NEW d \in IssuedTo(v)', d \notin IssuedTo(v)
      PROVE  \E x \in User : \E i, w :
                 /\ Fresh(x, i, w) /\ w.op = "add" /\ w.to = v /\ w.card = d
  BY <1>1, <1>4, IssuedFacts DEF Extended, Fresh
<1> QED
  BY <1>2, <1>3, <1>4

LEMMA CardBeforeStays ==
    ASSUME Extended, UNCHANGED cards, NEW u \in User, NEW i \in DOMAIN outbox[u],
           NEW v, NEW id, NEW g, CardBefore(u, i, v, id, g)
    PROVE  CardBefore(u, i, v, id, g)'
BY DEF CardBefore, Extended

(* The sender of a group's message is a user.                              *)
LEMMA SenderIsUser ==
    ASSUME TypeOK, NEW n \in Message, letter[n].group \in Group
    PROVE  Sent(n) /\ letter[n].by \in User
BY SentLetter, GroupIsSent DEF Letter

-----------------------------------------------------------------------------
(* A step that sends nothing and commits nothing.                          *)

\* What it issues for cards: texts that were asked for, and mends.
FreshOK ==
    \A x \in User : \A i, w : Fresh(x, i, w) =>
        /\ w.op # "add"
        /\ TextOK(x, i, w)'
        /\ w.op = "tell" =>
               [by |-> x, to |-> w.to, group |-> w.group, msg |-> w.msg] \in asked

\* A query ends with its answer.
Answered(q) ==
    \E i, w : /\ Fresh(q.by, i, w) /\ w.op = "tell"
              /\ w.to = q.to /\ w.group = q.group /\ w.msg = q.msg

LEMMA ExtendedOneCard ==
    ASSUME OneCardOK, Extended, UNCHANGED cards,
           \A x \in User : \A i, w : Fresh(x, i, w) => w.op # "add",
           \A g \in Group : Created(g)' <=> Created(g)
    PROVE  OneCardOK'
<1>1. ASSUME NEW v \in User
      PROVE  IssuedTo(v)' = IssuedTo(v)
  <2>1. /\ IssuedTo(v) \subseteq IssuedTo(v)'
        /\ \A d \in IssuedTo(v)' : d \in IssuedTo(v)
    BY ExtendedCards
  <2> QED
    BY <2>1
<1>3. \A g \in Group : Members[g] \subseteq User
  BY GroupAssumption
<1> QED
  BY <1>1, <1>3 DEF OneCardOK

LEMMA ExtendedTexts ==
    ASSUME TypeOK, TextsOK, Extended, UNCHANGED cards, torn \subseteq torn',
           \A x \in User : \A i, w : Fresh(x, i, w) => TextOK(x, i, w)'
    PROVE  TextsOK'
<1>1. ASSUME NEW u \in User, NEW i \in DOMAIN outbox'[u], NEW w, w = outbox'[u][i]
      PROVE  TextOK(u, i, w)'
  <2>1. CASE i \in DOMAIN outbox[u]
    <3>1. w = outbox[u][i] /\ w \in Write
      BY <1>1, <2>1, OutboxIndices DEF Extended
    <3>2. TextOK(u, i, w)
      BY <2>1, <3>1 DEF TextsOK
    <3>3. CASE w.op = "tell"
      <4>1. CardBefore(u, i, w.to, w.id, w.group)
        BY <3>2, <3>3 DEF TextOK
      <4>2. CardBefore(u, i, w.to, w.id, w.group)'
        BY <2>1, <4>1, CardBeforeStays
      <4> QED
        BY <3>3, <4>2 DEF TextOK
    <3>4. CASE w.op = "mend"
      <4>1. w.to \in User
        BY <3>1, <3>4 DEF Write
      <4>2. IssuedTo(w.to) \subseteq IssuedTo(w.to)'
        BY <4>1, ExtendedCards
      <4> QED
        BY <3>2, <3>4, <4>2 DEF TextOK
    <3>5. CASE w.op \notin {"tell", "mend"}
      BY <3>5 DEF TextOK
    <3> QED
      BY <3>3, <3>4, <3>5
  <2>2. CASE i \notin DOMAIN outbox[u]
    BY <1>1, <2>2 DEF Fresh
  <2> QED
    BY <2>1, <2>2
<1> QED
  BY <1>1 DEF TextsOK

LEMMA ExtendedAsks ==
    ASSUME TypeOK, AsksOK, Extended, UNCHANGED cards, asked' \subseteq asked, torn \subseteq torn'
    PROVE  AsksOK'
<1> SUFFICES ASSUME NEW q \in asked', q.group \notin torn'
             PROVE  \E d \in CardsSeen(q.by, q.to)' : d.group = q.group
  BY DEF AsksOK
<1>1. q.by \in User /\ q.to \in User
  BY DEF TypeOK, Ask
<1>2. CardsSeen(q.by, q.to) \subseteq CardsSeen(q.by, q.to)'
  BY <1>1, ExtendedCards
<1> QED
  BY <1>2 DEF AsksOK

\* What is issued from the i-th write on is n, and so is what is fresh.
LEMMA LastWritesStay ==
    ASSUME TypeOK, Extended, NEW u \in User, NEW i, NEW v, NEW g, NEW n,
           LastWrites(u, i, v, g, n),
           \A j, w : Fresh(u, j, w) /\ Writes(w, v, g) => Text(w) = n
    PROVE  LastWrites(u, i, v, g, n)'
BY DEF LastWrites, Extended, Fresh

LEMMA ExtendedReach ==
    ASSUME TypeOK, TypeOK', Extended, UNCHANGED cards,
           NEW n \in Message, NEW g \in Group, letter[n].group = g, letter'[n] = letter[n],
           NEW v, Reaches(n, v, g),
           \A q \in asked : q.group = g => q \in asked' \/ Answered(q),
           \A j, w : Fresh(letter[n].by, j, w) /\ Writes(w, v, g) => Text(w) = n
    PROVE  Reaches(n, v, g)'
<1>1. PICK u \in User : u = letter[n].by /\ u = letter'[n].by
  BY SenderIsUser
<1> DEFINE q == [by |-> u, to |-> v, group |-> g, msg |-> n]
<1>2. ASSUME NEW i, NEW w, Fresh(u, i, w), Writes(w, v, g)
      PROVE  Reaches(n, v, g)'
  <2>1. i \in Nat /\ DOMAIN outbox[u] \subseteq Nat
    BY <1>1, <1>2, NextIndices, OutboxIndices DEF Fresh
  <2>2. \A j \in DOMAIN outbox[u] : ~(j >= i)
    BY <1>2, <2>1 DEF Fresh, Extended
  <2>3. LastWrites(u, i, v, g, n)'
    BY <1>1, <1>2, <2>2 DEF LastWrites, Fresh
  <2> QED
    BY <1>1, <1>2, <2>3 DEF Reaches, Fresh
<1>3. CASE q \in asked
  <2>1. q \in asked' \/ Answered(q)
    BY <1>1, <1>3
  <2>2. CASE Answered(q)
    <3>1. PICK i, w : Fresh(u, i, w) /\ w.op = "tell" /\ w.to = v /\ w.group = g
      BY <2>2 DEF Answered
    <3> QED
      BY <1>2, <3>1 DEF Writes
  <2> QED
    BY <1>1, <2>1, <2>2 DEF Reaches
<1>4. ASSUME NEW i \in DOMAIN outbox[u], Writes(outbox[u][i], v, g),
             LastWrites(u, i, v, g, n)
      PROVE  Reaches(n, v, g)'
  <2>1. LastWrites(u, i, v, g, n)'
    BY <1>1, <1>4, LastWritesStay
  <2> QED
    BY <1>1, <1>4, <2>1 DEF Reaches, Extended
<1>5. CASE (\E d \in cards[v] : d.group = g /\ d.last = n) /\ LastWrites(u, 1, v, g, n)
  <2>1. LastWrites(u, 1, v, g, n)'
    BY <1>1, <1>5, LastWritesStay
  <2> QED
    BY <1>1, <1>5, <2>1 DEF Reaches
<1> QED
  BY <1>1, <1>3, <1>4, <1>5 DEF Reaches

LEMMA ExtendedLatest ==
    ASSUME TypeOK, TypeOK', LatestOK, Extended, FreshOK, UNCHANGED <<letter, sent, cards>>,
           torn \subseteq torn', asked' \subseteq asked,
           \A q \in asked : q \in asked' \/ Answered(q) \/ q.group \in torn'
    PROVE  LatestOK'
<1> SUFFICES ASSUME NEW g \in Group \ torn', Created(g)'
             PROVE  \E n \in Message : /\ LastOf(n, g)' /\ OneSender(n, g)'
                                       /\ \A v \in Members[g] : Reaches(n, v, g)'
  BY DEF LatestOK
<1>1. Created(g) /\ g \in Group \ torn
  BY DEF Created
<1>2. PICK n \in Message : /\ LastOf(n, g) /\ OneSender(n, g)
                           /\ \A v \in Members[g] : Reaches(n, v, g)
  BY <1>1 DEF LatestOK
<1>3. LastOf(n, g)'
  BY <1>2 DEF LastOf
<1>4. letter[n].group = g
  BY <1>2 DEF LastOf
<1>5. ASSUME NEW x \in User, NEW i, NEW w, Fresh(x, i, w), NEW v, Writes(w, v, g)
      PROVE  x = letter[n].by /\ Text(w) = n
  <2>1. w.op = "tell" /\ w.group = g
    BY <1>5 DEF FreshOK, Writes
  <2>2. [by |-> x, to |-> w.to, group |-> g, msg |-> w.msg] \in asked
    BY <1>5, <2>1 DEF FreshOK
  <2>3. w.msg = n /\ x = letter[n].by
    BY <1>2, <2>2 DEF OneSender
  <2> QED
    BY <2>1, <2>3 DEF Text
<1>6. OneSender(n, g)'
  <2>1. ASSUME NEW u \in User, NEW w \in Pending(u)', NEW v \in User, Writes(w, v, g)
        PROVE  u = letter[n].by
    <3>1. PICK i \in DOMAIN outbox'[u] : w = outbox'[u][i]
      BY DEF Pending
    <3>2. CASE i \in DOMAIN outbox[u]
      BY <1>2, <2>1, <3>1, <3>2 DEF OneSender, Extended, Pending
    <3>3. CASE i \notin DOMAIN outbox[u]
      BY <1>5, <2>1, <3>1, <3>3 DEF Fresh
    <3> QED
      BY <3>2, <3>3
  <2> QED
    BY <1>2, <2>1 DEF OneSender
<1>7. ASSUME NEW v \in Members[g]
      PROVE  Reaches(n, v, g)'
  <2>1. letter[n].by \in User
    BY <1>4, SenderIsUser
  <2>2. Reaches(n, v, g)
    BY <1>2
  <2>3. \A q \in asked : q.group = g => q \in asked' \/ Answered(q)
    OBVIOUS
  <2>4. UNCHANGED cards /\ letter'[n] = letter[n]
    OBVIOUS
  <2> QED
    BY <1>4, <1>5, <2>1, <2>2, <2>3, <2>4, ExtendedReach
<1> QED
  BY <1>3, <1>6, <1>7

LEMMA ExtendedInv ==
    ASSUME NewestInv, CardInv', PagesOK', Extended, FreshOK,
           UNCHANGED <<letter, sent, cards>>, torn \subseteq torn', asked' \subseteq asked,
           \A q \in asked : q \in asked' \/ Answered(q) \/ q.group \in torn'
    PROVE  NewestInv'
<1>1. TypeOK /\ TypeOK' /\ UNCHANGED cards
  BY DEF NewestInv, CardInv
<1>2. SentOK'
  BY DEF NewestInv, SentOK, Sent
<1>3. OneCardOK'
  <2>1. \A g \in Group : Created(g)' <=> Created(g)
    BY DEF Created
  <2>2. \A x \in User : \A i, w : Fresh(x, i, w) => w.op # "add"
    BY DEF FreshOK
  <2> QED
    BY <1>1, <2>1, <2>2, ExtendedOneCard DEF NewestInv
<1>4. TextsOK'
  <2>1. \A x \in User : \A i, w : Fresh(x, i, w) => TextOK(x, i, w)'
    BY DEF FreshOK
  <2> QED
    BY <1>1, <2>1, ExtendedTexts DEF NewestInv
<1>5. AsksOK' /\ LatestOK'
  BY <1>1, ExtendedAsks, ExtendedLatest DEF NewestInv
<1> QED
  BY <1>2, <1>3, <1>4, <1>5 DEF NewestInv

LEMMA PagesStay ==
    ASSUME TypeOK, PagesOK, UNCHANGED letter,
           \A u \in User : \/ page'[u] \in {Home, page[u]}
                           \/ page'[u] \in Group /\ Created(page'[u])
    PROVE  PagesOK'
<1>1. \A g : Created(g)' <=> Created(g)
  BY DEF Created
<1> QED
  BY <1>1 DEF PagesOK, Created

(* Typing and deleting: nothing is written to a card.                      *)
LEMMA WordlessNewest ==
    ASSUME NewestInv, CardInv', PagesOK', UNCHANGED <<letter, sent, cards, asked>>,
           torn \subseteq torn',
           NEW u \in User, NEW writes \in Seq(Write), Issue(u, writes),
           \A k \in DOMAIN writes : writes[k].op \in {"typing", "delete"}
    PROVE  NewestInv'
<1>1. TypeOK
  BY DEF NewestInv, CardInv
<1>2. /\ Extended
      /\ \A v \in User : \A i, w : Fresh(v, i, w) => w.op \in {"typing", "delete"}
  BY <1>1, IssueExtends
<1>3. FreshOK
  BY <1>2 DEF FreshOK, TextOK
<1> QED
  BY <1>2, <1>3, ExtendedInv

LEMMA QuietNewest ==
    ASSUME NewestInv, CardInv', PagesOK', UNCHANGED <<letter, sent, cards, outbox>>,
           torn \subseteq torn', asked' \subseteq asked,
           \A q \in asked : q \in asked' \/ q.group \in torn'
    PROVE  NewestInv'
<1>1. Extended /\ FreshOK
  BY StillExtends DEF FreshOK
<1> QED
  BY <1>1, ExtendedInv

LEMMA FindCardNewest ==
    ASSUME NewestInv, CardInv', NEW q \in asked, FindCard(q)
    PROVE  NewestInv'
<1>1. /\ TypeOK /\ OneCardOK /\ AsksOK
      /\ UNCHANGED <<letter, sent, cards, page, torn>>
  BY DEF NewestInv, CardInv, FindCard, docVars, pageVars, pastVars
<1>2. asked' = asked \ {q}
  BY DEF FindCard
<1>3. PagesOK'
  BY <1>1, PagesStay DEF NewestInv
<1>4. q \in Ask /\ q.by \in User /\ q.to \in User /\ q.group \in Group
  BY <1>1 DEF TypeOK, Ask
<1>5. CASE Found(q) = {} /\ UNCHANGED outbox
  <2>1. ASSUME q.group \notin torn
        PROVE  FALSE
    <3>1. PICK d \in CardsSeen(q.by, q.to) : d.group = q.group
      BY <1>1, <2>1 DEF AsksOK
    <3>2. \A e \in CardsSeen(q.by, q.to) : e.group = q.group => e.id = d.id
      BY <1>1, <1>4, <3>1, SeenIsIssued DEF OneCardOK
    <3>3. d.id \in Nat
      BY <1>1, <1>4, <3>1, SeenTyped, GroupAssumption DEF Card
    <3>4. d \in Found(q)
      BY <3>1, <3>2, <3>3 DEF Found, First
    <3> QED
      BY <1>5, <3>4
  <2>2. UNCHANGED <<letter, sent, cards, outbox>> /\ torn \subseteq torn'
    BY <1>1, <1>5
  <2>3. asked' \subseteq asked /\ \A x \in asked : x \in asked' \/ x.group \in torn'
    BY <1>1, <1>2, <2>1
  <2> QED
    BY <1>3, <2>2, <2>3, QuietNewest
<1>6. ASSUME NEW d \in Found(q),
             Issue(q.by, <<[op |-> "tell", to |-> q.to, id |-> d.id,
                            group |-> q.group, msg |-> q.msg]>>)
      PROVE  NewestInv'
  <2> DEFINE w == [op |-> "tell", to |-> q.to, id |-> d.id,
                   group |-> q.group, msg |-> q.msg]
  <2>1. d \in CardsSeen(q.by, q.to) /\ d.group = q.group /\ d.id \in CardId
    BY <1>1, <1>4, SeenTyped DEF Found, First, Card
  <2>2. w \in Write
    BY <1>4, <2>1 DEF Ask, Write
  <2>3. /\ w.op = "tell" /\ w.to = q.to /\ w.id = d.id /\ w.group = q.group
        /\ w.msg = q.msg
    OBVIOUS
  <2>4. Issue(q.by, <<w>>)
    BY <1>6
  <2> HIDE DEF w
  <2>6. /\ Extended
        /\ \A v \in User : \A i, x : Fresh(v, i, x) => v = q.by /\ x = w
        /\ \E i : Fresh(q.by, i, w)
    BY <1>1, <1>4, <2>2, <2>4, OneExtends
  <2>7. ASSUME NEW i, Fresh(q.by, i, w)
        PROVE  CardBefore(q.by, i, w.to, w.id, w.group)'
    <3>1. CASE d \in cards[q.to]
      BY <1>1, <2>1, <2>3, <3>1 DEF CardBefore
    <3>2. ASSUME NEW j \in DOMAIN outbox[q.by], outbox[q.by][j].op = "add",
                 outbox[q.by][j].to = q.to, outbox[q.by][j].card = d
          PROVE  CardBefore(q.by, i, w.to, w.id, w.group)'
      <4>1. j \in DOMAIN outbox'[q.by] /\ outbox'[q.by][j] = outbox[q.by][j] /\ j < i
        BY <1>4, <2>6, <2>7, <3>2 DEF Extended, Fresh
      <4> QED
        BY <2>1, <2>3, <3>2, <4>1 DEF CardBefore
    <3> QED
      BY <2>1, <3>1, <3>2 DEF CardsSeen, Pending
  <2>8. FreshOK
    <3>1. [by |-> q.by, to |-> w.to, group |-> w.group, msg |-> w.msg] = q
      BY <1>4, <2>3 DEF Ask
    <3>2. ASSUME NEW i, Fresh(q.by, i, w)
          PROVE  TextOK(q.by, i, w)'
      BY <2>3, <2>7, <3>2 DEF TextOK
    <3> QED
      BY <2>3, <2>6, <3>1, <3>2 DEF FreshOK
  <2>9. Answered(q)
    BY <2>3, <2>6 DEF Answered
  <2> QED
    BY <1>1, <1>2, <1>3, <2>6, <2>8, <2>9, ExtendedInv
<1> QED
  BY <1>5, <1>6 DEF FindCard

LEMMA FindAnyCardNewest ==
    ASSUME NewestInv, CardInv', NEW q \in mending, FindAnyCard(q)
    PROVE  NewestInv'
<1>1. /\ TypeOK
      /\ UNCHANGED <<letter, sent, cards, asked, page>>
  BY DEF NewestInv, CardInv, FindAnyCard, docVars, pageVars
<1>2. PICK d \in First(CardsSeen(q.by, q.to)) :
          /\ Issue(q.by, <<[op |-> "mend", to |-> q.to, id |-> d.id, msg |-> q.msg]>>)
          /\ torn' = torn \cup ({d.group} \cap Group)
  BY Zenon DEF FindAnyCard
<1>3. PagesOK'
  BY <1>1, PagesStay DEF NewestInv
<1>4. q \in Mend /\ q.by \in User /\ q.to \in User
  BY <1>1 DEF TypeOK, Mend
<1> DEFINE w == [op |-> "mend", to |-> q.to, id |-> d.id, msg |-> q.msg]
<1>5. d \in CardsSeen(q.by, q.to) /\ d.id \in CardId
  BY <1>1, <1>4, SeenTyped DEF First, Card
<1>6. w \in Write
  BY <1>4, <1>5 DEF Mend, Write
<1>7. w.op = "mend" /\ w.to = q.to /\ w.id = d.id
  OBVIOUS
<1>8. Issue(q.by, <<w>>)
  BY <1>2
<1> HIDE DEF w
<1>10. /\ Extended
       /\ \A v \in User : \A i, x : Fresh(v, i, x) => x = w
  BY <1>1, <1>4, <1>6, <1>8, OneExtends
<1>11. d \in IssuedTo(w.to)'
  BY <1>1, <1>4, <1>5, <1>7, <1>10, SeenIsIssued, ExtendedCards
<1>12. d.group \in Group => d.group \in torn'
  BY <1>2
<1>13. \A x \in User : \A i : TextOK(x, i, w)'
  BY <1>7, <1>11, <1>12 DEF TextOK
<1>14. FreshOK
  BY <1>7, <1>10, <1>13 DEF FreshOK
<1>15. UNCHANGED <<letter, sent, cards>> /\ asked' = asked /\ torn \subseteq torn'
  BY <1>1, <1>2
<1> QED
  BY <1>3, <1>10, <1>14, <1>15, ExtendedInv

-----------------------------------------------------------------------------
(* Sending.                                                                *)

LEMMA SentGrows ==
    ASSUME TypeOK, NEW m \in Message, sent' = Append(sent, m)
    PROVE  /\ DOMAIN sent = 1 .. Len(sent) /\ Len(sent) \in Nat
           /\ DOMAIN sent' = 1 .. Len(sent) + 1
           /\ \A i \in DOMAIN sent : sent'[i] = sent[i] /\ sent[i] \in Message
           /\ sent'[Len(sent) + 1] = m
<1>1. sent \in Seq(Message)
  BY DEF TypeOK
<1> QED
  BY <1>1

(* A message sent is the last of its group; the last of others stays so.   *)
LEMMA ComposeNewest ==
    ASSUME TypeOK, SentOK, NEW u \in User, NEW m \in Message, NEW g \in Group,
           Compose(u, m, g)
    PROVE  /\ SentOK'
           /\ LastOf(m, g)'
           /\ letter'[m].by = u
           /\ \A n \in Message : Sent(n) => letter'[n] = letter[n]
           /\ \A h \in Group \ {g} : \A n \in Message : LastOf(n, h) => LastOf(n, h)'
           /\ \A h \in Group : Created(h)' <=> Created(h) \/ h = g
<1>1. /\ ~Sent(m)
      /\ letter' = [letter EXCEPT ![m] = [by |-> u, group |-> g]]
      /\ sent' = Append(sent, m)
  BY DEF Compose
<1>2. /\ letter'[m] = [by |-> u, group |-> g]
      /\ \A n \in Message \ {m} : letter'[n] = letter[n]
  BY <1>1 DEF TypeOK
<1>3. Sent(m)' /\ \A n \in Message \ {m} : Sent(n)' <=> Sent(n)
  BY <1>2, ComposeFacts DEF Sent
<1> DEFINE l == Len(sent)
<1>4. /\ DOMAIN sent = 1 .. l /\ l \in Nat
      /\ DOMAIN sent' = 1 .. l + 1
      /\ \A i \in DOMAIN sent : sent'[i] = sent[i] /\ sent[i] \in Message
      /\ sent'[l + 1] = m
  BY <1>1, SentGrows
<1>5. \A i \in DOMAIN sent : Sent(sent[i]) /\ sent[i] # m
  BY <1>1 DEF SentOK
<1> HIDE DEF l
<1>6. \A i \in DOMAIN sent' : i \in DOMAIN sent \/ i = l + 1
  BY <1>4
<1>7. SentOK'
  <2>1. \A i, j \in DOMAIN sent' : sent'[i] = sent'[j] => i = j
    BY <1>4, <1>5, <1>6 DEF SentOK
  <2>2. ASSUME NEW i \in DOMAIN sent'
        PROVE  Sent(sent[i])'
    <3>1. CASE i \in DOMAIN sent
      BY <1>2, <1>4, <1>5, <3>1 DEF Sent
    <3>2. CASE i = l + 1
      BY <1>3, <1>4, <3>2 DEF Sent
    <3> QED
      BY <1>6, <3>1, <3>2
  <2>3. ASSUME NEW n \in Message, Sent(n)'
        PROVE  \E i \in DOMAIN sent' : sent'[i] = n
    <3>1. CASE n = m
      BY <1>4, <3>1
    <3>2. CASE n # m
      <4>1. PICK i \in DOMAIN sent : sent[i] = n
        BY <1>3, <2>3, <3>2 DEF SentOK
      <4> QED
        BY <1>4, <4>1
    <3> QED
      BY <3>1, <3>2
  <2> QED
    BY <2>1, <2>2, <2>3 DEF SentOK
<1>8. LastOf(m, g)'
  BY <1>2, <1>4 DEF LastOf
<1>9. ASSUME NEW h \in Group \ {g}, NEW n \in Message, LastOf(n, h)
      PROVE  LastOf(n, h)'
  <2>1. Sent(n) /\ n # m /\ letter[n].group = h
    BY <1>1, <1>9, SenderIsUser DEF LastOf
  <2>2. PICK i \in DOMAIN sent :
            sent[i] = n /\ \A j \in DOMAIN sent : letter[sent[j]].group = h => j <= i
    BY <1>9 DEF LastOf
  <2>3. i \in DOMAIN sent' /\ sent'[i] = n
    BY <1>4, <2>2
  <2>4. ASSUME NEW j \in DOMAIN sent', letter'[sent'[j]].group = h
        PROVE  j <= i
    <3>1. j # l + 1
      BY <1>2, <1>4, <2>4
    <3>2. j \in DOMAIN sent /\ letter[sent[j]].group = h
      BY <1>2, <1>4, <1>5, <1>6, <2>4, <3>1
    <3> QED
      BY <2>2, <3>2
  <2> QED
    BY <1>2, <2>1, <2>3, <2>4 DEF LastOf
<1>10. ASSUME NEW h \in Group
       PROVE  Created(h)' <=> Created(h) \/ h = g
  <2>1. letter[m].group # h
    BY <1>1, SenderIsUser
  <2> QED
    BY <1>2, <2>1 DEF Created
<1>11. \A n \in Message : Sent(n) => letter'[n] = letter[n]
  BY <1>1, <1>2
<1> QED
  BY <1>2, <1>7, <1>8, <1>9, <1>10, <1>11

(* Of a group that is not sent to, nothing changes.                        *)
LEMMA OtherLatest ==
    ASSUME TypeOK, TypeOK', Extended, UNCHANGED cards, NEW h \in Group,
           NEW n \in Message, LastOf(n, h), OneSender(n, h), letter'[n] = letter[n],
           \A v \in Members[h] : Reaches(n, v, h),
           \A q \in asked' \cup asked : q.group = h => q \in asked' /\ q \in asked,
           \A x \in User : \A i, w : Fresh(x, i, w) => \A v : ~Writes(w, v, h)
    PROVE  OneSender(n, h)' /\ \A v \in Members[h] : Reaches(n, v, h)'
<1>1. letter[n].group = h
  BY DEF LastOf
<1>2. letter[n].by \in User
  BY <1>1, SenderIsUser
<1>3. ASSUME NEW v \in Members[h]
      PROVE  Reaches(n, v, h)'
  <2>1. Reaches(n, v, h)
    OBVIOUS
  <2>2. \A q \in asked : q.group = h => q \in asked' \/ Answered(q)
    OBVIOUS
  <2>3. \A j, w : Fresh(letter[n].by, j, w) /\ Writes(w, v, h) => Text(w) = n
    BY <1>2
  <2> QED
    BY <1>1, <2>1, <2>2, <2>3, ExtendedReach
<1>4. OneSender(n, h)'
  <2>1. ASSUME NEW u \in User, NEW w \in Pending(u)', NEW v \in User, Writes(w, v, h)
        PROVE  u = letter[n].by
    <3>1. PICK i \in DOMAIN outbox'[u] : w = outbox'[u][i]
      BY DEF Pending
    <3>2. CASE i \in DOMAIN outbox[u]
      BY <2>1, <3>1, <3>2 DEF OneSender, Extended, Pending
    <3>3. CASE i \notin DOMAIN outbox[u]
      BY <2>1, <3>1, <3>3 DEF Fresh
    <3> QED
      BY <3>2, <3>3
  <2> QED
    BY <2>1 DEF OneSender
<1> QED
  BY <1>3, <1>4

LEMMA SendNewest ==
    ASSUME NewestInv, CardInv', NEW u \in User, NEW m \in Message, Send(u, m)
    PROVE  NewestInv'
<1> DEFINE writes == TypingEnds(u) \o <<MessageWrite(m)>>
<1>0. PICK g \in Group : g = page[u]
  BY DEF NewestInv, CardInv, TypeOK, Send
<1>1. /\ TypeOK /\ TypeOK' /\ SentOK /\ OneCardOK /\ PagesOK /\ AsksOK /\ LatestOK
      /\ Created(g)
  BY <1>0 DEF NewestInv, CardInv, Send, PagesOK
<1>2. Compose(u, m, g) /\ Issue(u, writes) /\ UNCHANGED <<cards, page>>
  BY <1>0 DEF Send, docVars
<1>3. /\ asked' = asked \cup {[by |-> u, to |-> v, group |-> g, msg |-> m] : v \in Members[g]}
      /\ torn' = IF Unsettled(g, u) THEN torn \cup {g} ELSE torn
  BY <1>0 DEF Send, Told
<1>4. /\ writes \in Seq(Write)
      /\ \A k \in DOMAIN writes : writes[k].op \in {"typing", "message"}
  <2>1. TypingEnds(u) \in Seq(Write) /\ \A k \in DOMAIN TypingEnds(u) : TypingEnds(u)[k].op = "typing"
    BY <1>1, TypingWriteFacts, TypingOps DEF Send
  <2>2. MessageWrite(m) \in Write /\ MessageWrite(m).op = "message"
    BY DEF MessageWrite, Write
  <2> DEFINE s == TypingEnds(u)
             w == MessageWrite(m)
  <2> HIDE DEF s, w
  <2>3. s \in Seq(Write) /\ w \in Write /\ w.op = "message"
        /\ \A k \in DOMAIN s : s[k].op = "typing"
    BY <2>1, <2>2 DEF s, w
  <2>4. /\ s \o <<w>> \in Seq(Write)
        /\ \A k \in DOMAIN (s \o <<w>>) : (s \o <<w>>)[k].op \in {"typing", "message"}
    BY <2>3
  <2> QED
    BY <2>4 DEF s, w
<1> HIDE DEF writes
<1>5. /\ Extended
      /\ \A v \in User : \A i, w : Fresh(v, i, w) =>
             v = u /\ w.op \in {"typing", "message"}
  BY <1>1, <1>2, <1>4, IssueExtends
<1>6. /\ SentOK' /\ LastOf(m, g)' /\ letter'[m].by = u
      /\ \A n \in Message : Sent(n) => letter'[n] = letter[n]
      /\ \A h \in Group \ {g} : \A n \in Message : LastOf(n, h) => LastOf(n, h)'
      /\ \A h \in Group : Created(h)' <=> Created(h)
  BY <1>1, <1>2, ComposeNewest
<1>7. UNCHANGED cards /\ torn \subseteq torn'
  BY <1>2, <1>3
<1>8. OneCardOK'
  <2>1. \A x \in User : \A i, w : Fresh(x, i, w) => w.op # "add"
    BY <1>5
  <2> QED
    BY <1>1, <1>5, <1>6, <1>7, <2>1, ExtendedOneCard
<1>9. TextsOK'
  <2>1. \A x \in User : \A i, w : Fresh(x, i, w) => TextOK(x, i, w)'
    BY <1>5 DEF TextOK
  <2> QED
    BY <1>1, <1>5, <1>7, <2>1, ExtendedTexts DEF NewestInv
<1>10. PagesOK'
  <2>1. ASSUME NEW v \in User, page[v] # Home
        PROVE  Created(page[v])'
    BY <1>1, <1>2, <1>6, <2>1 DEF PagesOK, TypeOK, Created
  <2> QED
    BY <1>2, <2>1 DEF PagesOK, Created
<1>11. ASSUME g \notin torn'
       PROVE  /\ \A q \in asked : q.group # g
              /\ \A x \in User \ {u} : \A w \in Pending(x) : \A v : ~Writes(w, v, g)
  BY <1>3, <1>11 DEF Unsettled, Writes
<1>12. AsksOK'
  <2>1. ASSUME NEW q \in asked, q.group \notin torn'
        PROVE  \E d \in CardsSeen(q.by, q.to)' : d.group = q.group
    <3>1. q.by \in User /\ q.to \in User
      BY <1>1 DEF TypeOK, Ask
    <3>2. CardsSeen(q.by, q.to) \subseteq CardsSeen(q.by, q.to)'
      BY <1>5, <1>7, <3>1, ExtendedCards
    <3> QED
      BY <1>1, <1>7, <2>1, <3>2 DEF AsksOK
  <2>2. ASSUME NEW v \in Members[g], g \notin torn'
        PROVE  \E d \in CardsSeen(u, v)' : d.group = g
    <3>1. v \in User
      BY <1>1, GroupAssumption
    <3>2. PICK d \in IssuedTo(v) : d.group = g
      BY <1>1 DEF OneCardOK
    <3>3. d \in CardsSeen(u, v)
      <4>1. ASSUME NEW x \in User, NEW i \in DOMAIN outbox[x], outbox[x][i].op = "add",
                   outbox[x][i].to = v, outbox[x][i].card = d
            PROVE  d \in CardsSeen(u, v)
        <5>1. Writes(outbox[x][i], v, g) /\ outbox[x][i] \in Pending(x)
          BY <3>2, <4>1 DEF Writes, Pending
        <5>2. x = u
          BY <1>11, <2>2, <5>1
        <5> QED
          BY <4>1, <5>2 DEF CardsSeen, Pending
      <4> QED
        BY <3>1, <4>1, IssuedFacts DEF CardsSeen
    <3> QED
      BY <1>5, <1>7, <3>1, <3>2, <3>3, ExtendedCards
  <2>3. \A q \in asked' : q \in asked \/ \E v \in Members[g] :
            q.by = u /\ q.to = v /\ q.group = g
    BY <1>3
  <2> QED
    BY <2>1, <2>2, <2>3 DEF AsksOK
<1>13. ASSUME g \notin torn'
       PROVE  OneSender(m, g)' /\ \A v \in Members[g] : Reaches(m, v, g)'
  <2>1. \A q \in asked' : q.group = g => q.msg = m /\ q.by = u
    BY <1>3, <1>11, <1>13
  <2>2. ASSUME NEW x \in User, NEW w \in Pending(x)', NEW v \in User, Writes(w, v, g)
        PROVE  x = u
    <3>1. PICK i \in DOMAIN outbox'[x] : w = outbox'[x][i]
      BY DEF Pending
    <3>2. CASE i \in DOMAIN outbox[x]
      BY <1>5, <1>11, <1>13, <2>2, <3>1, <3>2 DEF Extended, Pending
    <3>3. CASE i \notin DOMAIN outbox[x]
      BY <1>5, <3>1, <3>3 DEF Fresh
    <3> QED
      BY <3>2, <3>3
  <2>3. OneSender(m, g)'
    BY <1>6, <2>1, <2>2 DEF OneSender
  <2>4. \A v \in Members[g] : Reaches(m, v, g)'
    BY <1>3, <1>6 DEF Reaches
  <2> QED
    BY <2>3, <2>4
<1>14. LatestOK'
  <2> SUFFICES ASSUME NEW h \in Group \ torn', Created(h)'
               PROVE  \E n \in Message : /\ LastOf(n, h)' /\ OneSender(n, h)'
                                         /\ \A v \in Members[h] : Reaches(n, v, h)'
    BY DEF LatestOK
  <2>1. CASE h = g
    BY <1>6, <1>13, <2>1
  <2>2. CASE h # g
    <3>1. Created(h) /\ h \notin torn
      BY <1>6, <1>7
    <3>2. PICK n \in Message : /\ LastOf(n, h) /\ OneSender(n, h)
                               /\ \A v \in Members[h] : Reaches(n, v, h)
      BY <1>1, <3>1 DEF LatestOK
    <3>3. letter'[n] = letter[n]
      BY <1>1, <1>6, <3>2, SenderIsUser DEF LastOf
    <3>4. \A q \in asked' \cup asked : q.group = h => q \in asked' /\ q \in asked
      BY <1>3, <2>2
    <3>5. \A x \in User : \A i, w : Fresh(x, i, w) => \A v : ~Writes(w, v, h)
      BY <1>5 DEF Writes
    <3>6. OneSender(n, h)' /\ \A v \in Members[h] : Reaches(n, v, h)'
      BY <1>1, <1>5, <1>7, <3>2, <3>3, <3>4, <3>5, OtherLatest
    <3> QED
      BY <1>6, <2>2, <3>2, <3>6
  <2> QED
    BY <2>1, <2>2
<1> QED
  BY <1>6, <1>8, <1>9, <1>10, <1>12, <1>14 DEF NewestInv

(* What of the cards of a group is on its way follows its creation.        *)
LEMMA NothingBefore ==
    ASSUME CardInv, NEW g \in Group, ~Created(g)
    PROVE  /\ \A q \in asked : q.group # g
           /\ \A x \in User : \A i \in DOMAIN outbox[x] : \A v : ~Writes(outbox[x][i], v, g)
<1>1. TypeOK
  BY DEF CardInv
<1>2. ASSUME NEW q \in asked
      PROVE  q.group # g
  <2>1. q.msg \in Message /\ letter[q.msg].group = q.group
    BY <1>1 DEF CardInv, QueriesOK, TypeOK, Ask
  <2> QED
    BY <2>1 DEF Created
<1>3. ASSUME NEW x \in User, NEW i \in DOMAIN outbox[x], NEW v, Writes(outbox[x][i], v, g)
      PROVE  FALSE
  <2>1. WriteOK(x, i) /\ outbox[x][i] \in Write
    BY <1>1, OutboxIndices DEF CardInv, WritesOK
  <2>2. CASE outbox[x][i].op = "tell"
    <3>1. outbox[x][i].msg \in Message /\ letter[outbox[x][i].msg].group = g
      BY <1>3, <2>1, <2>2 DEF WriteOK, Writes, Write
    <3> QED
      BY <3>1 DEF Created
  <2>3. CASE outbox[x][i].op = "add"
    <3>1. /\ StoredBefore(x, i, outbox[x][i].card.last)
          /\ letter[outbox[x][i].card.last].group = g
      BY <1>3, <2>1, <2>3 DEF WriteOK, Writes
    <3>2. outbox[x][i].card.last \in Message
      BY <1>1, <3>1, StoredIsSent DEF CardInv, StoredBefore
    <3> QED
      BY <3>1, <3>2 DEF Created
  <2> QED
    BY <1>3, <2>2, <2>3 DEF Writes
<1> QED
  BY <1>2, <1>3

LEMMA CreateNewest ==
    ASSUME NewestInv, CardInv', NEW u \in User, NEW g \in Group, NEW m \in Message,
           Create(u, g, m)
    PROVE  NewestInv'
<1>1. /\ TypeOK /\ TypeOK' /\ SentOK /\ OneCardOK /\ PagesOK /\ AsksOK /\ LatestOK
      /\ CardInv
  BY DEF NewestInv, CardInv
<1>2. PICK id \in [Members[g] -> CardId], writes \in Seq(Write) :
          Issue(u, writes) /\ Creation(g, m, id, writes)
  BY <1>1, CreateFacts
<1>3. /\ Compose(u, m, g) /\ ~Created(g)
      /\ UNCHANGED <<docVars, queryVars, pastVars>>
      /\ page' = [page EXCEPT ![u] = g]
  BY Zenon DEF Create
<1>4. UNCHANGED <<cards, asked, torn>>
  BY <1>3 DEF docVars, queryVars, pastVars
<1> DEFINE card(v) == [id |-> id[v], group |-> g, last |-> m]
<1>5. /\ \A k \in DOMAIN writes :
            writes[k].op = "message"
            \/ \E v \in Members[g] : /\ writes[k].op = "add" /\ writes[k].to = v
                                     /\ writes[k].card = card(v)
      /\ \A v \in Members[g] : \E k \in DOMAIN writes :
            writes[k].op = "add" /\ writes[k].to = v /\ writes[k].card = card(v)
  <2>1. /\ \A k \in DOMAIN writes \ {1} : \E v \in Members[g] : writes[k] = AddWrite(v, card(v))
        /\ \A v \in Members[g] : \E k \in DOMAIN writes \ {1} : writes[k] = AddWrite(v, card(v))
        /\ writes[1] = MessageWrite(m)
    BY <1>2 DEF Creation
  <2> HIDE DEF card
  <2>2. /\ \A v : /\ AddWrite(v, card(v)).op = "add" /\ AddWrite(v, card(v)).to = v
                  /\ AddWrite(v, card(v)).card = card(v)
        /\ MessageWrite(m).op = "message"
    BY DEF AddWrite, MessageWrite
  <2> QED
    BY <2>1, <2>2
<1>6. \A v : card(v).id = id[v] /\ card(v).group = g /\ card(v).last = m
  OBVIOUS
<1> HIDE DEF card
<1>7. /\ Extended
      /\ \A x \in User : \A i, w : Fresh(x, i, w) =>
             x = u /\ \E k \in DOMAIN writes : w = writes[k]
      /\ \A k \in DOMAIN writes : \E i : Fresh(u, i, writes[k])
  BY <1>1, <1>2, IssueExtends
<1>8. \A x \in User : \A i, w : Fresh(x, i, w) =>
          x = u /\ (w.op = "message" \/ (w.op = "add" /\ w.to \in Members[g] /\ w.card = card(w.to)))
  BY <1>5, <1>7
<1>9. \A v \in Members[g] : \E i, w :
          Fresh(u, i, w) /\ w.op = "add" /\ w.to = v /\ w.card = card(v)
  BY <1>5, <1>7
<1>10. /\ SentOK' /\ LastOf(m, g)' /\ letter'[m].by = u
       /\ \A n \in Message : Sent(n) => letter'[n] = letter[n]
       /\ \A h \in Group \ {g} : \A n \in Message : LastOf(n, h) => LastOf(n, h)'
       /\ \A h \in Group : Created(h)' <=> Created(h) \/ h = g
  BY <1>1, <1>3, ComposeNewest
<1>11. UNCHANGED cards /\ torn \subseteq torn' /\ asked' \subseteq asked
  BY <1>4
<1>12. ASSUME NEW v \in User
       PROVE  /\ IssuedTo(v) \subseteq IssuedTo(v)'
              /\ \A d \in IssuedTo(v)' : d \in IssuedTo(v) \/ (v \in Members[g] /\ d = card(v))
              /\ v \in Members[g] => card(v) \in IssuedTo(v)'
  <2>1. /\ IssuedTo(v) \subseteq IssuedTo(v)'
        /\ \A d \in IssuedTo(v)' : d \in IssuedTo(v) \/ (v \in Members[g] /\ d = card(v))
    BY <1>7, <1>8, <1>11, ExtendedCards
  <2>2. ASSUME v \in Members[g]
        PROVE  card(v) \in IssuedTo(v)'
    <3>1. PICK i, w : Fresh(u, i, w) /\ w.op = "add" /\ w.to = v /\ w.card = card(v)
      BY <1>9, <2>2
    <3>2. w \in Pending(u)' /\ w.op = "add" /\ w.to = v /\ w.card = card(v)
      BY <3>1 DEF Pending, Fresh
    <3> QED
      BY <3>2 DEF IssuedTo
  <2> QED
    BY <2>1, <2>2
<1>13. OneCardOK'
  <2>1. ASSUME NEW v \in User, NEW d \in IssuedTo(v)', d.group \in Group
        PROVE  Created(d.group)'
    BY <1>1, <1>6, <1>10, <1>12, <2>1 DEF OneCardOK
  <2>2. ASSUME NEW v \in User, NEW d \in IssuedTo(v)', NEW e \in IssuedTo(v)',
               d.group = e.group, d.group \in Group
        PROVE  d.id = e.id
    <3>1. \A x \in IssuedTo(v) : x.group # g
      BY <1>1, <1>3 DEF OneCardOK
    <3> QED
      BY <1>1, <1>6, <1>12, <2>2, <3>1 DEF OneCardOK
  <2>3. ASSUME NEW h \in Group, Created(h)', NEW v \in Members[h]
        PROVE  \E d \in IssuedTo(v)' : d.group = h
    <3>1. v \in User
      BY GroupAssumption
    <3>2. CASE h = g
      BY <1>6, <1>12, <3>1, <3>2
    <3>3. CASE h # g
      BY <1>1, <1>10, <1>12, <2>3, <3>1, <3>3 DEF OneCardOK
    <3> QED
      BY <3>2, <3>3
  <2> QED
    BY <2>1, <2>2, <2>3 DEF OneCardOK
<1>14. TextsOK'
  <2>1. \A x \in User : \A i, w : Fresh(x, i, w) => TextOK(x, i, w)'
    BY <1>8 DEF TextOK
  <2> QED
    BY <1>1, <1>7, <1>11, <2>1, ExtendedTexts DEF NewestInv
<1>15. PagesOK'
  <2>1. ASSUME NEW v \in User, NEW h, h = page'[v], h # Home
        PROVE  Created(h)'
    <3>1. h \in Group
      BY <1>1, <2>1 DEF TypeOK
    <3>2. Created(h) \/ h = g
      BY <1>1, <1>3, <2>1 DEF PagesOK, TypeOK
    <3> QED
      BY <1>10, <3>1, <3>2
  <2> QED
    BY <2>1 DEF PagesOK, Created
<1>16. AsksOK'
  BY <1>1, <1>7, <1>11, ExtendedAsks
<1>17. OneSender(m, g)' /\ \A v \in Members[g] : Reaches(m, v, g)'
  <2>1. /\ \A q \in asked' : q.group # g
        /\ \A x \in User : \A i \in DOMAIN outbox[x] : \A v : ~Writes(outbox[x][i], v, g)
    BY <1>1, <1>3, <1>4, NothingBefore
  <2>2. ASSUME NEW x \in User, NEW i \in DOMAIN outbox'[x], NEW v,
               Writes(outbox'[x][i], v, g)
        PROVE  x = u /\ Text(outbox'[x][i]) = m
    <3>1. i \notin DOMAIN outbox[x]
      BY <1>7, <2>1, <2>2 DEF Extended
    <3>2. PICK w : Fresh(x, i, w)
      BY <3>1 DEF Fresh
    <3>3. w = outbox'[x][i]
      BY <3>2 DEF Fresh
    <3>4. w.op = "add" /\ w.card = card(w.to) /\ x = u
      BY <1>8, <2>2, <3>2, <3>3 DEF Writes
    <3> QED
      BY <1>6, <3>3, <3>4 DEF Text
  <2>3. OneSender(m, g)'
    BY <1>10, <2>1, <2>2 DEF OneSender, Pending
  <2>4. ASSUME NEW v \in Members[g]
        PROVE  Reaches(m, v, g)'
    <3>1. PICK i, w : Fresh(u, i, w) /\ w.op = "add" /\ w.to = v /\ w.card = card(v)
      BY <1>9
    <3>2. i \in DOMAIN outbox'[u] /\ outbox'[u][i] = w /\ Writes(w, v, g)
      BY <1>6, <3>1 DEF Fresh, Writes
    <3>3. LastWrites(u, i, v, g, m)'
      BY <2>2 DEF LastWrites
    <3> QED
      BY <1>10, <3>2, <3>3 DEF Reaches
  <2> QED
    BY <2>3, <2>4
<1>18. LatestOK'
  <2> SUFFICES ASSUME NEW h \in Group \ torn', Created(h)'
               PROVE  \E n \in Message : /\ LastOf(n, h)' /\ OneSender(n, h)'
                                         /\ \A v \in Members[h] : Reaches(n, v, h)'
    BY DEF LatestOK
  <2>1. CASE h = g
    BY <1>10, <1>17, <2>1
  <2>2. CASE h # g
    <3>1. Created(h) /\ h \notin torn
      BY <1>10, <1>11, <2>2
    <3>2. PICK n \in Message : /\ LastOf(n, h) /\ OneSender(n, h)
                               /\ \A v \in Members[h] : Reaches(n, v, h)
      BY <1>1, <3>1 DEF LatestOK
    <3>3. letter'[n] = letter[n]
      BY <1>1, <1>10, <3>2, SenderIsUser DEF LastOf
    <3>4. \A q \in asked' \cup asked : q.group = h => q \in asked' /\ q \in asked
      BY <1>4
    <3>5. \A x \in User : \A i, w : Fresh(x, i, w) => \A v : ~Writes(w, v, h)
      BY <1>6, <1>8, <2>2 DEF Writes
    <3>6. OneSender(n, h)' /\ \A v \in Members[h] : Reaches(n, v, h)'
      BY <1>1, <1>7, <1>11, <3>2, <3>3, <3>4, <3>5, OtherLatest
    <3> QED
      BY <1>10, <2>2, <3>2, <3>6
  <2> QED
    BY <2>1, <2>2
<1> QED
  BY <1>10, <1>13, <1>14, <1>15, <1>16, <1>18 DEF NewestInv

-----------------------------------------------------------------------------
(* Committing.                                                             *)

(* What becomes of a card.                                                 *)
LEMMA AppliedCard ==
    ASSUME TypeOK, NEW w \in Write, Apply(w), NEW v \in User, NEW d \in cards[v]
    PROVE  \E e \in cards'[v] :
               /\ e.id = d.id /\ e.group = d.group
               /\ IF w.op \in {"tell", "mend"} /\ w.to = v /\ d.id = w.id
                  THEN e.last = w.msg ELSE e.last = d.last
<1>0. cards \in [User -> SUBSET Card] /\ d \in Card
  BY DEF TypeOK
<1>1. CASE w.op \in {"tell", "mend"} /\ w.to = v
  <2>1. cards'[v] = Retold(cards[v], w)
    BY <1>0, <1>1 DEF Apply
  <2> DEFINE e == IF d.id = w.id THEN [d EXCEPT !.last = w.msg] ELSE d
  <2>2. e \in cards'[v]
    BY <2>1 DEF Retold
  <2>3. /\ e.id = d.id /\ e.group = d.group
        /\ e.last = IF d.id = w.id THEN w.msg ELSE d.last
    BY <1>0 DEF Card
  <2> HIDE DEF e
  <2> QED
    BY <1>1, <2>2, <2>3
<1>2. CASE ~(w.op \in {"tell", "mend"} /\ w.to = v)
  <2>1. d \in cards'[v]
    BY <1>0, <1>2 DEF Apply, Write
  <2> QED
    BY <1>2, <2>1
<1> QED
  BY <1>1, <1>2

LEMMA CommittedCard ==
    ASSUME TypeOK, NEW u \in User, Commit(u), NEW x \in User, NEW i, NEW j \in DOMAIN outbox'[x],
           IF x = u THEN j = i - 1 /\ i \in Nat ELSE j = i,
           NEW v \in User, NEW id, NEW g, CardBefore(x, i, v, id, g)
    PROVE  CardBefore(x, j, v, id, g)'
<1>1. PICK w \in Write : w = outbox[u][1] /\ Apply(w)
  BY CommitFacts DEF Commit
<1>2. /\ \A y \in User \ {u} : outbox'[y] = outbox[y]
      /\ \A k \in DOMAIN outbox[u] :
             k = 1 \/ (k - 1 \in DOMAIN outbox'[u] /\ outbox[u][k] = outbox'[u][k - 1])
  BY CommitFacts
<1>3. CASE \E d \in cards[v] : d.id = id /\ d.group = g
  BY <1>1, <1>3, ApplyFacts DEF CardBefore
<1>4. ASSUME NEW k \in DOMAIN outbox[x], k < i, outbox[x][k].op = "add",
             outbox[x][k].to = v, outbox[x][k].card.id = id, outbox[x][k].card.group = g
      PROVE  CardBefore(x, j, v, id, g)'
  <2>1. CASE x # u
    BY <1>2, <1>4, <2>1 DEF CardBefore
  <2>2. CASE x = u /\ k = 1
    <3>1. w.card \in cards'[v]
      BY <1>1, <1>4, <2>2, ApplyFacts
    <3> QED
      BY <1>1, <1>4, <2>2, <3>1 DEF CardBefore
  <2>3. CASE x = u /\ k # 1
    <3>1. k \in Nat
      BY OutboxIndices
    <3>2. k - 1 \in DOMAIN outbox'[u] /\ outbox[u][k] = outbox'[u][k - 1]
      BY <1>2, <1>4, <2>3
    <3>3. k - 1 < j
      BY <1>4, <2>3, <3>1
    <3> QED
      BY <1>4, <2>3, <3>2, <3>3 DEF CardBefore
  <2> QED
    BY <2>1, <2>2, <2>3
<1> QED
  BY <1>3, <1>4 DEF CardBefore

LEMMA CommitTexts ==
    ASSUME TypeOK, TypeOK', TextsOK, NEW u \in User, Commit(u)
    PROVE  TextsOK'
<1>0. torn' = torn
  BY DEF Commit, pastVars
<1>1. ASSUME NEW x \in User, NEW j \in DOMAIN outbox'[x], NEW i, NEW t,
             IF x = u THEN j = i - 1 /\ i \in Nat ELSE j = i,
             t \in Write, TextOK(x, i, t)
      PROVE  TextOK(x, j, t)'
  <2>1. CASE t.op = "tell"
    <3>1. t.to \in User
      BY <1>1, <2>1 DEF Write
    <3>2. CardBefore(x, i, t.to, t.id, t.group)
      BY <1>1, <2>1 DEF TextOK
    <3>3. CardBefore(x, j, t.to, t.id, t.group)'
      BY <1>1, <3>1, <3>2, CommittedCard
    <3> QED
      BY <2>1, <3>3 DEF TextOK
  <2>2. CASE t.op = "mend"
    <3>1. t.to \in User
      BY <1>1, <2>2 DEF Write
    <3>2. PICK d \in IssuedTo(t.to) : d.id = t.id /\ (d.group \in Group => d.group \in torn)
      BY <1>1, <2>2 DEF TextOK
    <3>3. PICK e \in IssuedTo(t.to)' : e.id = d.id /\ e.group = d.group
      BY <3>1, CommitIssued
    <3> QED
      BY <1>0, <2>2, <3>2, <3>3 DEF TextOK
  <2> QED
    BY <2>1, <2>2 DEF TextOK
<1>2. ASSUME NEW x \in User, NEW j \in DOMAIN outbox'[x], NEW t, t = outbox'[x][j]
      PROVE  TextOK(x, j, t)'
  <2>1. CASE x # u
    <3>1. outbox'[x] = outbox[x]
      BY <2>1, CommitFacts
    <3>2. t \in Write /\ TextOK(x, j, t)
      BY <1>2, <3>1, OutboxIndices DEF TextsOK
    <3> QED
      BY <1>1, <2>1, <3>2
  <2>2. CASE x = u
    <3>1. j + 1 \in DOMAIN outbox[u] /\ t = outbox[u][j + 1]
      BY <1>2, <2>2, CommitFacts
    <3>2. j \in Nat
      BY NextIndices
    <3>3. t \in Write /\ TextOK(u, j + 1, t)
      BY <3>1, OutboxIndices DEF TextsOK
    <3>4. j = (j + 1) - 1 /\ j + 1 \in Nat
      BY <3>2
    <3> QED
      BY <1>1, <2>2, <3>3, <3>4
  <2> QED
    BY <2>1, <2>2
<1> QED
  BY <1>2 DEF TextsOK

LEMMA CommitAsks ==
    ASSUME TypeOK, AsksOK, NEW u \in User, Commit(u)
    PROVE  AsksOK'
<1>1. UNCHANGED <<asked, torn>>
  BY DEF Commit, queryVars, pastVars
<1>2. PICK w \in Write : w = outbox[u][1] /\ Apply(w)
  BY CommitFacts DEF Commit
<1>3. ASSUME NEW x \in User, NEW v \in User, NEW d \in CardsSeen(x, v)
      PROVE  \E e \in CardsSeen(x, v)' : e.group = d.group
  <2>1. CASE d \in cards[v]
    BY <1>2, <2>1, ApplyFacts DEF CardsSeen
  <2>2. ASSUME NEW k \in DOMAIN outbox[x], outbox[x][k].op = "add",
               outbox[x][k].to = v, outbox[x][k].card = d
        PROVE  d \in CardsSeen(x, v)'
    <3>1. CASE x = u /\ k = 1
      BY <1>2, <2>2, <3>1, ApplyFacts DEF CardsSeen
    <3>2. CASE ~(x = u /\ k = 1)
      <4>1. \E t \in Pending(x)' : t = outbox[x][k]
        BY <2>2, <3>2, CommitFacts DEF Pending
      <4> QED
        BY <2>2, <4>1 DEF CardsSeen
    <3> QED
      BY <3>1, <3>2
  <2> QED
    BY <2>1, <2>2 DEF CardsSeen, Pending
<1>4. ASSUME NEW q \in asked
      PROVE  q.by \in User /\ q.to \in User
  BY DEF TypeOK, Ask
<1> QED
  BY <1>1, <1>3, <1>4 DEF AsksOK

(* A card with n keeps it: no write but of n is on its way to it.          *)
LEMMA CommitKeepsNewest ==
    ASSUME NewestInv, NEW u \in User, Commit(u),
           NEW g \in Group \ torn, NEW n \in Message, OneSender(n, g),
           NEW s \in User, s = letter[n].by, NEW v \in User,
           LastWrites(s, 1, v, g, n),
           NEW d \in cards[v], d.group = g, d.last = n
    PROVE  \E e \in cards'[v] : e.group = g /\ e.last = n
<1>1. TypeOK /\ NamesOK /\ WritesOK /\ TextsOK
  BY DEF NewestInv, CardInv
<1>2. PICK w \in Write : w = outbox[u][1] /\ Apply(w) /\ 1 \in DOMAIN outbox[u]
  BY <1>1, CommitFacts DEF Commit
<1>3. d \in IssuedTo(v)
  BY IssuedFacts
<1>4. CASE w.op = "mend" /\ w.to = v /\ d.id = w.id
  <2>1. TextOK(u, 1, w)
    BY <1>1, <1>2 DEF TextsOK
  <2>2. PICK e \in IssuedTo(v) : e.id = w.id /\ (e.group \in Group => e.group \in torn)
    BY <1>4, <2>1 DEF TextOK
  <2>3. e.group = g
    BY <1>1, <1>3, <1>4, <2>2 DEF NamesOK
  <2> QED
    BY <2>2, <2>3
<1>5. CASE w.op = "tell" /\ w.to = v /\ d.id = w.id
  <2>1. Names(v, w.id, w.group)
    BY <1>1, <1>2, <1>5 DEF WritesOK, WriteOK
  <2>2. w.group = g
    BY <1>1, <1>3, <1>5, <2>1 DEF Names, NamesOK
  <2>3. Writes(w, v, g) /\ w \in Pending(u)
    BY <1>2, <1>5, <2>2 DEF Writes, Pending
  <2>4. u = s
    BY <2>3 DEF OneSender
  <2>5. w.msg = n
    BY <1>2, <1>5, <2>3, <2>4 DEF LastWrites, Text
  <2> QED
    BY <1>1, <1>2, <1>5, <2>5, AppliedCard
<1>6. CASE ~(w.op \in {"tell", "mend"} /\ w.to = v /\ d.id = w.id)
  BY <1>1, <1>2, <1>6, AppliedCard
<1> QED
  BY <1>4, <1>5, <1>6

LEMMA CommitReach ==
    ASSUME NewestInv, TypeOK', NEW u \in User, Commit(u),
           NEW g \in Group \ torn, NEW n \in Message, letter[n].group = g, OneSender(n, g),
           NEW v \in Members[g], Reaches(n, v, g)
    PROVE  Reaches(n, v, g)'
<1>1. TypeOK /\ TextsOK
  BY DEF NewestInv, CardInv
<1>2. UNCHANGED <<letter, asked>>
  BY DEF Commit, queryVars
<1>3. PICK s \in User : s = letter[n].by /\ s = letter'[n].by
  BY <1>1, <1>2, SenderIsUser
<1>4. PICK w \in Write : w = outbox[u][1] /\ Apply(w) /\ 1 \in DOMAIN outbox[u]
  BY <1>1, CommitFacts DEF Commit
<1>5. v \in User
  BY GroupAssumption
<1>6. \A j \in DOMAIN outbox'[u] :
          j \in Nat \ {0} /\ j + 1 \in DOMAIN outbox[u] /\ outbox'[u][j] = outbox[u][j + 1]
  BY <1>1, CommitFacts, NextIndices
<1>7. s # u => outbox'[s] = outbox[s]
  BY <1>1, CommitFacts
<1>8. CASE [by |-> s, to |-> v, group |-> g, msg |-> n] \in asked
  BY <1>2, <1>3, <1>8 DEF Reaches
<1>9. ASSUME LastWrites(s, 1, v, g, n)
      PROVE  LastWrites(s, 1, v, g, n)'
  <2>1. CASE s # u
    BY <1>7, <1>9, <2>1 DEF LastWrites
  <2>2. CASE s = u
    <3>1. ASSUME NEW j \in DOMAIN outbox'[u], Writes(outbox'[u][j], v, g)
          PROVE  Text(outbox'[u][j]) = n
      <4>1. j + 1 >= 1
        BY <1>6
      <4> QED
        BY <1>6, <1>9, <2>2, <3>1, <4>1 DEF LastWrites
    <3> QED
      BY <2>2, <3>1 DEF LastWrites
  <2> QED
    BY <2>1, <2>2
<1>10. ASSUME NEW d \in cards[v], d.group = g, d.last = n, LastWrites(s, 1, v, g, n)
       PROVE  Reaches(n, v, g)'
  <2>1. s = letter[n].by
    BY <1>3
  <2>2. \E e \in cards'[v] : e.group = g /\ e.last = n
    BY <1>5, <1>10, <2>1, CommitKeepsNewest
  <2> QED
    BY <1>3, <1>9, <1>10, <2>2 DEF Reaches
<1>11. ASSUME NEW i \in DOMAIN outbox[s], Writes(outbox[s][i], v, g),
              LastWrites(s, i, v, g, n)
       PROVE  Reaches(n, v, g)'
  <2>1. CASE s # u
    BY <1>3, <1>7, <1>11, <2>1 DEF Reaches, LastWrites
  <2>2. CASE s = u /\ i # 1
    <3>1. i \in Nat /\ i - 1 \in DOMAIN outbox'[u] /\ outbox'[u][i - 1] = outbox[u][i]
      BY <1>1, <1>11, <2>2, CommitFacts, OutboxIndices
    <3>2. ASSUME NEW j \in DOMAIN outbox'[u], j >= i - 1, Writes(outbox'[u][j], v, g)
          PROVE  Text(outbox'[u][j]) = n
      <4>1. j + 1 >= i
        BY <1>6, <3>1, <3>2
      <4> QED
        BY <1>6, <1>11, <2>2, <3>2, <4>1 DEF LastWrites
    <3>3. LastWrites(s, i - 1, v, g, n)'
      BY <2>2, <3>2 DEF LastWrites
    <3> QED
      BY <1>3, <1>11, <2>2, <3>1, <3>3 DEF Reaches
  <2>3. CASE s = u /\ i = 1
    <3>1. Writes(w, v, g) /\ Text(w) = n
      BY <1>4, <1>11, <2>3 DEF LastWrites
    <3>2. CASE w.op = "add"
      <4>1. w.card \in cards'[v] /\ w.card.group = g /\ w.card.last = n
        BY <1>1, <1>4, <1>5, <3>1, <3>2, ApplyFacts DEF Writes, Text
      <4> QED
        BY <1>3, <1>9, <1>11, <2>3, <4>1 DEF Reaches
    <3>3. CASE w.op = "tell"
      <4>1. w.to = v /\ w.group = g /\ w.msg = n
        BY <3>1, <3>3 DEF Writes, Text
      <4>2. TextOK(u, 1, w)
        BY <1>1, <1>4 DEF TextsOK
      <4>3. CardBefore(u, 1, v, w.id, g)
        BY <3>3, <4>1, <4>2 DEF TextOK
      <4>4. \A j \in DOMAIN outbox[u] : ~(j < 1)
        BY <1>1, OutboxIndices
      <4>5. PICK d \in cards[v] : d.id = w.id /\ d.group = g
        BY <4>3, <4>4 DEF CardBefore
      <4>6. \E e \in cards'[v] : e.group = g /\ e.last = n
        BY <1>1, <1>4, <1>5, <3>3, <4>1, <4>5, AppliedCard
      <4> QED
        BY <1>3, <1>9, <1>11, <2>3, <4>6 DEF Reaches
    <3> QED
      BY <3>1, <3>2, <3>3 DEF Writes
  <2> QED
    BY <2>1, <2>2, <2>3
<1> QED
  BY <1>3, <1>8, <1>10, <1>11 DEF Reaches

LEMMA CommitNewest ==
    ASSUME NewestInv, CardInv', NEW u \in User, Commit(u)
    PROVE  NewestInv'
<1>1. /\ TypeOK /\ TypeOK' /\ SentOK /\ OneCardOK /\ PagesOK /\ TextsOK /\ AsksOK
      /\ LatestOK
      /\ UNCHANGED <<letter, sent, asked, page, torn>>
  BY DEF NewestInv, CardInv, Commit, queryVars, pageVars, pastVars
<1>2. SentOK' /\ \A g : Created(g)' <=> Created(g)
  BY <1>1 DEF SentOK, Sent, Created
<1>3. PagesOK'
  BY <1>1, PagesStay
<1>4. OneCardOK'
  <2>1. \A g \in Group : Members[g] \subseteq User
    BY GroupAssumption
  <2>2. ASSUME NEW v \in User, NEW d \in IssuedTo(v)', d.group \in Group
        PROVE  Created(d.group)'
    <3>1. PICK e \in IssuedTo(v) : e.id = d.id /\ e.group = d.group
      BY <1>1, CommitIssued
    <3> QED
      BY <1>1, <1>2, <2>2, <3>1 DEF OneCardOK
  <2>3. ASSUME NEW v \in User, NEW d \in IssuedTo(v)', NEW e \in IssuedTo(v)',
               d.group = e.group, d.group \in Group
        PROVE  d.id = e.id
    <3>1. PICK x \in IssuedTo(v) : x.id = d.id /\ x.group = d.group
      BY <1>1, CommitIssued
    <3>2. PICK y \in IssuedTo(v) : y.id = e.id /\ y.group = e.group
      BY <1>1, CommitIssued
    <3> QED
      BY <1>1, <2>3, <3>1, <3>2 DEF OneCardOK
  <2>4. ASSUME NEW h \in Group, Created(h)', NEW v \in Members[h]
        PROVE  \E d \in IssuedTo(v)' : d.group = h
    <3>1. PICK d \in IssuedTo(v) : d.group = h
      BY <1>1, <1>2, <2>4 DEF OneCardOK
    <3> QED
      BY <1>1, <2>1, <3>1, CommitIssued
  <2> QED
    BY <2>2, <2>3, <2>4 DEF OneCardOK
<1>5. TextsOK' /\ AsksOK'
  BY <1>1, CommitTexts, CommitAsks
<1>6. LatestOK'
  <2> SUFFICES ASSUME NEW g \in Group \ torn', Created(g)'
               PROVE  \E n \in Message : /\ LastOf(n, g)' /\ OneSender(n, g)'
                                         /\ \A v \in Members[g] : Reaches(n, v, g)'
    BY DEF LatestOK
  <2>1. g \in Group \ torn /\ Created(g)
    BY <1>1, <1>2
  <2>2. PICK n \in Message : /\ LastOf(n, g) /\ OneSender(n, g)
                             /\ \A v \in Members[g] : Reaches(n, v, g)
    BY <1>1, <2>1 DEF LatestOK
  <2>3. LastOf(n, g)' /\ letter[n].group = g
    BY <1>1, <2>2 DEF LastOf
  <2>4. ASSUME NEW x \in User
        PROVE  Pending(x)' \subseteq Pending(x)
    <3>1. CASE x # u
      BY <1>1, <3>1, CommitFacts DEF Pending
    <3>2. CASE x = u
      BY <1>1, <3>2, CommitFacts DEF Pending
    <3> QED
      BY <3>1, <3>2
  <2>5. OneSender(n, g)'
    BY <1>1, <2>2, <2>4 DEF OneSender
  <2>6. \A v \in Members[g] : Reaches(n, v, g)'
    BY <1>1, <2>1, <2>2, <2>3, CommitReach
  <2> QED
    BY <2>3, <2>5, <2>6
<1> QED
  BY <1>2, <1>3, <1>4, <1>5, <1>6 DEF NewestInv

-----------------------------------------------------------------------------
LEMMA InitNewest == Init => NewestInv
<1> SUFFICES ASSUME Init PROVE NewestInv
  OBVIOUS
<1>1. CardInv
  BY InitCards
<1>2. \A u \in User : DOMAIN outbox[u] = {}
  BY DEF Init
<1>3. \A m \in Message : ~Sent(m) /\ letter[m].group = Private
  BY DEF Init, Sent, Unsent
<1>4. \A g \in Group : ~Created(g)
  BY <1>3, GroupAssumption DEF Created
<1>5. \A v \in User : \A d \in IssuedTo(v) : d.group = Private
  BY <1>2, IssuedFacts DEF Init
<1>6. SentOK
  <2>1. DOMAIN sent = {}
    BY DEF Init
  <2> QED
    BY <1>3, <2>1 DEF SentOK
<1>7. OneCardOK
  BY <1>4, <1>5, GroupAssumption DEF OneCardOK
<1>8. PagesOK /\ TextsOK /\ AsksOK /\ LatestOK
  BY <1>2, <1>4 DEF Init, PagesOK, TextsOK, AsksOK, LatestOK
<1> QED
  BY <1>1, <1>6, <1>7, <1>8 DEF NewestInv

LEMMA StepNewest == NewestInv /\ [Next]_vars => NewestInv'
<1> SUFFICES ASSUME NewestInv, [Next]_vars
             PROVE  NewestInv'
  OBVIOUS
<1>0. CardInv' /\ TypeOK /\ OneCardOK /\ PagesOK
  BY StepCards DEF NewestInv, CardInv
<1> USE DEF docVars, pageVars, queryVars, pastVars
<1>1. ASSUME NEW u \in User, NEW g \in Group, Open(u, g)
      PROVE  NewestInv'
  <2>1. UNCHANGED <<letter, sent, cards, outbox, asked, torn>>
    BY <1>1 DEF Open
  <2>2. Created(g)
    BY <1>0, <1>1, SeenIsIssued DEF Open, OneCardOK
  <2>3. page' = [page EXCEPT ![u] = g]
    BY <1>1 DEF Open
  <2>4. \A v \in User : page'[v] = page[v] \/ page'[v] = g
    BY <1>0, <2>3 DEF TypeOK
  <2>5. PagesOK'
    BY <1>0, <2>1, <2>2, <2>4, PagesStay
  <2> QED
    BY <1>0, <2>1, <2>5, QuietNewest
<1>2. ASSUME NEW u \in User, Type(u) \/ Clear(u) \/ Back(u)
      PROVE  NewestInv'
  <2>1. UNCHANGED <<letter, sent, cards, asked, torn>> /\ page[u] # Home
    BY <1>0, <1>2 DEF Type, Clear, Back, TypeOK
  <2>2. PagesOK'
    BY <1>0, <1>2, <2>1, PagesStay DEF Type, Clear, Back, TypeOK
  <2>3. PICK writes \in Seq(Write) :
            Issue(u, writes) /\ \A k \in DOMAIN writes : writes[k].op \in {"typing", "delete"}
    <3>1. page[u] \in Group /\ TypingWrite(page[u], u) \in Write
      BY <1>0, <2>1, TypingWriteFacts
    <3>2. CASE Type(u)
      <4> DEFINE w == TypingWrite(page[u], u)
      <4>1. w.op = "typing" /\ Issue(u, <<w>>)
        BY <3>2 DEF Type, TypingWrite
      <4> HIDE DEF w
      <4>2. <<w>> \in Seq(Write) /\ \A k \in DOMAIN <<w>> : <<w>>[k].op = "typing"
        BY <3>1, <4>1 DEF w
      <4> QED
        BY <4>1, <4>2
    <3>3. CASE Clear(u)
      BY <1>0, <2>1, <3>3, TypingWriteFacts, TypingOps DEF Clear
    <3>4. CASE Back(u)
      BY <1>0, <2>1, <3>4, TypingWriteFacts, TypingOps DEF Back
    <3> QED
      BY <1>2, <3>2, <3>3, <3>4
  <2>4. torn \subseteq torn'
    BY <2>1
  <2> QED
    BY <1>0, <2>1, <2>2, <2>3, <2>4, WordlessNewest
<1>3. ASSUME NEW u \in User, NEW m \in Message, Delete(u, m)
      PROVE  NewestInv'
  <2>1. UNCHANGED <<letter, sent, cards, asked, page>> /\ torn \subseteq torn'
    BY <1>3 DEF Delete
  <2>2. PagesOK'
    BY <1>0, <2>1, PagesStay
  <2> DEFINE w == DeleteWrite(m)
  <2>3. w \in Write /\ w.op = "delete" /\ Issue(u, <<w>>)
    BY <1>3 DEF Delete, DeleteWrite, Write
  <2> HIDE DEF w
  <2>4. <<w>> \in Seq(Write) /\ \A k \in DOMAIN <<w>> : <<w>>[k].op \in {"typing", "delete"}
    BY <2>3
  <2> QED
    BY <1>0, <2>1, <2>2, <2>3, <2>4, WordlessNewest
<1>4. ASSUME NEW u \in User, Leave(u)
      PROVE  NewestInv'
  <2>1. UNCHANGED <<letter, sent, cards, outbox, asked, torn>>
    BY <1>4 DEF Leave
  <2>2. page' = [page EXCEPT ![u] = Home]
    BY <1>4 DEF Leave
  <2>3. PagesOK'
    BY <1>0, <2>1, <2>2, PagesStay DEF TypeOK
  <2> QED
    BY <1>0, <2>1, <2>3, QuietNewest
<1>5. ASSUME NEW u \in User, Kill(u)
      PROVE  NewestInv'
  <2>1. /\ UNCHANGED <<letter, sent, cards, outbox>>
        /\ asked' = {q \in asked : q.by # u}
        /\ torn' = torn \cup {q.group : q \in {x \in asked : x.by = u}}
        /\ page' = [page EXCEPT ![u] = Home]
    BY <1>5 DEF Kill
  <2>2. PagesOK'
    BY <1>0, <2>1, PagesStay DEF TypeOK
  <2>3. \A q \in asked : q \in asked' \/ q.group \in torn'
    BY <2>1
  <2> QED
    BY <1>0, <2>1, <2>2, <2>3, QuietNewest
<1>6. ASSUME NEW u \in User, NEW g \in Group, FindLast(u, g)
      PROVE  NewestInv'
  <2>1. UNCHANGED <<letter, sent, cards, outbox, asked, page, torn>>
    BY <1>6 DEF FindLast
  <2>2. PagesOK'
    BY <1>0, <2>1, PagesStay
  <2> QED
    BY <1>0, <2>1, <2>2, QuietNewest
<1>7. CASE UNCHANGED vars
  <2>1. UNCHANGED <<letter, sent, cards, outbox, asked, page, torn>>
    BY <1>7 DEF vars
  <2>2. PagesOK'
    BY <1>0, <2>1, PagesStay
  <2> QED
    BY <1>0, <2>1, <2>2, QuietNewest
<1> QED
  BY <1>0, <1>1, <1>2, <1>3, <1>4, <1>5, <1>6, <1>7, CreateNewest, SendNewest, FindCardNewest,
     FindAnyCardNewest, CommitNewest DEF Next, UserStep

(* When the sends of a group have settled, the card of every member has    *)
(* the newest message, unless a send met another send, a kill or a         *)
(* deletion.                                                               *)
LEMMA SettledIsNewest ==
    ASSUME NewestInv
    PROVE  NewestOnEveryCard
<1>1. TypeOK /\ SentOK /\ LatestOK
  BY DEF NewestInv, CardInv
<1> SUFFICES ASSUME NEW g \in Group, Settled(g), g \notin torn, NEW v \in Members[g]
             PROVE  \E d \in cards[v] :
                        /\ d.group = g
                        /\ d.last \in Newest({m \in Message : letter[m].group = g})
  BY DEF NewestOnEveryCard
<1>2. PICK n \in Message : LastOf(n, g) /\ Reaches(n, v, g)
  BY <1>1 DEF LatestOK, Settled
<1>3. PICK u \in User : u = letter[n].by
  BY <1>1, <1>2, SenderIsUser DEF LastOf
<1>4. \A w \in Pending(u) : ~Writes(w, v, g)
  BY DEF Settled, Writes
<1>5. \A q \in asked : q.group # g
  BY DEF Settled
<1>6. PICK d \in cards[v] : d.group = g /\ d.last = n
  BY <1>2, <1>3, <1>4, <1>5 DEF Reaches, Pending
<1>7. n \in Newest({m \in Message : letter[m].group = g})
  <2>1. PICK i \in DOMAIN sent :
            sent[i] = n /\ \A j \in DOMAIN sent : letter[sent[j]].group = g => j <= i
    BY <1>2 DEF LastOf
  <2>2. ASSUME NEW m \in Message, letter[m].group = g
        PROVE  Position(m) <= Position(n)
    <3>1. PICK j \in DOMAIN sent : sent[j] = m
      BY <1>1, <2>2, SenderIsUser DEF SentOK
    <3>2. Position(m) = j
      BY <1>1, <3>1 DEF Position, SentOK
    <3>3. Position(n) = i
      BY <1>1, <2>1 DEF Position, SentOK
    <3> QED
      BY <2>1, <2>2, <3>1, <3>2, <3>3
  <2> QED
    BY <1>2, <2>2 DEF Newest, LastOf
<1> QED
  BY <1>6, <1>7

(* Once no send of a group is under way, every member's card announces its *)
(* newest message, whichever device sent it and in whatever order its      *)
(* queries were answered; saveGroupData issues each card's update after    *)
(* the message and after every earlier update of the same sender.          *)
THEOREM GroupNewestOnEveryCard == Spec => []NewestOnEveryCard
<1>1. Spec => []NewestInv
  BY InitNewest, StepNewest, PTL DEF Spec
<1>2. NewestInv => NewestOnEveryCard
  BY SettledIsNewest
<1> QED
  BY <1>1, <1>2, PTL
=============================================================================
