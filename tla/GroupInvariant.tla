--------------------------- MODULE GroupInvariant ---------------------------
(***************************************************************************)
(* The strengthenings of CardKeepsToItsGroup, StatusNamesTypist and        *)
(* NewestOnEveryCard that every step of GroupChat preserves: what each     *)
(* write in an outbox finds when it is committed after the writes before   *)
(* it.                                                                     *)
(***************************************************************************)
EXTENDS GroupChat

\* m is stored, or will be when i writes of u's device are committed.
StoredBefore(u, i, m) ==
    \/ m \in posted
    \/ \E j \in DOMAIN outbox[u] : j < i /\ outbox[u][j] = MessageWrite(m)

\* m is stored or on its way from u's device.
Known(u, m) == m \in posted \/ MessageWrite(m) \in Pending(u)

\* Auto ids are unique: cards of v with one id belong to one group.
NamesOK ==
    \A v \in User : \A d, e \in IssuedTo(v) : d.id = e.id => d.group = e.group

Names(v, id, g) == \E d \in IssuedTo(v) : d.id = id /\ d.group = g

\* The i-th write of u's device: a card's text follows its message, and comes
\* from the card's group unless a deletion restored it.
WriteOK(u, i) ==
    LET w == outbox[u][i] IN
    /\ w.op = "message" => Sent(w.msg)
    /\ w.op = "add" => /\ StoredBefore(u, i, w.card.last)
                       /\ letter[w.card.last].group = w.card.group
    /\ w.op = "tell" => /\ StoredBefore(u, i, w.msg)
                        /\ letter[w.msg].group = w.group
                        /\ Names(w.to, w.id, w.group)
    /\ w.op = "mend" => StoredBefore(u, i, w.msg) /\ w.msg \in restored

WritesOK == \A u \in User : \A i \in DOMAIN outbox[u] : WriteOK(u, i)

PostedOK == \A m \in posted : Sent(m)

QueriesOK ==
    /\ \A q \in asked : Known(q.by, q.msg) /\ letter[q.msg].group = q.group
    /\ \A q \in mending : Known(q.by, q.msg) /\ q.msg \in restored

(* Every text on a card, or on its way to one, is accounted for.           *)
CardInv ==
    /\ TypeOK
    /\ NamesOK
    /\ PostedOK
    /\ WritesOK
    /\ QueriesOK
    /\ CardKeepsToItsGroup

\* A typing status on its way is its author's, who is still typing or has
\* issued a later one for the group.
TypingOK ==
    \A u \in User : \A i \in DOMAIN outbox[u] :
        outbox[u][i].op = "typing" /\ outbox[u][i].who # NoOne
        => /\ outbox[u][i].who = u
           /\ \/ Typist(u, outbox[u][i].group)
              \/ \E j \in DOMAIN outbox[u] :
                     /\ i < j
                     /\ outbox[u][j].op = "typing"
                     /\ outbox[u][j].group = outbox[u][i].group

(* Every typing status is true or about to be replaced.                    *)
TypingInv ==
    /\ TypeOK
    /\ TypingOK
    /\ StatusNamesTypist

-----------------------------------------------------------------------------
\* The messages sent, each at one place.
SentOK ==
    /\ \A i, j \in DOMAIN sent : sent[i] = sent[j] => i = j
    /\ \A i \in DOMAIN sent : Sent(sent[i])
    /\ \A m \in Message : Sent(m) => \E i \in DOMAIN sent : sent[i] = m

\* Every member of a group, once it is created, has one card of it.
OneCardOK ==
    /\ \A v \in User : \A d \in IssuedTo(v) :
           d.group \in Group => Created(d.group)
    /\ \A v \in User : \A d, e \in IssuedTo(v) :
           d.group = e.group /\ d.group \in Group => d.id = e.id
    /\ \A g \in Group : Created(g) =>
           \A v \in Members[g] : \E d \in IssuedTo(v) : d.group = g

\* The page of a group follows its creation.
PagesOK == \A u \in User : page[u] # Home => Created(page[u])

\* The card with this id is stored, or is added by a write before the i-th.
CardBefore(u, i, v, id, g) ==
    \/ \E d \in cards[v] : d.id = id /\ d.group = g
    \/ \E j \in DOMAIN outbox[u] :
           /\ j < i /\ outbox[u][j].op = "add" /\ outbox[u][j].to = v
           /\ outbox[u][j].card.id = id /\ outbox[u][j].card.group = g

\* The text of a send meets its card; that of a deletion a card whose group
\* is torn, if it is a group's.
TextOK(u, i, w) ==
    /\ w.op = "tell" => CardBefore(u, i, w.to, w.id, w.group)
    /\ w.op = "mend" => \E d \in IssuedTo(w.to) :
                            d.id = w.id /\ (d.group \in Group => d.group \in torn)

TextsOK == \A u \in User : \A i \in DOMAIN outbox[u] : TextOK(u, i, outbox[u][i])

\* A query of a send, not torn, will find a card.
AsksOK ==
    \A q \in asked : q.group \notin torn
        => \E d \in CardsSeen(q.by, q.to) : d.group = q.group

\* n is the last message of g.
LastOf(n, g) ==
    /\ letter[n].group = g
    /\ \E i \in DOMAIN sent :
           /\ sent[i] = n
           /\ \A j \in DOMAIN sent : letter[sent[j]].group = g => j <= i

\* w writes the card of v for g, and what it writes.
Writes(w, v, g) ==
    \/ w.op = "tell" /\ w.to = v /\ w.group = g
    \/ w.op = "add" /\ w.to = v /\ w.card.group = g

Text(w) == IF w.op = "add" THEN w.card.last ELSE w.msg

\* Only the sender of n is writing cards of g, and asks for n only.
OneSender(n, g) ==
    /\ \A q \in asked : q.group = g => q.msg = n /\ q.by = letter[n].by
    /\ \A u \in User : \A w \in Pending(u) : \A v \in User :
           Writes(w, v, g) => u = letter[n].by

\* From the i-th write of u's device on, the card of v for g gets n.
LastWrites(u, i, v, g, n) ==
    \A j \in DOMAIN outbox[u] :
        j >= i /\ Writes(outbox[u][j], v, g) => Text(outbox[u][j]) = n

\* The card of v for g has n, or is about to get it.
Reaches(n, v, g) ==
    LET u == letter[n].by IN
    \/ [by |-> u, to |-> v, group |-> g, msg |-> n] \in asked
    \/ \E i \in DOMAIN outbox[u] :
           Writes(outbox[u][i], v, g) /\ LastWrites(u, i, v, g, n)
    \/ /\ \E d \in cards[v] : d.group = g /\ d.last = n
       /\ LastWrites(u, 1, v, g, n)

LatestOK ==
    \A g \in Group \ torn : Created(g) =>
        \E n \in Message :
            LastOf(n, g) /\ OneSender(n, g) /\ \A v \in Members[g] : Reaches(n, v, g)

(* The newest message of a group that is not torn is on every card, or on  *)
(* its way there with nothing behind it.                                   *)
NewestInv ==
    /\ CardInv
    /\ SentOK
    /\ OneCardOK
    /\ PagesOK
    /\ TextsOK
    /\ AsksOK
    /\ LatestOK
=============================================================================
