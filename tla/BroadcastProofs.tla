--------------------------- MODULE BroadcastProofs ---------------------------
(***************************************************************************)
(* Proofs about broadcasts, for all contacts, broadcasts, messages and     *)
(* bounds: types, then each property with its part of BroadcastInvariant.  *)
(***************************************************************************)
EXTENDS BroadcastInvariant, FiniteSetTheorems, TLAPS

(* A chat made up is a chat, and not an old one.                           *)
LEMMA ChatFacts ==
    /\ NoChat \in Chat
    /\ \A c \in Contact : OldChat(c) \in Chat /\ OldChat(c) # NoChat
    /\ \A t \in Text, i \in Nat : NewChat(t, i) \in Chat /\ NewChat(t, i) # NoChat
BY DEF Chat, NoChat, OldChat, NewChat

(* What the loop of saveMessageInLoop does to a list.                      *)
LEMMA NamedFacts ==
    ASSUME NEW t \in Text, NEW list \in Seq(Entry)
    PROVE  /\ Named(t, list) \in Seq(Entry)
           /\ DOMAIN Named(t, list) = DOMAIN list
           /\ \A i \in DOMAIN list :
                  /\ Named(t, list)[i].who = list[i].who
                  /\ Named(t, list)[i].chat = ChatUsed(t, list, i)
                  /\ Named(t, list)[i].chat # NoChat
                  /\ list[i].chat # NoChat => Named(t, list)[i] = list[i]
                  /\ list[i].chat = NoChat => Named(t, list)[i].chat = NewChat(t, i)
<1> DEFINE new(i) == IF list[i].chat = NoChat THEN [list[i] EXCEPT !.chat = NewChat(t, i)]
                     ELSE list[i]
<1>1. /\ Len(list) \in Nat
      /\ DOMAIN list = 1 .. Len(list)
      /\ \A i \in 1 .. Len(list) : list[i] \in Entry
  OBVIOUS
<1>2. Named(t, list) = [i \in 1 .. Len(list) |-> new(i)]
  BY <1>1 DEF Named
<1>3. ASSUME NEW i \in 1 .. Len(list)
      PROVE  /\ new(i) \in Entry
             /\ new(i).who = list[i].who
             /\ new(i).chat = ChatUsed(t, list, i)
             /\ new(i).chat # NoChat
             /\ list[i].chat # NoChat => new(i) = list[i]
             /\ list[i].chat = NoChat => new(i).chat = NewChat(t, i)
  <2>1. /\ list[i].who \in Contact /\ list[i].chat \in Chat
        /\ list[i] = [who |-> list[i].who, chat |-> list[i].chat]
    BY <1>1 DEF Entry
  <2>2. NewChat(t, i) \in Chat /\ NewChat(t, i) # NoChat
    BY ChatFacts, <1>1
  <2> QED
    BY <2>1, <2>2 DEF Entry, ChatUsed
<1> HIDE DEF new
<1>4. [i \in 1 .. Len(list) |-> new(i)] \in Seq(Entry)
  BY <1>1, <1>3
<1> QED
  BY <1>1, <1>2, <1>3, <1>4

(* Places in order are a list of those places, each once.                  *)
LEMMA OrderFacts ==
    ASSUME NEW n \in Nat, NEW S \in SUBSET (1 .. n), NEW s \in InOrder(S)
    PROVE  /\ s \in Seq(S)
           /\ \A x \in S : \E i \in DOMAIN s : s[i] = x
           /\ \A i, j \in DOMAIN s : s[i] = s[j] => i = j
<1>1. IsFiniteSet(S)
  <2>1. IsFiniteSet(1 .. n)
    BY FS_Interval
  <2> QED
    BY <2>1, FS_Subset
<1>2. Cardinality(S) \in Nat
  BY <1>1, FS_CardinalityType
<1>3. /\ s \in [1 .. Cardinality(S) -> S]
      /\ \A i, j \in DOMAIN s : i < j => s[i] < s[j]
      /\ \A x \in S : \E i \in DOMAIN s : s[i] = x
  BY DEF InOrder
<1>4. s \in Seq(S)
  BY <1>2, <1>3
<1>5. ASSUME NEW i \in DOMAIN s, NEW j \in DOMAIN s, s[i] = s[j]
      PROVE  i = j
  <2>1. DOMAIN s = 1 .. Cardinality(S)
    BY <1>3
  <2>2. s[i] \in S /\ s[j] \in S
    BY <1>3, <2>1
  <2>3. \A x \in S : x \in Nat
    OBVIOUS
  <2>4. \A x \in 1 .. Cardinality(S) : x \in Nat
    BY <1>2
  <2>5. i \in Nat /\ j \in Nat /\ s[i] \in Nat /\ s[j] \in Nat
    BY <2>1, <2>2, <2>3, <2>4
  <2> QED
    BY <1>3, <1>5, <2>5
<1> QED
  BY <1>3, <1>4, <1>5
-----------------------------------------------------------------------------
(* Type correctness.                                                       *)

LEMMA EntriesTyped ==
    ASSUME TypeOK
    PROVE  /\ Entries \in Seq(Entry)
           /\ DOMAIN Entries = DOMAIN newContact
           /\ \A i \in DOMAIN newContact : /\ newContact[i] \in DOMAIN picks
                                           /\ Entries[i] = picks[newContact[i]]
<1>1. newContact \in Seq(DOMAIN picks) /\ picks \in Seq(Entry)
  BY DEF TypeOK
<1>2. /\ Len(newContact) \in Nat /\ DOMAIN newContact = 1 .. Len(newContact)
      /\ \A i \in 1 .. Len(newContact) : newContact[i] \in DOMAIN picks
  BY <1>1
<1>3. \A o \in DOMAIN picks : picks[o] \in Entry
  BY <1>1
<1>4. Entries = [i \in 1 .. Len(newContact) |-> picks[newContact[i]]]
  BY <1>2 DEF Entries
<1>5. \A i \in 1 .. Len(newContact) : picks[newContact[i]] \in Entry
  BY <1>2, <1>3
<1>6. Entries \in Seq(Entry)
  BY <1>2, <1>4, <1>5
<1> QED
  BY <1>2, <1>4, <1>6

LEMMA WithAnswerTyped ==
    ASSUME TypeOK, NEW o \in asks
    PROVE  WithAnswer(o) \in Seq(DOMAIN picks)
<1>1. newContact \in Seq(DOMAIN picks) /\ o \in DOMAIN picks
  BY DEF TypeOK
<1> DEFINE D == DOMAIN picks
<1> HIDE DEF D
<1>2. newContact \in Seq(D) /\ o \in D
  BY <1>1 DEF D
<1>3. Append(newContact, o) \in Seq(D)
  BY <1>2
<1> QED
  BY <1>1, <1>3 DEF D, WithAnswer

(* A send: the page's list is named, and known members are put on newpData.*)
LEMMA SendFacts ==
    ASSUME TypeOK, PlacesOK, NEW t \in Text, Send(t)
    PROVE  /\ page \in DOMAIN pages /\ page # 0
           /\ pages[page] \in Page
           /\ pages[page].data \in Seq(Entry)
           /\ pages' \in Seq(Page) /\ DOMAIN pages' = DOMAIN pages
           /\ \A p \in DOMAIN pages : p # page => pages'[p] = pages[p]
           /\ pages'[page].cast = pages[page].cast
           /\ pages'[page].data = Named(t, pages[page].data)
           /\ \E first \in ListedFirst(pages[page].data) :
                  /\ first \in Seq(DOMAIN pages[page].data)
                  /\ pages'[page].new = pages[page].new \o first
           /\ sends[t].step = "none" /\ sends[t].page = 0
           /\ sends' \in [Text -> [step : SendStep, page : {0} \cup DOMAIN pages]]
           /\ sends'[t].step = "wait" /\ sends'[t].page = page
           /\ \A s \in Text \ {t} : sends'[s] = sends[s]
<1> DEFINE list == pages[page].data
           old == pages[page]
<1>1. page \in DOMAIN pages /\ page # 0
  BY DEF Send, TypeOK
<1>2. pages \in Seq(Page) /\ old \in Page
  BY <1>1 DEF TypeOK
<1>3. list \in Seq(Entry) /\ old.new \in Seq(Nat) /\ old.cast \in Broadcast
  BY <1>2 DEF Page
<1>4. PICK first \in ListedFirst(list) :
          pages' = [pages EXCEPT ![page] = [cast |-> @.cast, data |-> Named(t, list),
                                            new |-> @.new \o first]]
  BY DEF Send
<1>5. first \in Seq(DOMAIN list)
  <2>1. Len(list) \in Nat /\ DOMAIN list = 1 .. Len(list)
    BY <1>3
  <2>2. Known(list) \in SUBSET (1 .. Len(list))
    BY <2>1 DEF Known
  <2>3. first \in InOrder(Known(list))
    BY <1>4 DEF ListedFirst
  <2>4. first \in Seq(Known(list))
    BY <2>1, <2>2, <2>3, OrderFacts
  <2> HIDE DEF list
  <2> QED
    BY <2>1, <2>2, <2>4
<1>6. old.new \o first \in Seq(Nat)
  <2>1. first \in Seq(Nat)
    <3>1. DOMAIN list \subseteq Nat
      BY <1>3
    <3> HIDE DEF list
    <3> QED
      BY <1>5, <3>1
  <2> HIDE DEF old
  <2> QED
    BY <1>3, <2>1
<1>7. Named(t, list) \in Seq(Entry)
  BY <1>3, NamedFacts
<1> DEFINE now == [cast |-> old.cast, data |-> Named(t, list), new |-> old.new \o first]
<1>8. now \in Page
  BY <1>3, <1>6, <1>7 DEF Page
<1>9. pages' = [pages EXCEPT ![page] = now]
  BY <1>4
<1>10. /\ pages' \in Seq(Page) /\ DOMAIN pages' = DOMAIN pages
       /\ pages'[page] = now
       /\ \A p \in DOMAIN pages : p # page => pages'[p] = pages[p]
  <2> HIDE DEF now
  <2> QED
    BY <1>1, <1>2, <1>8, <1>9
<1>11. sends \in [Text -> [step : SendStep, page : {0} \cup DOMAIN pages]]
  BY DEF TypeOK
<1>12. sends' = [sends EXCEPT ![t] = [step |-> "wait", page |-> page]]
  BY DEF Send
<1>13. sends[t].step = "none" /\ sends[t].page = 0
  BY DEF Send, PlacesOK, IsSent
<1>14. /\ sends' \in [Text -> [step : SendStep, page : {0} \cup DOMAIN pages]]
       /\ sends'[t].step = "wait" /\ sends'[t].page = page
       /\ \A s \in Text \ {t} : sends'[s] = sends[s]
  BY <1>1, <1>11, <1>12 DEF SendStep
<1>15. /\ pages'[page].cast = pages[page].cast
       /\ pages'[page].data = Named(t, pages[page].data)
       /\ pages'[page].new = pages[page].new \o first
  BY <1>10
<1> QED
  BY <1>1, <1>2, <1>3, <1>4, <1>5, <1>10, <1>13, <1>14, <1>15

(* What is on its way goes to a place of the list it was sent to.          *)
LEMMA DeliveryFacts ==
    ASSUME BaseInv, NEW x \in stores
    PROVE  /\ x.text \in Text /\ x.at \in Nat /\ x.known \in BOOLEAN /\ x.chat \in Chat
           /\ IsSent(x.text) /\ sends[x.text].page \in DOMAIN pages
           /\ x.at \in DOMAIN Addressed(x.text)
           /\ x.chat = Addressed(x.text)[x.at].chat /\ x.chat # NoChat
           /\ Delivery(x) = [text |-> x.text, at |-> x.at, chat |-> x.chat,
                             to |-> Addressed(x.text)[x.at].who]
           /\ Addressed(x.text)[x.at].who \in Contact
           /\ Delivery(x) \in [text : Text, at : Nat, chat : Chat \ {NoChat}, to : Contact]
<1> DEFINE p == sends[x.text].page
           list == pages[p].data
<1>1. /\ x.text \in Text /\ x.at \in Nat /\ x.known \in BOOLEAN /\ x.chat \in Chat
  BY DEF BaseInv, TypeOK
<1>2. IsSent(x.text) /\ p \in DOMAIN pages
  BY <1>1 DEF BaseInv, TypeOK, StoresOK, IsSent
<1>3. list \in Seq(Entry)
  <2>1. pages[p] \in Page
    BY <1>2 DEF BaseInv, TypeOK
  <2> QED
    BY <2>1 DEF Page
<1>4. x.at \in DOMAIN list /\ x.chat = list[x.at].chat
  BY DEF BaseInv, StoresOK, Addressed, SentOn
<1>5. x.chat # NoChat
  BY <1>1, <1>2, <1>4 DEF BaseInv, NamedOK, Addressed, SentOn
<1>6. list[x.at].who \in Contact
  <2>1. list[x.at] \in Entry
    BY <1>3, <1>4
  <2> QED
    BY <2>1 DEF Entry
<1> QED
  BY <1>1, <1>2, <1>4, <1>5, <1>6 DEF Delivery, Addressed, SentOn

(* A message is stored: only its page's newpData may get longer.           *)
LEMMA StoreFacts ==
    ASSUME BaseInv, NEW x \in stores, Store(x)
    PROVE  /\ pages' \in Seq(Page) /\ DOMAIN pages' = DOMAIN pages
           /\ \A p \in DOMAIN pages : /\ pages'[p].cast = pages[p].cast
                                      /\ pages'[p].data = pages[p].data
                                      /\ p # sends[x.text].page \/ x.known
                                         => pages'[p] = pages[p]
           /\ ~x.known => pages'[sends[x.text].page].new
                          = Append(pages[sends[x.text].page].new, x.at)
<1> DEFINE p == sends[x.text].page
<1>1. x.at \in Nat /\ x.known \in BOOLEAN /\ p \in DOMAIN pages
  BY DeliveryFacts
<1>2. pages \in Seq(Page) /\ pages[p] \in Page
  BY <1>1 DEF BaseInv, TypeOK
<1>3. pages[p].new \in Seq(Nat)
  BY <1>2 DEF Page
<1>4. CASE x.known
  <2>1. pages' = pages
    BY <1>4 DEF Store
  <2> QED
    BY <1>2, <1>4, <2>1
<1>5. CASE ~x.known
  <2> DEFINE now == [pages[p] EXCEPT !.new = Append(@, x.at)]
  <2>1. pages' = [pages EXCEPT ![p].new = Append(@, x.at)]
    BY <1>5 DEF Store
  <2>2. Append(pages[p].new, x.at) \in Seq(Nat)
    BY <1>1, <1>3
  <2>3. /\ now \in Page /\ now.cast = pages[p].cast /\ now.data = pages[p].data
        /\ now.new = Append(pages[p].new, x.at)
    BY <1>2, <2>2 DEF Page
  <2>4. pages' = [pages EXCEPT ![p] = now]
    BY <2>1
  <2>5. /\ pages' \in Seq(Page) /\ DOMAIN pages' = DOMAIN pages /\ pages'[p] = now
        /\ \A q \in DOMAIN pages : q # p => pages'[q] = pages[q]
    <3> HIDE DEF now
    <3> QED
      BY <1>1, <1>2, <2>3, <2>4
  <2> QED
    BY <1>5, <2>3, <2>5
<1> QED
  BY <1>1, <1>4, <1>5

(* A page is opened on what the card lists.                                *)
LEMMA PushFacts ==
    ASSUME TypeOK, NEW b \in Broadcast, card[b] # NoCard, Push(b)
    PROVE  /\ card[b] \in Seq(Entry)
           /\ pages' \in Seq(Page) /\ DOMAIN pages' = DOMAIN pages \cup {page'}
           /\ page' = Len(pages) + 1 /\ page' \notin DOMAIN pages /\ page' # 0
           /\ \A p \in DOMAIN pages : pages'[p] = pages[p]
           /\ pages'[page'].cast = b
           /\ pages'[page'].data = card[b]
           /\ pages'[page'].new = <<>>
<1> DEFINE now == [cast |-> b, data |-> card[b], new |-> <<>>]
<1>1. card[b] \in Seq(Entry)
  BY DEF TypeOK
<1>2. now \in Page
  BY <1>1 DEF Page
<1>3. pages \in Seq(Page)
  BY DEF TypeOK
<1>4. pages' = Append(pages, now) /\ page' = Len(pages) + 1
  BY DEF Push
<1>5. now.cast = b /\ now.data = card[b] /\ now.new = <<>>
  OBVIOUS
<1> HIDE DEF now
<1>6. /\ pages' \in Seq(Page) /\ DOMAIN pages' = DOMAIN pages \cup {page'}
      /\ page' \notin DOMAIN pages /\ page' # 0
      /\ \A p \in DOMAIN pages : pages'[p] = pages[p]
      /\ pages'[page'] = now
  BY <1>2, <1>3, <1>4
<1> QED
  BY <1>1, <1>4, <1>5, <1>6

(* The card gets the places of the page's list that newpData names.        *)
LEMMA ListFacts ==
    ASSUME BaseInv, NEW t \in Text, List(t)
    PROVE  LET p == SentOn(t) IN
           /\ IsSent(t) /\ sends[t].page \in DOMAIN pages
           /\ p \in Page
           /\ card' \in [Broadcast -> Seq(Entry) \cup {NoCard}]
           /\ card'[p.cast] \in Seq(Entry) /\ DOMAIN card'[p.cast] = DOMAIN p.new
           /\ \A i \in DOMAIN p.new : /\ p.new[i] \in DOMAIN p.data
                                      /\ card'[p.cast][i] = p.data[p.new[i]]
           /\ \A b \in Broadcast : b # p.cast => card'[b] = card[b]
           /\ sends' \in [Text -> [step : SendStep, page : {0} \cup DOMAIN pages]]
           /\ sends'[t].step = "done" /\ sends'[t].page = sends[t].page
           /\ \A s \in Text \ {t} : sends'[s] = sends[s]
<1> DEFINE p == SentOn(t)
           new == [i \in DOMAIN p.new |-> p.data[p.new[i]]]
<1>1. sends \in [Text -> [step : SendStep, page : {0} \cup DOMAIN pages]]
  BY DEF BaseInv, TypeOK
<1>2. sends[t].step = "wait" /\ sends' = [sends EXCEPT ![t].step = "done"]
  BY DEF List
<1>3. IsSent(t) /\ sends[t].page \in DOMAIN pages
  BY <1>1, <1>2 DEF BaseInv, PlacesOK, IsSent
<1>4. p \in Page
  BY <1>3 DEF BaseInv, TypeOK, SentOn
<1>5. p.data \in Seq(Entry) /\ p.new \in Seq(Nat) /\ p.cast \in Broadcast
  BY <1>4 DEF Page
<1>6. \A i \in DOMAIN p.new : p.new[i] \in DOMAIN p.data
  BY <1>3 DEF BaseInv, PlacesOK, SentOn
<1>7. card' = [card EXCEPT ![p.cast] = new]
  BY DEF List, SentOn
<1>8. card \in [Broadcast -> Seq(Entry) \cup {NoCard}]
  BY DEF BaseInv, TypeOK
<1>9. new \in Seq(Entry) /\ DOMAIN new = DOMAIN p.new
  <2> HIDE DEF p
  <2>1. Len(p.new) \in Nat /\ DOMAIN p.new = 1 .. Len(p.new)
    BY <1>5
  <2>2. \A i \in 1 .. Len(p.new) : p.data[p.new[i]] \in Entry
    BY <1>5, <1>6, <2>1
  <2>3. new = [i \in 1 .. Len(p.new) |-> p.data[p.new[i]]]
    BY <2>1
  <2> QED
    BY <2>1, <2>2, <2>3
<1>10. \A i \in DOMAIN p.new : new[i] = p.data[p.new[i]]
  OBVIOUS
<1>11. /\ card' \in [Broadcast -> Seq(Entry) \cup {NoCard}]
       /\ card'[p.cast] = new
       /\ \A b \in Broadcast : b # p.cast => card'[b] = card[b]
  <2> HIDE DEF new, p
  <2> QED
    BY <1>5, <1>7, <1>8, <1>9
<1>12. /\ sends' \in [Text -> [step : SendStep, page : {0} \cup DOMAIN pages]]
       /\ sends'[t].step = "done" /\ sends'[t].page = sends[t].page
       /\ \A s \in Text \ {t} : sends'[s] = sends[s]
  BY <1>1, <1>2 DEF SendStep
<1> HIDE DEF new, p
<1> QED
  BY <1>3, <1>4, <1>6, <1>9, <1>10, <1>11, <1>12 DEF p

(* After a kill no send waits; what was sent and where stays.              *)
LEMMA KillFacts ==
    ASSUME BaseInv, Kill
    PROVE  /\ step' \in [Broadcast -> CreateStep]
           /\ \A b \in Broadcast : step'[b] \in {"none", "made"}
           /\ \A b \in Broadcast : step'[b] = "none" => step[b] = "none"
           /\ sends' \in [Text -> [step : SendStep, page : {0} \cup DOMAIN pages]]
           /\ \A t \in Text : /\ sends'[t].page = sends[t].page
                              /\ sends'[t].step # "wait"
                              /\ sends'[t].step = "none" <=> sends[t].step = "none"
<1>1. /\ sends \in [Text -> [step : SendStep, page : {0} \cup DOMAIN pages]]
      /\ step \in [Broadcast -> CreateStep]
  BY DEF BaseInv, TypeOK
<1>2. step' = [b \in Broadcast |-> IF step[b] = "none" THEN "none" ELSE "made"]
  BY DEF Kill
<1>3. sends' = [t \in Text |->
                   IF sends[t].step = "wait" THEN [sends[t] EXCEPT !.step = "done"]
                   ELSE sends[t]]
  BY DEF Kill
<1>4. ASSUME NEW t \in Text
      PROVE  /\ sends'[t] \in [step : SendStep, page : {0} \cup DOMAIN pages]
             /\ sends'[t].page = sends[t].page
             /\ sends'[t].step # "wait"
             /\ sends'[t].step = "none" <=> sends[t].step = "none"
  BY <1>1, <1>3 DEF SendStep
<1>5. sends' \in [Text -> [step : SendStep, page : {0} \cup DOMAIN pages]]
  <2> DEFINE f(t) == IF sends[t].step = "wait" THEN [sends[t] EXCEPT !.step = "done"]
                     ELSE sends[t]
  <2>1. sends' = [t \in Text |-> f(t)]
    BY <1>3
  <2>2. \A t \in Text : f(t) = sends'[t]
    BY <2>1
  <2> HIDE DEF f
  <2> QED
    BY <1>4, <2>1, <2>2
<1> QED
  BY <1>1, <1>2, <1>4, <1>5 DEF CreateStep

(* The messages a send issues, one for each place of the list.             *)
LEMMA IssuedFacts ==
    ASSUME TypeOK, PlacesOK, NEW t \in Text, Send(t), NEW x \in stores' \ stores
    PROVE  LET list == pages[page].data IN
           /\ x.text = t /\ x.at \in DOMAIN list /\ x.at \in Nat
           /\ x.known = (list[x.at].chat # NoChat)
           /\ x.chat = ChatUsed(t, list, x.at) /\ x.chat \in Chat
           /\ x \in [text : Text, at : Nat, known : BOOLEAN, chat : Chat]
<1> DEFINE list == pages[page].data
<1>1. list \in Seq(Entry)
  BY SendFacts
<1>2. PICK i \in DOMAIN list :
          x = [text |-> t, at |-> i, known |-> list[i].chat # NoChat,
               chat |-> ChatUsed(t, list, i)]
  BY DEF Send
<1>3. i \in Nat /\ list[i] \in Entry
  BY <1>1, <1>2
<1>4. ChatUsed(t, list, i) \in Chat
  BY <1>3, ChatFacts DEF ChatUsed, Entry
<1> HIDE DEF list
<1> QED
  BY <1>2, <1>3, <1>4 DEF list

(* Every step keeps the types.                                             *)
LEMMA StepTyped ==
    ASSUME BaseInv, [Next]_vars
    PROVE  TypeOK'
<1> USE DEF BaseInv
<1>1. ASSUME NEW c \in Contact, Toggle(c)
      PROVE  TypeOK'
  <2>1. /\ picks' \in Seq(Entry) /\ DOMAIN picks \subseteq DOMAIN picks'
        /\ selected' \subseteq DOMAIN picks'
    <3>1. picks \in Seq(Entry) /\ selected \subseteq DOMAIN picks
      BY DEF TypeOK
    <3>2. [who |-> c, chat |-> NoChat] \in Entry
      BY ChatFacts DEF Entry
    <3>3. CASE PickOf(c) = {}
      BY <1>1, <3>1, <3>2, <3>3 DEF Toggle
    <3>4. CASE PickOf(c) # {}
      BY <1>1, <3>1, <3>4 DEF Toggle
    <3> QED
      BY <3>3, <3>4
  <2>2. newContact' \in Seq(DOMAIN picks')
    <3>1. newContact \in Seq(DOMAIN picks) /\ newContact' = newContact
      BY <1>1 DEF TypeOK, Toggle
    <3> QED
      BY <2>1, <3>1
  <2> QED
    BY <1>1, <2>1, <2>2 DEF TypeOK, Toggle, castVars, sendVars
<1>2. CASE Abandon
  BY <1>2 DEF TypeOK, Abandon, castVars, sendVars
<1>3. CASE Back
  BY <1>3 DEF TypeOK, Back, castVars, sendVars, choiceVars
<1>4. CASE Kill
  <2>1. \A x \in stores : Delivery(x) \in [text : Text, at : Nat, chat : Chat \ {NoChat},
                                           to : Contact]
    BY DeliveryFacts
  <2>2. received' \subseteq [text : Text, at : Nat, chat : Chat \ {NoChat}, to : Contact]
    BY <1>4, <2>1 DEF TypeOK, Kill
  <2>3. newContact' \in Seq(DOMAIN picks') /\ selected' \subseteq DOMAIN picks'
    BY <1>4 DEF Kill
  <2>4. reopened' \subseteq Broadcast /\ kills' \in Nat
    BY <1>4 DEF TypeOK, Kill
  <2> QED
    BY <1>4, <2>2, <2>3, <2>4, KillFacts DEF TypeOK, Kill
<1>5. ASSUME NEW o \in asks, Answer(o)
      PROVE  TypeOK'
  <2>1. picks' \in Seq(Entry) /\ DOMAIN picks' = DOMAIN picks
    <3>1. picks \in Seq(Entry) /\ o \in DOMAIN picks /\ picks[o] \in Entry
      BY DEF TypeOK
    <3>2. Looked(picks[o].who) \in Chat
      BY <3>1, ChatFacts DEF Looked, Entry
    <3> DEFINE now == [picks[o] EXCEPT !.chat = Looked(picks[o].who)]
    <3>3. now \in Entry
      BY <3>1, <3>2 DEF Entry
    <3>4. picks' = [picks EXCEPT ![o] = now]
      BY <1>5 DEF Answer
    <3> HIDE DEF now
    <3> QED
      BY <3>1, <3>3, <3>4
  <2>2. newContact' \in Seq(DOMAIN picks')
    BY <1>5, <2>1, WithAnswerTyped DEF Answer
  <2> QED
    BY <1>5, <2>1, <2>2 DEF TypeOK, Answer, castVars, sendVars
<1>6. ASSUME NEW b \in Broadcast, Create(b)
      PROVE  TypeOK'
  <2>1. {picks[o].who : o \in selected} \subseteq Contact
    <3>1. \A o \in selected : picks[o] \in Entry
      BY DEF TypeOK
    <3> QED
      BY <3>1 DEF Entry
  <2>2. Creating \subseteq Broadcast
    BY DEF Creating
  <2> QED
    BY <1>6, <2>1, <2>2 DEF TypeOK, Create, sendVars, CreateStep
<1>7. ASSUME NEW b \in Broadcast, WaitOver(b)
      PROVE  TypeOK'
  BY <1>7, EntriesTyped DEF TypeOK, WaitOver, choiceVars, sendVars, CreateStep
<1>8. ASSUME NEW b \in Broadcast, AddCard(b)
      PROVE  TypeOK'
  BY <1>8, EntriesTyped DEF TypeOK, AddCard, choiceVars, sendVars, CreateStep
<1>9. ASSUME NEW b \in Broadcast, EndCreation(b)
      PROVE  TypeOK'
  <2>1. newContact' \in Seq(DOMAIN picks') /\ selected' \subseteq DOMAIN picks'
    BY <1>9 DEF EndCreation
  <2> QED
    BY <1>9, <2>1 DEF TypeOK, EndCreation, sendVars, CreateStep
<1>10. ASSUME NEW b \in Broadcast, card[b] # NoCard, Push(b)
       PROVE  /\ pages' \in Seq(Page) /\ page' \in {0} \cup DOMAIN pages'
              /\ sends \in [Text -> [step : SendStep, page : {0} \cup DOMAIN pages']]
              /\ reopened' \subseteq Broadcast
  BY <1>10, PushFacts DEF TypeOK, Push
<1>11. ASSUME NEW b \in Broadcast, OpenCreated(b)
       PROVE  TypeOK'
  <2>1. card[b] # NoCard
    BY <1>11 DEF OpenCreated, CastsOK
  <2>2. CASE page = 0
    <3>1. Push(b)
      BY <1>11, <2>2 DEF OpenCreated
    <3>2. step' \in [Broadcast -> CreateStep]
      BY <1>11 DEF TypeOK, OpenCreated, CreateStep
    <3> QED
      BY <1>10, <1>11, <2>1, <3>1, <3>2 DEF TypeOK, OpenCreated, choiceVars, sendVars
  <2>3. CASE page # 0
    BY <1>11, <2>3 DEF TypeOK, OpenCreated, choiceVars, sendVars, CreateStep
  <2> QED
    BY <2>2, <2>3
<1>12. ASSUME NEW b \in Broadcast, Open(b)
       PROVE  TypeOK'
  BY <1>10, <1>12 DEF TypeOK, Open, choiceVars, castVars, sendVars
<1>13. ASSUME NEW t \in Text, Send(t)
       PROVE  TypeOK'
  <2>1. stores' \subseteq [text : Text, at : Nat, known : BOOLEAN, chat : Chat]
    BY IssuedFacts, <1>13 DEF TypeOK
  <2> QED
    BY <1>13, <2>1, SendFacts DEF TypeOK, Send, choiceVars, castVars
<1>14. ASSUME NEW t \in Text, List(t)
       PROVE  TypeOK'
  <2>1. SentOn(t).cast \in Broadcast
    BY <1>14, ListFacts DEF Page
  <2> QED
    BY <1>14, <2>1, ListFacts DEF TypeOK, List, SentOn, choiceVars, castVars
<1>15. ASSUME NEW x \in stores, Store(x)
       PROVE  TypeOK'
  <2>1. pages' \in Seq(Page) /\ DOMAIN pages' = DOMAIN pages
    BY <1>15, StoreFacts
  <2>2. /\ received' \subseteq [text : Text, at : Nat, chat : Chat \ {NoChat}, to : Contact]
        /\ told' \subseteq received'
    BY <1>15, DeliveryFacts DEF TypeOK, Store, Announced
  <2> QED
    BY <1>15, <2>1, <2>2 DEF TypeOK, Store, choiceVars, castVars
<1>16. CASE UNCHANGED vars
  BY <1>16 DEF TypeOK, vars, choiceVars, castVars, sendVars
<1> QED
  BY <1>1, <1>2, <1>3, <1>4, <1>5, <1>6, <1>7, <1>8, <1>9, <1>11, <1>12, <1>13, <1>14,
     <1>15, <1>16 DEF Next, CastStep

(* The steps that pages, sends and messages take part in.                  *)
LEMMA SendingSteps ==
    ASSUME BaseInv, [Next]_vars
    PROVE  \/ \E b \in Broadcast : card[b] # NoCard /\ Push(b) /\ UNCHANGED <<card, sendVars, kills>>
           \/ \E t \in Text : Send(t) \/ List(t)
           \/ \E x \in stores : Store(x)
           \/ Kill
           \/ UNCHANGED <<pages, sendVars, reopened, kills>> /\ page' \in {0, page}
<1> USE DEF BaseInv
<1>1. ASSUME NEW c \in Contact, Toggle(c) \/ Abandon \/ Back
      PROVE  UNCHANGED <<pages, sendVars, reopened, kills>> /\ page' \in {0, page}
  BY <1>1 DEF Toggle, Abandon, Back
<1>2. ASSUME NEW b \in Broadcast, Create(b) \/ WaitOver(b) \/ AddCard(b) \/ EndCreation(b)
      PROVE  UNCHANGED <<pages, sendVars, reopened, kills>> /\ page' \in {0, page}
  BY <1>2 DEF Create, WaitOver, AddCard, EndCreation
<1>3. ASSUME NEW b \in Broadcast, OpenCreated(b)
      PROVE  \/ card[b] # NoCard /\ Push(b) /\ UNCHANGED <<card, sendVars, kills>>
             \/ UNCHANGED <<pages, sendVars, reopened, kills>> /\ page' \in {0, page}
  BY <1>3 DEF OpenCreated, CastsOK
<1>4. ASSUME NEW b \in Broadcast, Open(b)
      PROVE  card[b] # NoCard /\ Push(b) /\ UNCHANGED <<card, sendVars, kills>>
  BY <1>4 DEF Open
<1>5. ASSUME NEW o \in asks, Answer(o)
      PROVE  UNCHANGED <<pages, sendVars, reopened, kills>> /\ page' \in {0, page}
  BY <1>5 DEF Answer
<1>6. CASE UNCHANGED vars
  BY <1>6 DEF vars
<1>7. ASSUME Abandon \/ Back
      PROVE  UNCHANGED <<pages, sendVars, reopened, kills>> /\ page' \in {0, page}
  BY <1>7 DEF Abandon, Back
<1> QED
  BY <1>1, <1>2, <1>3, <1>4, <1>5, <1>6, <1>7 DEF Next, CastStep

(* A page's broadcast and members stay, and so does a chat that is known.  *)
LEMMA PagesGrow ==
    ASSUME BaseInv, [Next]_vars, NEW p \in DOMAIN pages
    PROVE  /\ p \in DOMAIN pages' /\ pages'[p].cast = pages[p].cast
           /\ DOMAIN pages'[p].data = DOMAIN pages[p].data
           /\ \A i \in DOMAIN pages[p].data :
                  /\ pages'[p].data[i].who = pages[p].data[i].who
                  /\ pages[p].data[i].chat # NoChat => pages'[p].data[i] = pages[p].data[i]
<1>1. CASE \E b \in Broadcast : card[b] # NoCard /\ Push(b) /\ UNCHANGED <<card, sendVars, kills>>
  BY <1>1, PushFacts DEF BaseInv
<1>2. ASSUME NEW t \in Text, Send(t)
      PROVE  /\ p \in DOMAIN pages' /\ pages'[p].cast = pages[p].cast
             /\ DOMAIN pages'[p].data = DOMAIN pages[p].data
             /\ \A i \in DOMAIN pages[p].data :
                    /\ pages'[p].data[i].who = pages[p].data[i].who
                    /\ pages[p].data[i].chat # NoChat => pages'[p].data[i] = pages[p].data[i]
  <2>1. CASE p = page
    BY <1>2, <2>1, SendFacts, NamedFacts DEF BaseInv
  <2>2. CASE p # page
    BY <1>2, <2>2, SendFacts DEF BaseInv
  <2> QED
    BY <2>1, <2>2
<1>3. CASE \E x \in stores : Store(x)
  BY <1>3, StoreFacts
<1>4. ASSUME NEW t \in Text, List(t)
      PROVE  pages' = pages
  BY <1>4 DEF List
<1>5. CASE Kill \/ UNCHANGED <<pages, sendVars, reopened, kills>>
  BY <1>5 DEF Kill
<1> QED
  BY <1>1, <1>2, <1>3, <1>4, <1>5, SendingSteps

(* The list a message was sent to stays as it is.                          *)
LEMMA AddressedStays ==
    ASSUME BaseInv, [Next]_vars, NEW t \in Text, IsSent(t)
    PROVE  /\ IsSent(t)' /\ sends'[t].page = sends[t].page
           /\ sends[t].page \in DOMAIN pages
           /\ SentOn(t)'.cast = SentOn(t).cast
           /\ Addressed(t)' = Addressed(t)
<1>1. sends'[t].page = sends[t].page
  <2>1. ASSUME NEW s \in Text, Send(s)
        PROVE  sends'[t].page = sends[t].page
    BY <2>1, SendFacts DEF BaseInv, IsSent
  <2>2. ASSUME NEW s \in Text, List(s)
        PROVE  sends'[t].page = sends[t].page
    BY <2>2, ListFacts
  <2>3. ASSUME NEW x \in stores, Store(x)
        PROVE  sends'[t].page = sends[t].page
    BY <2>3 DEF Store
  <2> QED
    BY <2>1, <2>2, <2>3, KillFacts, SendingSteps DEF sendVars
<1> DEFINE p == sends[t].page
           list == pages[p].data
<1>2. p \in DOMAIN pages
  BY DEF BaseInv, TypeOK, IsSent
<1>3. \A i \in DOMAIN list : list[i].chat # NoChat
  BY DEF BaseInv, NamedOK, Addressed, SentOn
<1>4. /\ p \in DOMAIN pages' /\ pages'[p].cast = pages[p].cast
      /\ DOMAIN pages'[p].data = DOMAIN list
      /\ \A i \in DOMAIN list : pages'[p].data[i] = list[i]
  BY <1>2, <1>3, PagesGrow
<1>5. pages'[p].data \in Seq(Entry) /\ list \in Seq(Entry)
  <2>1. pages'[p] \in Page /\ pages[p] \in Page
    BY <1>2, <1>4, StepTyped DEF BaseInv, TypeOK
  <2> QED
    BY <2>1 DEF Page
<1>6. pages'[p].data = list
  BY <1>4, <1>5
<1> QED
  BY <1>1, <1>2, <1>4, <1>6 DEF IsSent, Addressed, SentOn

(* A step gives a broadcast a card, and pages to one that has a card.      *)
LEMMA CastsPreserved ==
    ASSUME BaseInv, [Next]_vars
    PROVE  CastsOK'
<1>0. /\ step \in [Broadcast -> CreateStep]
      /\ card \in [Broadcast -> Seq(Entry) \cup {NoCard}]
  BY DEF BaseInv, TypeOK
<1> USE DEF BaseInv
<1>1. ASSUME UNCHANGED <<card, pages>>,
             \A b \in Broadcast : \/ step'[b] = step[b]
                                  \/ step[b] = "none" /\ step'[b] = "wait"
                                  \/ step[b] = "wait" /\ step'[b] = "set"
                                  \/ step[b] = "add" /\ step'[b] = "open"
                                  \/ step'[b] = "made"
      PROVE  CastsOK'
  BY <1>1 DEF CastsOK
<1>2. ASSUME NEW c \in Contact, Toggle(c)
      PROVE  CastsOK'
  BY <1>1, <1>2 DEF Toggle, castVars
<1>3. CASE Abandon \/ Back
  BY <1>1, <1>3 DEF Abandon, Back, castVars
<1>4. CASE Kill
  <2>1. \A b \in Broadcast : step'[b] = step[b] \/ step'[b] = "made"
    BY <1>4 DEF Kill
  <2> QED
    BY <1>1, <1>4, <2>1 DEF Kill
<1>5. ASSUME NEW o \in asks, Answer(o)
      PROVE  CastsOK'
  BY <1>1, <1>5 DEF Answer, castVars
<1>6. ASSUME NEW b \in Broadcast, Create(b) \/ WaitOver(b) \/ EndCreation(b)
      PROVE  CastsOK'
  BY <1>0, <1>1, <1>6 DEF Create, WaitOver, EndCreation
<1>7. ASSUME NEW b \in Broadcast, AddCard(b)
      PROVE  CastsOK'
  BY <1>0, <1>7, EntriesTyped, NoCardAssumption DEF AddCard, CastsOK
<1>8. ASSUME NEW b \in Broadcast, card[b] # NoCard, Push(b), UNCHANGED card
      PROVE  \A c \in Broadcast : card'[c] = NoCard => \A p \in DOMAIN pages' : pages'[p].cast # c
  BY <1>8, PushFacts DEF CastsOK
<1>9. ASSUME NEW b \in Broadcast, OpenCreated(b)
      PROVE  CastsOK'
  <2>1. \A c \in Broadcast : /\ step'[c] \in {"none", "wait", "set"} => card'[c] = NoCard
                             /\ step'[c] \in {"add", "open"} => card'[c] # NoCard
    BY <1>0, <1>9 DEF OpenCreated, CastsOK
  <2>2. \A c \in Broadcast : card'[c] = NoCard => \A p \in DOMAIN pages' : pages'[p].cast # c
    BY <1>8, <1>9 DEF OpenCreated, CastsOK
  <2> QED
    BY <2>1, <2>2 DEF CastsOK
<1>10. ASSUME NEW b \in Broadcast, Open(b)
       PROVE  CastsOK'
  BY <1>8, <1>10 DEF Open, CastsOK, castVars
<1>11. ASSUME NEW t \in Text, Send(t)
       PROVE  CastsOK'
  BY <1>11, SendFacts DEF Send, CastsOK, castVars
<1>12. ASSUME NEW t \in Text, List(t)
       PROVE  CastsOK'
  <2>1. SentOn(t).cast \in Broadcast /\ sends[t].page \in DOMAIN pages
    BY <1>12, ListFacts DEF Page
  <2>2. card[SentOn(t).cast] # NoCard
    BY <2>1 DEF CastsOK, SentOn
  <2>3. UNCHANGED <<step, pages>>
    BY <1>12 DEF List, castVars
  <2> QED
    BY <1>12, <2>1, <2>2, <2>3, ListFacts, NoCardAssumption DEF CastsOK
<1>13. ASSUME NEW x \in stores, Store(x)
       PROVE  CastsOK'
  <2>1. UNCHANGED <<card, step>>
    BY <1>13 DEF Store, castVars
  <2> QED
    BY <1>13, <2>1, StoreFacts DEF CastsOK
<1>14. CASE UNCHANGED vars
  BY <1>1, <1>14 DEF vars, castVars
<1> QED
  BY <1>2, <1>3, <1>4, <1>5, <1>6, <1>7, <1>9, <1>10, <1>11, <1>12, <1>13, <1>14
     DEF Next, CastStep

LEMMA PlacesPreserved ==
    ASSUME BaseInv, [Next]_vars
    PROVE  PlacesOK'
<1> USE DEF BaseInv
<1>1. ASSUME NEW b \in Broadcast, card[b] # NoCard, Push(b), UNCHANGED sends
      PROVE  PlacesOK'
  BY <1>1, PushFacts DEF PlacesOK, IsSent
<1>2. ASSUME NEW t \in Text, Send(t)
      PROVE  PlacesOK'
  <2>1. \A p \in DOMAIN pages' : \A k \in DOMAIN pages'[p].new :
            pages'[p].new[k] \in DOMAIN pages'[p].data
    <3>1. PICK first : /\ first \in Seq(DOMAIN pages[page].data)
                       /\ pages'[page].new = pages[page].new \o first
      BY <1>2, SendFacts
    <3> DEFINE new == pages[page].new
               list == pages[page].data
    <3>2. page \in DOMAIN pages /\ pages[page] \in Page /\ DOMAIN pages'[page].data = DOMAIN list
      BY <1>2, SendFacts, NamedFacts
    <3>3. new \in Seq(Nat) /\ \A k \in DOMAIN new : new[k] \in DOMAIN list
      BY <3>2 DEF PlacesOK, Page
    <3>4. \A k \in DOMAIN (new \o first) : (new \o first)[k] \in DOMAIN list
      <4> DEFINE D == DOMAIN list
      <4>1. first \in Seq(D) /\ \A k \in DOMAIN new : new[k] \in D
        BY <3>1, <3>3
      <4> HIDE DEF D, new
      <4>2. \A k \in DOMAIN (new \o first) : (new \o first)[k] \in D
        BY <3>3, <4>1
      <4> QED
        BY <4>2 DEF D
    <3>5. \A p \in DOMAIN pages : p # page => pages'[p] = pages[p]
      BY <1>2, SendFacts
    <3>6. DOMAIN pages' = DOMAIN pages
      BY <1>2, SendFacts
    <3> HIDE DEF new
    <3> QED
      BY <3>1, <3>2, <3>4, <3>5, <3>6 DEF PlacesOK, new
  <2>2. \A s \in Text : sends'[s].step = "none" <=> sends'[s].page = 0
    BY <1>2, SendFacts DEF PlacesOK, IsSent
  <2> QED
    BY <2>1, <2>2 DEF PlacesOK, IsSent
<1>3. ASSUME NEW x \in stores, Store(x)
      PROVE  PlacesOK'
  <2>1. ~x.known => \A k \in DOMAIN pages'[sends[x.text].page].new :
            pages'[sends[x.text].page].new[k] \in DOMAIN pages[sends[x.text].page].data
    <3> DEFINE p == sends[x.text].page
               new == pages[p].new
    <3>1. p \in DOMAIN pages /\ x.at \in DOMAIN pages[p].data
      BY DeliveryFacts DEF Addressed, SentOn
    <3>2. new \in Seq(Nat) /\ \A k \in DOMAIN new : new[k] \in DOMAIN pages[p].data
      <4>1. pages[p] \in Page
        BY <3>1 DEF TypeOK
      <4> QED
        BY <3>1, <4>1 DEF PlacesOK, Page
    <3>3. ~x.known => pages'[p].new = Append(new, x.at)
      BY <1>3, StoreFacts
    <3> HIDE DEF new, p
    <3>4. \A k \in DOMAIN Append(new, x.at) : Append(new, x.at)[k] \in DOMAIN pages[p].data
      BY <3>1, <3>2
    <3> QED
      BY <3>3, <3>4 DEF p
  <2>2. sends' = sends
    BY <1>3 DEF Store
  <2>3. sends[x.text].page \in DOMAIN pages /\ x.known \in BOOLEAN
    BY DeliveryFacts
  <2> QED
    BY <1>3, <2>1, <2>2, <2>3, StoreFacts DEF PlacesOK, IsSent
<1>4. ASSUME NEW t \in Text, List(t)
      PROVE  PlacesOK'
  <2>1. pages' = pages
    BY <1>4 DEF List
  <2>2. sends[t].step = "wait"
    BY <1>4 DEF List
  <2> QED
    BY <1>4, <2>1, <2>2, ListFacts DEF PlacesOK, IsSent
<1>5. CASE Kill
  BY <1>5, KillFacts DEF PlacesOK, IsSent, Kill
<1>6. CASE UNCHANGED <<pages, sendVars>>
  BY <1>6 DEF PlacesOK, IsSent, sendVars
<1> QED
  BY <1>1, <1>2, <1>3, <1>4, <1>5, <1>6, SendingSteps DEF sendVars

(* Who was sent a message before the step, and who is by it.               *)
LEMMA NewlySent ==
    ASSUME BaseInv, [Next]_vars, NEW t \in Text, IsSent(t)', ~IsSent(t)
    PROVE  /\ Send(t)
           /\ sends'[t].page = page
           /\ Addressed(t)' = Named(t, pages[page].data)
<1> USE DEF BaseInv
<1>1. Send(t)
  <2>1. ASSUME NEW s \in Text, Send(s), s # t
        PROVE  FALSE
    BY <2>1, SendFacts DEF IsSent
  <2>2. ASSUME NEW s \in Text, List(s)
        PROVE  FALSE
    BY <2>2, ListFacts DEF IsSent
  <2>3. ASSUME NEW x \in stores, Store(x)
        PROVE  FALSE
    BY <2>3 DEF Store, IsSent
  <2> QED
    BY <2>1, <2>2, <2>3, KillFacts, SendingSteps DEF sendVars, IsSent
<1> QED
  BY <1>1, SendFacts DEF Addressed, SentOn

LEMMA NamedPreserved ==
    ASSUME BaseInv, [Next]_vars
    PROVE  NamedOK'
<1> SUFFICES ASSUME NEW t \in Text, IsSent(t)'
             PROVE  \A i \in DOMAIN Addressed(t)' : Addressed(t)'[i].chat # NoChat
  BY DEF NamedOK
<1>1. CASE IsSent(t)
  BY <1>1, AddressedStays DEF BaseInv, NamedOK
<1>2. CASE ~IsSent(t)
  BY <1>2, NewlySent, SendFacts, NamedFacts DEF BaseInv
<1> QED
  BY <1>1, <1>2

LEMMA StoresPreserved ==
    ASSUME BaseInv, [Next]_vars
    PROVE  StoresOK'
<1> SUFFICES ASSUME NEW x \in stores'
             PROVE  /\ IsSent(x.text)'
                    /\ x.at \in DOMAIN Addressed(x.text)'
                    /\ x.chat = Addressed(x.text)'[x.at].chat
  BY DEF StoresOK
<1>1. CASE x \in stores
  <2>1. x.text \in Text /\ IsSent(x.text)
    BY <1>1, DeliveryFacts
  <2> QED
    BY <1>1, <2>1, AddressedStays DEF BaseInv, StoresOK
<1>2. CASE x \notin stores
  <2>1. PICK t \in Text : Send(t)
    BY <1>2, SendingSteps DEF sendVars, Store, Kill, List
  <2> DEFINE list == pages[page].data
  <2>2. /\ x.text = t /\ x.at \in DOMAIN list /\ x.chat = ChatUsed(t, list, x.at)
    BY <1>2, <2>1, IssuedFacts DEF BaseInv
  <2>3. /\ sends'[t].page = page /\ page # 0 /\ pages'[page].data = Named(t, list)
        /\ list \in Seq(Entry)
    BY <2>1, SendFacts DEF BaseInv
  <2>4. DOMAIN Named(t, list) = DOMAIN list /\ Named(t, list)[x.at].chat = ChatUsed(t, list, x.at)
    BY <2>2, <2>3, NamedFacts
  <2> QED
    BY <2>2, <2>3, <2>4 DEF IsSent, Addressed, SentOn
<1> QED
  BY <1>1, <1>2

LEMMA ReceivedPreserved ==
    ASSUME BaseInv, [Next]_vars
    PROVE  ReceivedOK'
<1> SUFFICES ASSUME NEW r \in received'
             PROVE  /\ IsSent(r.text)'
                    /\ r.at \in DOMAIN Addressed(r.text)'
                    /\ r.chat = Addressed(r.text)'[r.at].chat
                    /\ r.to = Addressed(r.text)'[r.at].who
  BY DEF ReceivedOK
<1>1. CASE r \in received
  <2>1. r.text \in Text /\ IsSent(r.text)
    BY <1>1 DEF BaseInv, TypeOK, ReceivedOK
  <2> QED
    BY <1>1, <2>1, AddressedStays DEF BaseInv, ReceivedOK
<1>2. CASE r \notin received
  <2>1. PICK x \in stores : r = Delivery(x)
    <3>1. ASSUME NEW t \in Text, Send(t) \/ List(t)
          PROVE  FALSE
      BY <1>2, <3>1 DEF Send, List
    <3>2. ASSUME NEW x \in stores, Store(x)
          PROVE  r = Delivery(x)
      BY <1>2, <3>2 DEF Store
    <3>3. Kill => \E x \in stores : r = Delivery(x)
      BY <1>2 DEF Kill
    <3> QED
      BY <1>2, <3>1, <3>2, <3>3, SendingSteps DEF sendVars
  <2> QED
    BY <2>1, DeliveryFacts, AddressedStays
<1> QED
  BY <1>1, <1>2

(* Types, and that places, pages and chats fit together, in every state.   *)
THEOREM BaseHolds == Spec => []BaseInv
<1>1. Init => BaseInv
  <2> USE DEF Init
  <2>1. Init => TypeOK
    <3>1. <<>> \in Seq(Entry) /\ <<>> \in Seq(Page)
      OBVIOUS
    <3>2. Init => newContact \in Seq(DOMAIN picks) /\ selected = {} /\ asks = {}
      OBVIOUS
    <3>3. Init => step \in [Broadcast -> CreateStep] /\ users \in [Broadcast -> Seq(Entry)]
      BY <3>1 DEF CreateStep
    <3>4. Init => card \in [Broadcast -> Seq(Entry) \cup {NoCard}]
      OBVIOUS
    <3>5. Init => sends \in [Text -> [step : SendStep, page : {0} \cup DOMAIN pages]]
      BY DEF SendStep
    <3>6. Init => chosen \in [Broadcast -> SUBSET Contact]
      OBVIOUS
    <3>7. Init => picks \in Seq(Entry) /\ pages \in Seq(Page)
      BY <3>1
    <3>8. Init => loading \in BOOLEAN
      BY Zenon
    <3>9. Init => page \in {0} \cup DOMAIN pages /\ kills \in Nat
      OBVIOUS
    <3>10. Init => /\ stores = {} /\ received = {} /\ told = {} /\ hurried = {}
                   /\ slow = {} /\ reopened = {}
      OBVIOUS
    <3> HIDE DEF Init
    <3> QED
      BY <3>1, <3>2, <3>3, <3>4, <3>5, <3>6, <3>7, <3>8, <3>9, <3>10 DEF TypeOK
  <2>2. Init => CastsOK /\ PlacesOK
    BY DEF CastsOK, PlacesOK, IsSent
  <2>3. Init => NamedOK /\ StoresOK /\ ReceivedOK
    BY DEF NamedOK, StoresOK, ReceivedOK, IsSent
  <2> QED
    BY <2>1, <2>2, <2>3 DEF BaseInv
<1>2. BaseInv /\ [Next]_vars => BaseInv'
  BY StepTyped, CastsPreserved, PlacesPreserved, NamedPreserved, StoresPreserved,
     ReceivedPreserved DEF BaseInv
<1> QED
  BY <1>1, <1>2, PTL DEF Spec

(* Entries, documents, pages and messages have their types in every state. *)
THEOREM BroadcastIsTyped == Spec => []TypeOK
BY BaseHolds, PTL DEF BaseInv
-----------------------------------------------------------------------------
(* Every member is told.                                                   *)

LEMMA PlacesToldPreserved ==
    ASSUME BaseInv, PlacesTold, [Next]_vars
    PROVE  PlacesTold'
<1>1. SUFFICES ASSUME kills' = 0, NEW t \in Text, IsSent(t)', NEW i \in DOMAIN Addressed(t)'
               PROVE  \/ \E x \in stores' : x.text = t /\ x.at = i
                      \/ \E r \in told' : r.text = t /\ r.at = i
  BY DEF PlacesTold
<1>2. kills = 0 /\ ~Kill /\ told \subseteq told'
  <2>1. kills \in Nat
    BY DEF BaseInv, TypeOK
  <2>2. ~Kill
    BY <1>1, <2>1 DEF Kill
  <2>3. ASSUME NEW s \in Text, Send(s) \/ List(s)
        PROVE  UNCHANGED <<told, kills>>
    BY <2>3 DEF Send, List
  <2>4. ASSUME NEW x \in stores, Store(x)
        PROVE  told \subseteq told' /\ UNCHANGED kills
    BY <2>4 DEF Store
  <2> QED
    BY <1>1, <2>2, <2>3, <2>4, SendingSteps DEF sendVars
<1>3. CASE IsSent(t)
  <2>1. i \in DOMAIN Addressed(t)
    BY <1>3, AddressedStays
  <2>2. ASSUME NEW x \in stores, x.text = t, x.at = i, x \notin stores'
        PROVE  \E r \in told' : r.text = t /\ r.at = i
    <3>1. ASSUME NEW s \in Text, Send(s) \/ List(s)
          PROVE  x \in stores'
      BY <3>1 DEF Send, List
    <3>2. ASSUME NEW y \in stores, Store(y)
          PROVE  x \in stores' \/ x = y
      BY <3>2 DEF Store
    <3>3. Store(x)
      BY <1>2, <2>2, <3>1, <3>2, SendingSteps DEF sendVars
    <3>4. Delivery(x) \in told'
      BY <3>3 DEF Store, Announced
    <3> QED
      BY <2>2, <3>4, DeliveryFacts
  <2> QED
    BY <1>2, <1>3, <2>1, <2>2 DEF PlacesTold
<1>4. CASE ~IsSent(t)
  <2> DEFINE list == pages[page].data
  <2>1. Send(t) /\ Addressed(t)' = Named(t, list)
    BY <1>1, <1>4, NewlySent
  <2>2. i \in DOMAIN list
    BY <1>1, <2>1, SendFacts, NamedFacts DEF BaseInv
  <2>3. [text |-> t, at |-> i, known |-> list[i].chat # NoChat,
         chat |-> ChatUsed(t, list, i)] \in stores'
    BY <2>1, <2>2 DEF Send
  <2> HIDE DEF list
  <2> QED
    BY <2>3
<1> QED
  BY <1>3, <1>4

(* Once nothing of a message is under way, exactly the members it was sent *)
(* to have it in a chat and a card that announces it, unless the app was   *)
(* killed (saveMessageInLoop).                                             *)
THEOREM MembersAreTold == Spec => []EveryMemberIsTold
<1>1. Init => PlacesTold
  BY DEF Init, PlacesTold, IsSent
<1>2. BaseInv /\ PlacesTold /\ [Next]_vars => PlacesTold'
  BY PlacesToldPreserved
<1>3. BaseInv /\ PlacesTold => EveryMemberIsTold
  <2> SUFFICES ASSUME BaseInv, PlacesTold, NEW t \in Text, sends[t].step # "none",
                      kills = 0, \A x \in stores : x.text # t
               PROVE  Who(pages[sends[t].page].data)
                      = {r.to : r \in {q \in told : q.text = t}}
    BY DEF EveryMemberIsTold
  <2>1. IsSent(t)
    BY DEF BaseInv, PlacesOK
  <2>2. \A i \in DOMAIN Addressed(t) : \E r \in told : r.text = t /\ r.at = i
    BY <2>1 DEF PlacesTold
  <2>3. \A r \in told : r.text = t => /\ r.at \in DOMAIN Addressed(t)
                                      /\ r.to = Addressed(t)[r.at].who
    BY DEF BaseInv, TypeOK, ReceivedOK
  <2>4. Who(Addressed(t)) = {r.to : r \in {q \in told : q.text = t}}
    BY <2>2, <2>3 DEF Who
  <2> QED
    BY <2>4 DEF Addressed, SentOn
<1> QED
  BY <1>1, <1>2, <1>3, BaseHolds, PTL DEF Spec
-----------------------------------------------------------------------------
(* What a creation has gathered.                                           *)

(* Nothing changes for a creation while what it gathers stays.             *)
LEMMA AloneFrame ==
    ASSUME AloneOK, hurried \subseteq hurried', step' = step, users' = users, chosen' = chosen,
           asks' \subseteq asks, Gathered' = Gathered,
           \A o \in Gathered : Chosen(o)' = Chosen(o)
    PROVE  AloneOK'
<1>1. Creating' = Creating
  BY DEF Creating
<1>2. ASSUME NEW b \in Broadcast, GathersChosen(b)
      PROVE  GathersChosen(b)'
  BY <1>2 DEF GathersChosen
<1> QED
  BY <1>1, <1>2 DEF AloneOK

LEMMA ChoicePreserved ==
    ASSUME BaseInv, ChoiceOK, [Next]_vars
    PROVE  ChoiceOK'
<1>0. /\ picks \in Seq(Entry) /\ selected \subseteq DOMAIN picks
      /\ newContact \in Seq(DOMAIN picks) /\ asks \subseteq DOMAIN picks
  BY DEF BaseInv, TypeOK
<1>1. ASSUME NEW c \in Contact, Toggle(c)
      PROVE  ChoiceOK'
  <2>1. CASE PickOf(c) = {}
    <3>1. /\ picks' = Append(picks, [who |-> c, chat |-> NoChat])
          /\ selected' = selected \cup {Len(picks) + 1}
          /\ newContact' = newContact
      BY <1>1, <2>1 DEF Toggle
    <3>2. /\ picks'[Len(picks) + 1].who = c
          /\ \A o \in selected : Chosen(o)' = Chosen(o)
      <4> DEFINE new == [who |-> c, chat |-> NoChat]
      <4>1. picks' = Append(picks, new) /\ new.who = c
        BY <3>1
      <4> HIDE DEF new
      <4>2. picks'[Len(picks) + 1] = new /\ \A o \in DOMAIN picks : picks'[o] = picks[o]
        BY <1>0, <4>1
      <4> QED
        BY <1>0, <4>1, <4>2 DEF Chosen
    <3>3. \A o \in selected : Chosen(o) # c
      BY <2>1 DEF PickOf, Chosen
    <3>4. ASSUME NEW o \in selected', NEW q \in selected', Chosen(o)' = Chosen(q)'
          PROVE  o = q
      BY <3>1, <3>2, <3>3, <3>4 DEF ChoiceOK, Chosen
    <3> QED
      BY <3>1, <3>4 DEF ChoiceOK
  <2>2. CASE PickOf(c) # {}
    BY <1>1, <2>2 DEF Toggle, ChoiceOK, Chosen
  <2> QED
    BY <2>1, <2>2
<1>2. ASSUME UNCHANGED picks, selected' \subseteq selected, newContact' \in {<<>>, newContact}
      PROVE  ChoiceOK'
  BY <1>2 DEF ChoiceOK, Chosen
<1>3. ASSUME NEW o \in asks, Answer(o)
      PROVE  ChoiceOK'
  <2>1. /\ selected' = selected
        /\ \A q \in DOMAIN picks : Chosen(q)' = Chosen(q)
    BY <1>0, <1>3 DEF Answer, Chosen, Entry
  <2>2. newContact' = WithAnswer(o)
    BY <1>3 DEF Answer
  <2>3. \A i, j \in DOMAIN newContact' : newContact'[i] = newContact'[j] => i = j
    <3>1. CASE Contains(newContact, o)
      BY <2>2, <3>1 DEF WithAnswer, ChoiceOK
    <3>2. CASE ~Contains(newContact, o)
      <4>1. newContact' = Append(newContact, o) /\ Len(newContact) \in Nat
        BY <1>0, <2>2, <3>2 DEF WithAnswer
      <4>2. \A i \in DOMAIN newContact : newContact[i] # o
        BY <3>2 DEF Contains
      <4>3. \A i, j \in DOMAIN newContact : newContact[i] = newContact[j] => i = j
        BY DEF ChoiceOK
      <4>4. /\ DOMAIN newContact' = 1 .. Len(newContact) + 1
            /\ DOMAIN newContact = 1 .. Len(newContact)
            /\ newContact'[Len(newContact) + 1] = o
            /\ \A i \in DOMAIN newContact : newContact'[i] = newContact[i]
        BY <1>0, <4>1
      <4> QED
        BY <4>1, <4>2, <4>3, <4>4
    <3> QED
      BY <3>1, <3>2
  <2> QED
    BY <1>0, <2>1, <2>3 DEF ChoiceOK
<1>4. ASSUME NEW b \in Broadcast, CastStep(b)
      PROVE  UNCHANGED picks /\ selected' \subseteq selected /\ newContact' \in {<<>>, newContact}
  BY <1>4 DEF CastStep, Create, WaitOver, AddCard, EndCreation, OpenCreated, Open, choiceVars
<1>5. ASSUME NEW t \in Text, Send(t) \/ List(t)
      PROVE  UNCHANGED <<picks, selected, newContact>>
  BY <1>5 DEF Send, List, choiceVars
<1>6. ASSUME NEW x \in stores, Store(x)
      PROVE  UNCHANGED <<picks, selected, newContact>>
  BY <1>6 DEF Store, choiceVars
<1>7. Abandon \/ Back \/ Kill \/ UNCHANGED vars =>
          UNCHANGED picks /\ selected' \subseteq selected /\ newContact' \in {<<>>, newContact}
  BY DEF Abandon, Back, Kill, vars, choiceVars
<1> QED
  BY <1>1, <1>2, <1>3, <1>4, <1>5, <1>6, <1>7 DEF Next

(* A creation that is not hurried stores and shows what was chosen.        *)
LEMMA EntriesChosen ==
    ASSUME CreationInv, NEW b \in Broadcast \ hurried, step[b] \in {"wait", "set"}, asks = {}
    PROVE  /\ Who(Entries) = chosen[b]
           /\ \A i, j \in DOMAIN Entries : Entries[i].who = Entries[j].who => i = j
<1>1. GathersChosen(b)
  BY DEF CreationInv, AloneOK
<1>2. /\ DOMAIN Entries = DOMAIN newContact
      /\ \A i \in DOMAIN newContact : Entries[i].who = Chosen(newContact[i])
  BY EntriesTyped DEF CreationInv, BaseInv, Chosen
<1>3. Gathered = {newContact[i] : i \in DOMAIN newContact}
  BY DEF Gathered
<1>4. Who(Entries) = {Chosen(o) : o \in Gathered}
  BY <1>2, <1>3 DEF Who
<1>5. \A i, j \in DOMAIN newContact : Chosen(newContact[i]) = Chosen(newContact[j]) => i = j
  BY <1>1, <1>3 DEF GathersChosen, CreationInv, ChoiceOK
<1> QED
  BY <1>1, <1>2, <1>4, <1>5 DEF GathersChosen

LEMMA AlonePreserved ==
    ASSUME CreationInv, [Next]_vars
    PROVE  AloneOK'
<1>0. /\ picks \in Seq(Entry) /\ selected \subseteq DOMAIN picks
      /\ newContact \in Seq(DOMAIN picks) /\ asks \subseteq DOMAIN picks
      /\ step \in [Broadcast -> CreateStep] /\ Gathered \subseteq DOMAIN picks
      /\ users \in [Broadcast -> Seq(Entry)] /\ chosen \in [Broadcast -> SUBSET Contact]
  BY DEF CreationInv, BaseInv, TypeOK, Gathered
<1> USE DEF CreationInv
<1>1. ASSUME NEW c \in Contact, Toggle(c)
      PROVE  AloneOK'
  <2>1. \A o \in DOMAIN picks : Chosen(o)' = Chosen(o)
    <3> DEFINE new == [who |-> c, chat |-> NoChat]
    <3>1. picks' = picks \/ picks' = Append(picks, new)
      BY <1>1 DEF Toggle
    <3>2. new \in Entry
      BY ChatFacts DEF Entry
    <3> HIDE DEF new
    <3>3. CASE picks' = Append(picks, new)
      BY <1>0, <3>2, <3>3 DEF Chosen
    <3>4. CASE picks' = picks
      BY <3>4 DEF Chosen
    <3> QED
      BY <3>1, <3>3, <3>4
  <2>2. Gathered' = Gathered
    BY <1>1 DEF Toggle, Gathered
  <2> QED
    BY <1>0, <1>1, <2>1, <2>2, AloneFrame DEF Toggle, castVars
<1>2. ASSUME UNCHANGED <<choiceVars, castVars>>
      PROVE  AloneOK'
  BY <1>2, AloneFrame DEF choiceVars, castVars, Gathered, Chosen
<1>3. CASE Abandon
  BY <1>3, AloneFrame DEF Abandon, castVars, Gathered, Chosen
<1>4. CASE Kill
  <2>1. \A b \in Broadcast : step'[b] \in {"none", "made"}
    BY <1>4, KillFacts
  <2> QED
    BY <2>1 DEF AloneOK, Creating
<1>5. ASSUME NEW o \in asks, Answer(o)
      PROVE  AloneOK'
  <2>1. \A q \in DOMAIN picks : Chosen(q)' = Chosen(q)
    BY <1>0, <1>5 DEF Answer, Chosen, Entry
  <2>2. Gathered' = Gathered
    <3>1. {newContact'[i] : i \in DOMAIN newContact'}
          = {newContact[i] : i \in DOMAIN newContact} \cup {o}
      <4>1. CASE Contains(newContact, o)
        BY <1>5, <4>1 DEF Answer, WithAnswer, Contains
      <4>2. CASE ~Contains(newContact, o)
        <5>1. newContact' = Append(newContact, o)
          BY <1>5, <4>2 DEF Answer, WithAnswer
        <5>2. /\ DOMAIN newContact' = DOMAIN newContact \cup {Len(newContact) + 1}
              /\ newContact'[Len(newContact) + 1] = o
              /\ \A i \in DOMAIN newContact : newContact'[i] = newContact[i]
          BY <1>0, <5>1
        <5> QED
          BY <5>2
      <4> QED
        BY <4>1, <4>2
    <3>2. asks' = asks \ {o}
      BY <1>5 DEF Answer
    <3> QED
      BY <3>1, <3>2 DEF Gathered
  <2> QED
    BY <1>0, <1>5, <2>1, <2>2, AloneFrame DEF Answer, castVars
<1>6. ASSUME NEW b \in Broadcast, Create(b)
      PROVE  AloneOK'
  <2>1. /\ step' = [step EXCEPT ![b] = "wait"] /\ step[b] = "none"
        /\ chosen' = [chosen EXCEPT ![b] = {picks[o].who : o \in selected}]
        /\ asks' = asks \cup selected
        /\ UNCHANGED <<picks, newContact, users>>
    BY <1>6 DEF Create
  <2>2. Creating' = Creating \cup {b} /\ b \notin Creating
    BY <1>0, <2>1 DEF Creating
  <2>3. CASE Creating # {} \/ asks # {} \/ newContact # <<>>
    <3>1. hurried' = hurried \cup Creating \cup {b}
      BY <1>6, <2>3 DEF Create
    <3>2. \A c \in Broadcast \ hurried' : c \notin Creating' /\ c # b /\ c \notin hurried
      BY <2>2, <3>1
    <3>3. \A c \in Broadcast \ hurried' : step'[c] = step[c] /\ step'[c] \notin {"wait", "set", "add"}
      BY <1>0, <2>1, <3>2 DEF Creating
    <3> QED
      BY <1>0, <2>1, <3>2, <3>3 DEF AloneOK
  <2>4. CASE Creating = {} /\ asks = {} /\ newContact = <<>>
    <3>1. hurried' = hurried /\ Creating' = {b}
      BY <1>6, <2>2, <2>4 DEF Create
    <3>2. Gathered' = selected
      BY <2>1, <2>4 DEF Gathered
    <3>3. chosen'[b] = {Chosen(o) : o \in selected}
      BY <1>0, <2>1 DEF Chosen
    <3>4. GathersChosen(b)'
      BY <2>1, <3>2, <3>3 DEF GathersChosen, ChoiceOK, Chosen
    <3>5. \A c \in Broadcast : c # b => /\ step'[c] = step[c] /\ chosen'[c] = chosen[c]
                                        /\ step'[c] \notin {"wait", "set", "add"}
      BY <1>0, <2>1, <2>4 DEF Creating
    <3>6. step'[b] = "wait"
      BY <1>0, <2>1
    <3> QED
      BY <2>1, <3>1, <3>4, <3>5, <3>6 DEF AloneOK
  <2> QED
    BY <2>3, <2>4
<1>7. ASSUME NEW b \in Broadcast, WaitOver(b)
      PROVE  AloneOK'
  <2>1. /\ step[b] = "wait" /\ step' = [step EXCEPT ![b] = "set"]
        /\ users' = [users EXCEPT ![b] = Entries]
        /\ UNCHANGED <<chosen, picks, newContact, asks>>
        /\ hurried \subseteq hurried' /\ (asks # {} => b \in hurried')
    BY <1>7 DEF WaitOver, choiceVars
  <2>2. Creating' = Creating
    BY <1>0, <2>1 DEF Creating
  <2>3. \A c \in Broadcast : GathersChosen(c)' = GathersChosen(c)
    BY <2>1 DEF GathersChosen, Gathered, Chosen
  <2>4. b \notin hurried' => asks = {} /\ Who(Entries) = chosen[b]
    BY <2>1, EntriesChosen
  <2>5. \A c \in Broadcast : c # b => step'[c] = step[c] /\ users'[c] = users[c]
    BY <1>0, <2>1
  <2>6. step'[b] = "set" /\ users'[b] = Entries
    BY <1>0, <2>1
  <2> QED
    BY <2>1, <2>2, <2>3, <2>4, <2>5, <2>6 DEF AloneOK
<1>8. ASSUME NEW b \in Broadcast, AddCard(b)
      PROVE  AloneOK'
  <2>1. /\ step[b] = "set" /\ step' = [step EXCEPT ![b] = "add"]
        /\ UNCHANGED <<chosen, picks, newContact, asks, users, hurried>>
    BY <1>8 DEF AddCard, choiceVars
  <2>2. Creating' = Creating
    BY <1>0, <2>1 DEF Creating
  <2>3. \A c \in Broadcast : GathersChosen(c)' = GathersChosen(c)
    BY <2>1 DEF GathersChosen, Gathered, Chosen
  <2> QED
    BY <1>0, <2>1, <2>2, <2>3 DEF AloneOK
<1>9. ASSUME NEW b \in Broadcast, EndCreation(b)
      PROVE  AloneOK'
  <2>1. /\ step[b] = "add" /\ step' = [step EXCEPT ![b] = "open"]
        /\ UNCHANGED <<chosen, asks, users, hurried>>
    BY <1>9 DEF EndCreation
  <2>2. Creating' = Creating \ {b} /\ b \in Creating
    BY <1>0, <2>1 DEF Creating
  <2>3. \A c \in Broadcast \ hurried : c \notin Creating'
    BY <2>2 DEF AloneOK
  <2>4. \A c \in Broadcast \ hurried : step'[c] \notin {"wait", "set", "add"}
    BY <2>3 DEF Creating
  <2> QED
    BY <1>0, <2>1, <2>3, <2>4 DEF AloneOK
<1>10. ASSUME NEW b \in Broadcast, OpenCreated(b)
       PROVE  AloneOK'
  <2>1. /\ step[b] = "open" /\ step' = [step EXCEPT ![b] = "made"]
        /\ UNCHANGED <<choiceVars, users, chosen, hurried>>
    BY <1>10 DEF OpenCreated
  <2>2. Creating' = Creating
    BY <1>0, <2>1 DEF Creating
  <2>3. \A c \in Broadcast : GathersChosen(c)' = GathersChosen(c)
    BY <2>1 DEF GathersChosen, Gathered, Chosen, choiceVars
  <2> QED
    BY <1>0, <2>1, <2>2, <2>3 DEF AloneOK, choiceVars
<1>11. ASSUME NEW b \in Broadcast, Open(b)
       PROVE  UNCHANGED <<choiceVars, castVars>>
  BY <1>11 DEF Open
<1>12. ASSUME NEW t \in Text, Send(t) \/ List(t)
       PROVE  UNCHANGED <<choiceVars, castVars>>
  BY <1>12 DEF Send, List
<1>13. ASSUME NEW x \in stores, Store(x)
       PROVE  UNCHANGED <<choiceVars, castVars>>
  BY <1>13 DEF Store
<1>14. Back \/ UNCHANGED vars => UNCHANGED <<choiceVars, castVars>>
  BY DEF Back, vars
<1> QED
  BY <1>1, <1>2, <1>3, <1>4, <1>5, <1>6, <1>7, <1>8, <1>9, <1>10, <1>11, <1>12, <1>13,
     <1>14 DEF Next, CastStep

(* A creation that nothing hurries is alone and gathers what was chosen.   *)
THEOREM CreationHolds == Spec => []CreationInv
<1>1. Init => ChoiceOK /\ AloneOK
  BY DEF Init, ChoiceOK, AloneOK, Creating
<1>2. CreationInv /\ BaseInv' /\ [Next]_vars => CreationInv'
  BY ChoicePreserved, AlonePreserved DEF CreationInv
<1> QED
  BY <1>1, <1>2, BaseHolds, PTL DEF Spec, CreationInv
-----------------------------------------------------------------------------
(* What lists name: exactly the contacts chosen.                           *)

(* The parts of BaseInv the steps below use.                               *)
LEMMA BaseTypes ==
    ASSUME BaseInv
    PROVE  /\ card \in [Broadcast -> Seq(Entry) \cup {NoCard}]
           /\ chosen \in [Broadcast -> SUBSET Contact]
           /\ step \in [Broadcast -> CreateStep]
           /\ \A p \in DOMAIN pages :
                  /\ pages[p] \in Page /\ pages[p].cast \in Broadcast
                  /\ pages[p].data \in Seq(Entry) /\ pages[p].new \in Seq(Nat)
           /\ \A b \in Broadcast : card[b] # NoCard => card[b] \in Seq(Entry)
<1>1. ASSUME NEW p \in DOMAIN pages
      PROVE  pages[p] \in Page
  BY DEF BaseInv, TypeOK
<1>2. \A p \in DOMAIN pages : /\ pages[p] \in Page /\ pages[p].cast \in Broadcast
                              /\ pages[p].data \in Seq(Entry) /\ pages[p].new \in Seq(Nat)
  BY <1>1 DEF Page
<1> QED
  BY <1>2 DEF BaseInv, TypeOK

(* newpData only gets longer.                                              *)
LEMMA NewGrows ==
    ASSUME BaseInv, [Next]_vars, NEW p \in DOMAIN pages, NEW k \in DOMAIN pages[p].new
    PROVE  k \in DOMAIN pages'[p].new /\ pages'[p].new[k] = pages[p].new[k]
<1>0. pages[p].new \in Seq(Nat)
  BY BaseTypes
<1>1. ASSUME NEW t \in Text, Send(t)
      PROVE  k \in DOMAIN pages'[p].new /\ pages'[p].new[k] = pages[p].new[k]
  <2>1. CASE p = page
    <3>1. PICK first : /\ first \in Seq(DOMAIN pages[p].data)
                       /\ pages'[p].new = pages[p].new \o first
      BY <1>1, <2>1, SendFacts DEF BaseInv
    <3> DEFINE D == DOMAIN pages[p].data
               old == pages[p].new
    <3>2. first \in Seq(D) /\ old \in Seq(Nat) /\ k \in DOMAIN old
      BY <1>0, <3>1
    <3> HIDE DEF D, old
    <3>3. k \in DOMAIN (old \o first) /\ (old \o first)[k] = old[k]
      BY <3>2
    <3> QED
      BY <3>1, <3>3 DEF old
  <2>2. CASE p # page
    BY <1>1, <2>2, SendFacts DEF BaseInv
  <2> QED
    BY <2>1, <2>2
<1>2. ASSUME NEW x \in stores, Store(x)
      PROVE  k \in DOMAIN pages'[p].new /\ pages'[p].new[k] = pages[p].new[k]
  <2>1. x.known \in BOOLEAN /\ x.at \in Nat
    BY DeliveryFacts
  <2>2. CASE ~x.known /\ p = sends[x.text].page
    <3> DEFINE old == pages[p].new
    <3>1. pages'[p].new = Append(old, x.at)
      BY <1>2, <2>2, StoreFacts
    <3>2. old \in Seq(Nat) /\ k \in DOMAIN old
      BY <1>0
    <3> HIDE DEF old
    <3>3. k \in DOMAIN Append(old, x.at) /\ Append(old, x.at)[k] = old[k]
      BY <2>1, <3>2
    <3> QED
      BY <3>1, <3>3 DEF old
  <2>3. CASE x.known \/ p # sends[x.text].page
    BY <1>2, <2>3, StoreFacts
  <2> QED
    BY <2>1, <2>2, <2>3
<1>3. ASSUME NEW b \in Broadcast, card[b] # NoCard, Push(b)
      PROVE  pages'[p] = pages[p]
  BY <1>3, PushFacts DEF BaseInv
<1>4. ASSUME NEW t \in Text, List(t)
      PROVE  pages'[p] = pages[p]
  BY <1>4 DEF List
<1>5. Kill \/ UNCHANGED <<pages, sendVars, reopened, kills>> => pages'[p] = pages[p]
  BY DEF Kill
<1> QED
  BY <1>1, <1>2, <1>3, <1>4, <1>5, SendingSteps

LEMMA PlacesListedPreserved ==
    ASSUME BaseInv, PlacesListed, [Next]_vars
    PROVE  PlacesListed'
<1>1. SUFFICES ASSUME NEW t \in Text, sends'[t].step = "wait", NEW i \in DOMAIN Addressed(t)'
               PROVE  \/ \E k \in DOMAIN SentOn(t)'.new : SentOn(t)'.new[k] = i
                      \/ \E x \in stores' : x.text = t /\ x.at = i /\ ~x.known
  BY DEF PlacesListed
<1>2. ~Kill
  BY <1>1, KillFacts
<1>3. CASE IsSent(t)
  <2> DEFINE p == sends[t].page
  <2>1. sends[t].step = "wait"
    <3>1. ASSUME NEW s \in Text, Send(s)
          PROVE  sends[t].step = "wait"
      BY <1>1, <1>3, <3>1, SendFacts DEF BaseInv, IsSent
    <3>2. ASSUME NEW s \in Text, List(s)
          PROVE  sends[t].step = "wait"
      BY <1>1, <3>2, ListFacts
    <3>3. ASSUME NEW x \in stores, Store(x)
          PROVE  sends[t].step = "wait"
      BY <1>1, <3>3 DEF Store
    <3> QED
      BY <1>1, <1>2, <3>1, <3>2, <3>3, SendingSteps DEF sendVars
  <2>2. p \in DOMAIN pages /\ SentOn(t) = pages[p] /\ SentOn(t)' = pages'[p]
    BY <1>3, AddressedStays DEF SentOn
  <2>3. i \in DOMAIN Addressed(t)
    BY <1>1, <1>3, AddressedStays
  <2>4. CASE \E k \in DOMAIN SentOn(t).new : SentOn(t).new[k] = i
    BY <2>2, <2>4, NewGrows
  <2>5. CASE \E x \in stores : x.text = t /\ x.at = i /\ ~x.known
    <3>1. PICK x \in stores : x.text = t /\ x.at = i /\ ~x.known
      BY <2>5
    <3>2. CASE x \notin stores'
      <4>1. ASSUME NEW s \in Text, Send(s) \/ List(s)
            PROVE  FALSE
        BY <3>2, <4>1 DEF Send, List
      <4>2. ASSUME NEW y \in stores, Store(y)
            PROVE  Store(x)
        BY <3>2, <4>2 DEF Store
      <4>3. Store(x)
        BY <1>2, <3>2, <4>1, <4>2, SendingSteps DEF sendVars
      <4> DEFINE old == pages[p].new
      <4>4. pages'[p].new = Append(old, i)
        BY <3>1, <4>3, StoreFacts
      <4>5. old \in Seq(Nat) /\ i \in Nat
        BY <2>2, <3>1, BaseTypes, DeliveryFacts
      <4> HIDE DEF old
      <4>6. Len(old) + 1 \in DOMAIN Append(old, i) /\ Append(old, i)[Len(old) + 1] = i
        BY <4>5
      <4> QED
        BY <2>2, <4>4, <4>6
    <3> QED
      BY <3>1, <3>2
  <2> QED
    BY <2>1, <2>3, <2>4, <2>5 DEF PlacesListed
<1>4. CASE ~IsSent(t)
  <2> DEFINE list == pages[page].data
             x == [text |-> t, at |-> i, known |-> list[i].chat # NoChat,
                   chat |-> ChatUsed(t, list, i)]
  <2>1. IsSent(t)'
    BY <1>1, PlacesPreserved DEF PlacesOK, IsSent
  <2>2. Send(t) /\ Addressed(t)' = Named(t, list) /\ sends'[t].page = page
    BY <1>4, <2>1, NewlySent
  <2>3. i \in DOMAIN list
    BY <1>1, <2>2, SendFacts, NamedFacts DEF BaseInv
  <2>4. CASE list[i].chat = NoChat
    <3>1. x \in stores'
      BY <2>2, <2>3 DEF Send
    <3> HIDE DEF list
    <3>2. x.text = t /\ x.at = i /\ ~x.known
      BY <2>4
    <3> QED
      BY <3>1, <3>2
  <2>5. CASE list[i].chat # NoChat
    <3> DEFINE old == pages[page].new
               D == DOMAIN list
    <3>1. PICK first \in ListedFirst(list) : first \in Seq(D) /\ pages'[page].new = old \o first
      BY <2>2, SendFacts DEF BaseInv
    <3>2. PICK j \in DOMAIN first : first[j] = i
      BY <2>3, <2>5, <3>1 DEF ListedFirst, InOrder, Known
    <3>3. old \in Seq(Nat)
      BY <2>2, SendFacts, BaseTypes DEF BaseInv
    <3> HIDE DEF old, D
    <3>4. Len(old) + j \in DOMAIN (old \o first) /\ (old \o first)[Len(old) + j] = i
      BY <3>1, <3>2, <3>3
    <3>5. SentOn(t)' = pages'[page]
      BY <2>2 DEF SentOn
    <3> QED
      BY <3>1, <3>4, <3>5
  <2> QED
    BY <2>4, <2>5
<1> QED
  BY <1>3, <1>4

(* Lists stay as they are for broadcasts whose card does not change.       *)
LEMMA ListsFrame ==
    ASSUME BaseInv, ListsOK, NEW b \in Broadcast \ (hurried \cup slow),
           card'[b] = card[b], chosen'[b] = chosen[b],
           \A p \in DOMAIN pages' :
               \/ p \in DOMAIN pages /\ pages'[p].cast = pages[p].cast
                  /\ Who(pages'[p].data) = Who(pages[p].data)
               \/ card[b] # NoCard /\ pages'[p].data = card[b]
               \/ pages'[p].cast # b
    PROVE  /\ card'[b] # NoCard => Who(card'[b]) = chosen'[b]
           /\ \A p \in DOMAIN pages' : pages'[p].cast = b => Who(pages'[p].data) = chosen'[b]
BY DEF ListsOK

LEMMA ListsPreserved ==
    ASSUME ListInv, BaseInv', [Next]_vars
    PROVE  ListsOK'
<1>0. /\ card \in [Broadcast -> Seq(Entry) \cup {NoCard}]
      /\ chosen \in [Broadcast -> SUBSET Contact]
  BY BaseTypes DEF ListInv, CreationInv
<1> USE DEF ListInv, CreationInv
<1>1. hurried \cup slow \subseteq hurried' \cup slow'
  <2>1. ASSUME NEW b \in Broadcast, CastStep(b)
        PROVE  hurried \cup slow \subseteq hurried' \cup slow'
    BY <2>1 DEF CastStep, Create, WaitOver, AddCard, EndCreation, OpenCreated, Open, castVars
  <2>2. ASSUME NEW t \in Text, Send(t) \/ List(t)
        PROVE  hurried \cup slow \subseteq hurried' \cup slow'
    BY <2>2 DEF Send, List, castVars
  <2>3. ASSUME NEW x \in stores, Store(x)
        PROVE  hurried \cup slow \subseteq hurried' \cup slow'
    BY <2>3 DEF Store, castVars
  <2>4. ASSUME NEW o \in asks, Answer(o)
        PROVE  hurried \cup slow \subseteq hurried' \cup slow'
    BY <2>4 DEF Answer, castVars
  <2>5. ASSUME NEW c \in Contact, Toggle(c)
        PROVE  hurried \cup slow \subseteq hurried' \cup slow'
    BY <2>5 DEF Toggle, castVars
  <2>6. Abandon \/ Back \/ Kill \/ UNCHANGED vars
        => hurried \cup slow \subseteq hurried' \cup slow'
    BY DEF Abandon, Back, Kill, vars, castVars
  <2> QED
    BY <2>1, <2>2, <2>3, <2>4, <2>5, <2>6 DEF Next
<1>2. SUFFICES ASSUME NEW b \in Broadcast \ (hurried' \cup slow')
               PROVE  /\ card'[b] # NoCard => Who(card'[b]) = chosen'[b]
                      /\ \A p \in DOMAIN pages' :
                             pages'[p].cast = b => Who(pages'[p].data) = chosen'[b]
  BY DEF ListsOK
<1>3. b \in Broadcast \ (hurried \cup slow)
  BY <1>1, <1>2
<1> DEFINE Goal == /\ card'[b] # NoCard => Who(card'[b]) = chosen'[b]
                   /\ \A p \in DOMAIN pages' :
                          pages'[p].cast = b => Who(pages'[p].data) = chosen'[b]
<1>4. UNCHANGED <<card, chosen, pages>> => Goal
  BY <1>3, ListsFrame
<1>5. ASSUME NEW c \in Contact, Toggle(c)
      PROVE  Goal
  BY <1>4, <1>5 DEF Toggle, castVars
<1>6. ASSUME NEW o \in asks, Answer(o)
      PROVE  Goal
  BY <1>4, <1>6 DEF Answer, castVars
<1>7. ASSUME NEW c \in Broadcast, Create(c)
      PROVE  Goal
  <2>1. /\ UNCHANGED <<card, pages>> /\ step[c] = "none"
        /\ chosen' = [chosen EXCEPT ![c] = {picks[o].who : o \in selected}]
    BY <1>7 DEF Create
  <2>2. CASE b = c
    BY <1>3, <2>1, <2>2 DEF BaseInv, CastsOK
  <2>3. CASE b # c
    <3>1. chosen'[b] = chosen[b]
      BY <1>0, <2>1, <2>3
    <3> QED
      BY <1>3, <2>1, <3>1, ListsFrame
  <2> QED
    BY <2>2, <2>3
<1>8. ASSUME NEW c \in Broadcast, WaitOver(c) \/ EndCreation(c)
      PROVE  Goal
  BY <1>4, <1>8 DEF WaitOver, EndCreation
<1>9. ASSUME NEW c \in Broadcast, AddCard(c)
      PROVE  Goal
  <2>1. UNCHANGED <<pages, chosen>> /\ card' = [card EXCEPT ![c] = Entries] /\ step[c] = "set"
    BY <1>9 DEF AddCard
  <2>2. CASE b = c
    <3>1. Who(Entries) = chosen[b]
      BY <1>3, <2>1, <2>2, EntriesChosen DEF AloneOK
    <3>2. card'[b] = Entries
      BY <1>0, <2>1, <2>2
    <3>3. \A p \in DOMAIN pages' : pages'[p].cast # b
      BY <1>3, <2>1, <2>2 DEF BaseInv, CastsOK
    <3> QED
      BY <2>1, <3>1, <3>2, <3>3
  <2>3. CASE b # c
    <3>1. card'[b] = card[b]
      BY <1>0, <2>1, <2>3
    <3> QED
      BY <1>3, <2>1, <3>1, ListsFrame
  <2> QED
    BY <2>2, <2>3
<1>10. ASSUME NEW c \in Broadcast, card[c] # NoCard, Push(c), UNCHANGED <<card, chosen>>
       PROVE  Goal
  <2>1. \A p \in DOMAIN pages' : \/ p \in DOMAIN pages /\ pages'[p] = pages[p]
                                 \/ pages'[p].cast = c /\ pages'[p].data = card[c]
    BY <1>10, PushFacts DEF BaseInv
  <2> QED
    BY <1>3, <1>10, <2>1, ListsFrame
<1>11. ASSUME NEW c \in Broadcast, OpenCreated(c)
       PROVE  Goal
  <2>1. card[c] # NoCard /\ UNCHANGED <<card, chosen>>
    BY <1>11 DEF OpenCreated, BaseInv, CastsOK
  <2> QED
    BY <1>4, <1>10, <1>11, <2>1 DEF OpenCreated
<1>12. ASSUME NEW c \in Broadcast, Open(c)
       PROVE  Goal
  BY <1>10, <1>12 DEF Open, castVars
<1>13. ASSUME NEW t \in Text, Send(t)
       PROVE  Goal
  <2>1. UNCHANGED <<card, chosen>> /\ DOMAIN pages' = DOMAIN pages
    BY <1>13, SendFacts DEF Send, castVars, BaseInv
  <2>2. \A p \in DOMAIN pages : /\ pages'[p].cast = pages[p].cast
                                /\ Who(pages'[p].data) = Who(pages[p].data)
    BY PagesGrow DEF Who
  <2> QED
    BY <1>3, <2>1, <2>2, ListsFrame
<1>14. ASSUME NEW x \in stores, Store(x)
       PROVE  Goal
  <2>1. UNCHANGED <<card, chosen>>
    BY <1>14 DEF Store, castVars
  <2> QED
    BY <1>3, <1>14, <2>1, StoreFacts, ListsFrame
<1>15. ASSUME NEW t \in Text, List(t)
       PROVE  Goal
  <2>1. UNCHANGED <<pages, chosen>> /\ sends[t].step = "wait"
    BY <1>15 DEF List, castVars
  <2>2. CASE b = SentOn(t).cast
    <3> DEFINE p == SentOn(t)
    <3>1. b \in slow' \/ \A x \in stores : x.text = t => x.known
      BY <1>15, <2>2 DEF List, SentOn
    <3>2. \A i \in DOMAIN p.data : \E k \in DOMAIN p.new : p.new[k] = i
      BY <1>2, <2>1, <3>1 DEF PlacesListed, Addressed
    <3>3. /\ DOMAIN card'[b] = DOMAIN p.new
          /\ \A k \in DOMAIN p.new : p.new[k] \in DOMAIN p.data /\ card'[b][k] = p.data[p.new[k]]
      BY <1>15, <2>2, ListFacts
    <3>4. Who(card'[b]) = Who(p.data)
      BY <3>2, <3>3 DEF Who
    <3>5. Who(p.data) = chosen[b]
      BY <1>3, <1>15, <2>2, ListFacts DEF ListsOK, SentOn
    <3> QED
      BY <1>3, <2>1, <3>4, <3>5 DEF ListsOK
  <2>3. CASE b # SentOn(t).cast
    <3>1. card'[b] = card[b]
      BY <1>3, <1>15, <2>3, ListFacts
    <3> QED
      BY <1>3, <2>1, <3>1, ListsFrame
  <2> QED
    BY <2>2, <2>3
<1>16. Abandon \/ Back \/ Kill \/ UNCHANGED vars => Goal
  BY <1>4 DEF Abandon, Back, Kill, vars, castVars
<1> QED
  BY <1>5, <1>6, <1>7, <1>8, <1>9, <1>11, <1>12, <1>13, <1>14, <1>15, <1>16
     DEF Next, CastStep

LEMMA ListsHold == Spec => []ListInv
<1>1. Init => ListsOK /\ PlacesListed
  BY DEF Init, ListsOK, PlacesListed
<1>2. ListInv /\ CreationInv' /\ [Next]_vars => ListInv'
  BY ListsPreserved, PlacesListedPreserved DEF ListInv, CreationInv
<1> QED
  BY <1>1, <1>2, CreationHolds, PTL DEF Spec, ListInv

(* The document and the card of a broadcast list exactly the contacts that *)
(* were chosen for it, unless a wait was too short (createBroadCast,       *)
(* onSendMessage).                                                         *)
THEOREM ListsAreChosen == Spec => []ListIsChosen
<1>1. ListInv => ListIsChosen
  BY DEF ListInv, CreationInv, AloneOK, ListsOK, ListIsChosen
<1> QED
  BY <1>1, ListsHold, PTL
-----------------------------------------------------------------------------
(* How often a list names a member.                                        *)

(* What was sent twice from a page stays so.                               *)
LEMMA TwiceStays ==
    ASSUME BaseInv, [Next]_vars, NEW b \in Broadcast, SentTwice(b)
    PROVE  SentTwice(b)'
<1>1. PICK t \in Text, s \in Text :
          /\ t # s /\ sends[t].page = sends[s].page
          /\ sends[t].page # 0 /\ pages[sends[t].page].cast = b
  BY DEF SentTwice
<1>2. /\ sends'[t].page = sends[t].page /\ sends'[s].page = sends[s].page
      /\ pages'[sends[t].page].cast = b
  BY <1>1, AddressedStays DEF IsSent, SentOn
<1> QED
  BY <1>1, <1>2 DEF SentTwice

LEMMA HurriedStays ==
    ASSUME [Next]_vars
    PROVE  hurried \subseteq hurried' /\ reopened \subseteq reopened'
<1>1. ASSUME NEW b \in Broadcast, CastStep(b)
      PROVE  hurried \subseteq hurried' /\ reopened \subseteq reopened'
  BY <1>1 DEF CastStep, Create, WaitOver, AddCard, EndCreation, OpenCreated, Open, Push, castVars
<1>2. ASSUME NEW t \in Text, Send(t) \/ List(t)
      PROVE  hurried \subseteq hurried' /\ reopened \subseteq reopened'
  BY <1>2 DEF Send, List, castVars
<1>3. ASSUME NEW x \in stores, Store(x)
      PROVE  hurried \subseteq hurried' /\ reopened \subseteq reopened'
  BY <1>3 DEF Store, castVars
<1>4. ASSUME NEW o \in asks, Answer(o)
      PROVE  hurried \subseteq hurried' /\ reopened \subseteq reopened'
  BY <1>4 DEF Answer, castVars
<1>5. ASSUME NEW c \in Contact, Toggle(c)
      PROVE  hurried \subseteq hurried' /\ reopened \subseteq reopened'
  BY <1>5 DEF Toggle, castVars
<1>6. Abandon \/ Back \/ Kill \/ UNCHANGED vars
      => hurried \subseteq hurried' /\ reopened \subseteq reopened'
  BY DEF Abandon, Back, Kill, vars, castVars
<1> QED
  BY <1>1, <1>2, <1>3, <1>4, <1>5, <1>6 DEF Next

(* The steps the cards take part in.                                       *)
LEMMA CardSteps ==
    ASSUME BaseInv, [Next]_vars
    PROVE  \/ \E b \in Broadcast : AddCard(b)
           \/ \E t \in Text : List(t)
           \/ card' = card
<1>1. ASSUME NEW b \in Broadcast, CastStep(b), ~AddCard(b)
      PROVE  card' = card
  BY <1>1 DEF CastStep, Create, WaitOver, EndCreation, OpenCreated, Open
<1>2. ASSUME NEW t \in Text, Send(t)
      PROVE  card' = card
  BY <1>2 DEF Send
<1>3. ASSUME NEW x \in stores, Store(x)
      PROVE  card' = card
  BY <1>3 DEF Store
<1>4. ASSUME NEW o \in asks, Answer(o)
      PROVE  card' = card
  BY <1>4 DEF Answer
<1>5. ASSUME NEW c \in Contact, Toggle(c)
      PROVE  card' = card
  BY <1>5 DEF Toggle
<1>6. Abandon \/ Back \/ Kill \/ UNCHANGED vars => card' = card
  BY DEF Abandon, Back, Kill, vars
<1> QED
  BY <1>1, <1>2, <1>3, <1>4, <1>5, <1>6 DEF Next

(* A list with the same members in the same places is as distinct.         *)
LEMMA SameDistinct ==
    ASSUME NEW list, NEW other, Distinct(list), DOMAIN other = DOMAIN list,
           \A i \in DOMAIN list : other[i].who = list[i].who
    PROVE  Distinct(other)
BY DEF Distinct

(* A page's list is an earlier one, or that of the card.                   *)
LEMMA PageSources ==
    ASSUME BaseInv, [Next]_vars, NEW p \in DOMAIN pages'
    PROVE  \/ p \in DOMAIN pages
           \/ /\ pages'[p].cast \in Broadcast /\ card[pages'[p].cast] # NoCard
              /\ pages'[p].data = card[pages'[p].cast]
              /\ pages'[p].new = <<>>
              /\ Push(pages'[p].cast) /\ p = page'
              /\ UNCHANGED <<card, sendVars, kills>>
<1>1. ASSUME NEW b \in Broadcast, card[b] # NoCard, Push(b), UNCHANGED <<card, sendVars, kills>>,
             p \notin DOMAIN pages
      PROVE  /\ pages'[p].cast = b /\ pages'[p].data = card[b] /\ pages'[p].new = <<>>
             /\ p = page'
  BY <1>1, PushFacts DEF BaseInv
<1>2. ASSUME NEW t \in Text, Send(t) \/ List(t)
      PROVE  DOMAIN pages' = DOMAIN pages
  BY <1>2, SendFacts DEF List, BaseInv
<1>3. ASSUME NEW x \in stores, Store(x)
      PROVE  DOMAIN pages' = DOMAIN pages
  BY <1>3, StoreFacts
<1>4. Kill \/ UNCHANGED <<pages, sendVars, reopened, kills>> => pages' = pages
  BY DEF Kill
<1> QED
  BY <1>1, <1>2, <1>3, <1>4, SendingSteps

LEMMA DistinctPreserved ==
    ASSUME TwiceInv, [Next]_vars
    PROVE  DistinctOK'
<1> USE DEF TwiceInv, CreationInv
<1>0. card \in [Broadcast -> Seq(Entry) \cup {NoCard}]
  BY BaseTypes
<1>1. SUFFICES ASSUME NEW b \in Broadcast \ hurried', ~SentTwice(b)'
               PROVE  /\ card'[b] # NoCard => Distinct(card'[b])
                      /\ \A p \in DOMAIN pages' : pages'[p].cast = b => Distinct(pages'[p].data)
  BY DEF DistinctOK
<1>2. b \in Broadcast \ hurried /\ ~SentTwice(b)
  BY <1>1, HurriedStays, TwiceStays
<1>3. /\ card[b] # NoCard => Distinct(card[b])
      /\ \A p \in DOMAIN pages : pages[p].cast = b => Distinct(pages[p].data)
  BY <1>2 DEF DistinctOK
<1>4. \A p \in DOMAIN pages' : pages'[p].cast = b => Distinct(pages'[p].data)
  <2>1. ASSUME NEW p \in DOMAIN pages, pages'[p].cast = b
        PROVE  Distinct(pages'[p].data)
    BY <1>3, <2>1, PagesGrow, SameDistinct
  <2> QED
    BY <1>3, <2>1, PageSources
<1>5. card'[b] # NoCard => Distinct(card'[b])
  <2>1. ASSUME NEW c \in Broadcast, AddCard(c), b # c
        PROVE  card'[b] = card[b]
    BY <1>0, <2>1 DEF AddCard
  <2>2. ASSUME AddCard(b)
        PROVE  Distinct(card'[b])
    <3>1. card'[b] = Entries /\ step[b] = "set"
      BY <1>0, <2>2 DEF AddCard
    <3> QED
      BY <1>2, <3>1, EntriesChosen DEF AloneOK, Distinct
  <2>3. ASSUME NEW t \in Text, List(t), b # SentOn(t).cast
        PROVE  card'[b] = card[b]
    BY <2>3, ListFacts
  <2>4. ASSUME NEW t \in Text, List(t), b = SentOn(t).cast
        PROVE  Distinct(card'[b])
    <3> DEFINE p == SentOn(t)
    <3>1. /\ IsSent(t) /\ sends[t].page \in DOMAIN pages
          /\ DOMAIN card'[b] = DOMAIN p.new
          /\ \A k \in DOMAIN p.new : p.new[k] \in DOMAIN p.data /\ card'[b][k] = p.data[p.new[k]]
      BY <2>4, ListFacts
    <3>2. Distinct(p.data)
      BY <1>3, <2>4, <3>1 DEF SentOn
    <3>3. \A s \in Text : sends[s].page = sends[t].page => s = t
      BY <1>2, <2>4, <3>1 DEF SentTwice, IsSent, SentOn
    <3>4. \A j, k \in DOMAIN p.new : p.new[j] = p.new[k] => j = k
      BY <3>1, <3>3 DEF OncePerPlace
    <3> QED
      BY <3>1, <3>2, <3>4 DEF Distinct
  <2> QED
    BY <1>3, <2>1, <2>2, <2>3, <2>4, CardSteps
<1> QED
  BY <1>4, <1>5

(* No two messages on their way have the same text and place.              *)
LEMMA StoresUnique ==
    ASSUME BaseInv, OncePerPlace, [Next]_vars
    PROVE  \A x, y \in stores' : x.text = y.text /\ x.at = y.at => x = y
<1>1. \A x, y \in stores : x.text = y.text /\ x.at = y.at => x = y
  BY DEF OncePerPlace
<1>2. ASSUME NEW t \in Text, Send(t)
      PROVE  \A x, y \in stores' : x.text = y.text /\ x.at = y.at => x = y
  <2> DEFINE list == pages[page].data
             msg(i) == [text |-> t, at |-> i, known |-> list[i].chat # NoChat,
                        chat |-> ChatUsed(t, list, i)]
  <2>1. stores' = stores \cup {msg(i) : i \in DOMAIN list}
    BY <1>2 DEF Send
  <2>2. \A x \in stores : x.text # t
    BY <1>2, SendFacts, DeliveryFacts DEF BaseInv, IsSent
  <2>3. \A i \in DOMAIN list : msg(i).text = t /\ msg(i).at = i
    OBVIOUS
  <2> HIDE DEF msg
  <2> QED
    BY <1>1, <2>1, <2>2, <2>3
<1>3. ASSUME NEW t \in Text, List(t)
      PROVE  stores' = stores
  BY <1>3 DEF List
<1>4. ASSUME NEW x \in stores, Store(x)
      PROVE  stores' \subseteq stores
  BY <1>4 DEF Store
<1>5. Kill => stores' = {}
  BY DEF Kill
<1> QED
  BY <1>1, <1>2, <1>3, <1>4, <1>5, SendingSteps DEF sendVars

(* A page from which nothing was sent has listed nobody.                   *)
LEMMA UnsentLists ==
    ASSUME BaseInv, OncePerPlace, [Next]_vars,
           NEW p \in DOMAIN pages', \A t \in Text : sends'[t].page # p
    PROVE  pages'[p].new = <<>>
<1>1. CASE p \notin DOMAIN pages
  BY <1>1, PageSources
<1>2. CASE p \in DOMAIN pages
  <2>1. \A t \in Text : sends[t].page # p
    <3>1. \A t \in Text : IsSent(t) => sends'[t].page = sends[t].page
      BY AddressedStays
    <3>2. p # 0
      BY <1>2 DEF BaseInv, TypeOK
    <3> QED
      BY <3>1, <3>2 DEF IsSent
  <2>2. pages[p].new = <<>>
    BY <1>2, <2>1 DEF OncePerPlace
  <2>3. ASSUME NEW t \in Text, Send(t)
        PROVE  pages'[p] = pages[p]
    BY <1>2, <2>3, SendFacts DEF BaseInv
  <2>4. ASSUME NEW x \in stores, Store(x)
        PROVE  pages'[p] = pages[p]
    BY <1>2, <2>1, <2>4, StoreFacts, DeliveryFacts
  <2>5. ASSUME NEW b \in Broadcast, card[b] # NoCard, Push(b)
        PROVE  pages'[p] = pages[p]
    BY <1>2, <2>5, PushFacts DEF BaseInv
  <2>6. ASSUME NEW t \in Text, List(t)
        PROVE  pages' = pages
    BY <2>6 DEF List
  <2>7. Kill => pages' = pages
    BY DEF Kill
  <2> QED
    BY <2>2, <2>3, <2>4, <2>5, <2>6, <2>7, SendingSteps
<1> QED
  BY <1>1, <1>2

(* The places of a page with one message are listed once.                  *)
Once(t) ==
    /\ \A j, k \in DOMAIN SentOn(t).new : SentOn(t).new[j] = SentOn(t).new[k] => j = k
    /\ \A x \in stores : x.text = t /\ ~x.known =>
           \A k \in DOMAIN SentOn(t).new : SentOn(t).new[k] # x.at

LEMMA OnceStays ==
    ASSUME BaseInv, OncePerPlace, [Next]_vars, NEW t \in Text, IsSent(t)',
           \A s \in Text : sends'[s].page = sends'[t].page => s = t
    PROVE  Once(t)'
<1> DEFINE p == sends'[t].page
<1>1. CASE ~IsSent(t)
  <2> DEFINE list == pages[page].data
             new == pages[page].new
             D == DOMAIN list
  <2>1. Send(t) /\ p = page
    BY <1>1, NewlySent
  <2>2. page \in DOMAIN pages /\ list \in Seq(Entry) /\ new \in Seq(Nat)
    BY <2>1, SendFacts, BaseTypes DEF BaseInv
  <2>3. PICK first \in ListedFirst(list) :
            first \in Seq(D) /\ pages'[page].new = new \o first
    BY <2>1, SendFacts DEF BaseInv
  <2>4. new = <<>>
    <3>1. \A s \in Text : sends[s].page # page
      <4>1. page # 0
        BY <2>1 DEF Send
      <4>2. \A s \in Text : IsSent(s) => sends'[s].page = sends[s].page
        BY AddressedStays
      <4> QED
        BY <1>1, <2>1, <4>1, <4>2 DEF IsSent
    <3> QED
      BY <2>2, <3>1 DEF OncePerPlace
  <2>5. pages'[page].new = first
    <3> HIDE DEF D
    <3> QED
      BY <2>3, <2>4
  <2>6. /\ \A j \in DOMAIN first : first[j] \in Known(list)
        /\ \A j, k \in DOMAIN first : first[j] = first[k] => j = k
    <3>1. Len(list) \in Nat /\ Known(list) \in SUBSET (1 .. Len(list))
      BY <2>2 DEF Known
    <3>2. first \in InOrder(Known(list))
      BY <2>3 DEF ListedFirst
    <3>3. /\ first \in Seq(Known(list))
          /\ \A j, k \in DOMAIN first : first[j] = first[k] => j = k
      BY <3>1, <3>2, OrderFacts
    <3> QED
      BY <3>3
  <2>7. ASSUME NEW x \in stores', x.text = t, ~x.known
        PROVE  x.at \notin Known(list)
    <3>1. x \notin stores
      BY <1>1, <2>7, DeliveryFacts
    <3>2. x.known = (list[x.at].chat # NoChat)
      BY <2>1, <3>1, IssuedFacts DEF BaseInv
    <3> QED
      BY <2>7, <3>2 DEF Known
  <2>8. SentOn(t)' = pages'[page]
    BY <2>1 DEF SentOn
  <2> HIDE DEF list
  <2> QED
    BY <2>5, <2>6, <2>7, <2>8 DEF Once
<1>2. CASE IsSent(t)
  <2>1. /\ p = sends[t].page /\ p \in DOMAIN pages /\ p # 0
        /\ SentOn(t) = pages[p] /\ SentOn(t)' = pages'[p]
    BY <1>2, AddressedStays DEF SentOn, IsSent
  <2>2. \A s \in Text : sends[s].page = p => s = t
    BY <2>1, AddressedStays DEF IsSent
  <2>3. Once(t)
    BY <1>2, <2>1, <2>2 DEF OncePerPlace, Once
  <2>4. ASSUME pages'[p] = pages[p],
               \A x \in stores' : x.text = t => x \in stores
        PROVE  Once(t)'
    BY <2>1, <2>3, <2>4 DEF Once
  <2>5. ASSUME NEW s \in Text, Send(s)
        PROVE  Once(t)'
    <3>1. sends'[s].page = page /\ s # t
      BY <1>2, <2>5, SendFacts DEF BaseInv, IsSent
    <3>2. p # page
      BY <3>1
    <3>3. pages'[p] = pages[p]
      BY <2>1, <2>5, <3>2, SendFacts DEF BaseInv
    <3>4. \A x \in stores' : x.text = t => x \in stores
      BY <2>5, <3>1, IssuedFacts DEF BaseInv
    <3> QED
      BY <2>4, <3>3, <3>4
  <2>6. ASSUME NEW x \in stores, Store(x)
        PROVE  Once(t)'
    <3>1. stores' = stores \ {x} /\ x.known \in BOOLEAN /\ x.at \in Nat /\ x.text \in Text
      BY <2>6, DeliveryFacts DEF Store
    <3>2. CASE x.text # t \/ x.known
      <4>1. pages'[p] = pages[p]
        <5>1. sends[x.text].page # p \/ x.known
          BY <2>2, <3>1, <3>2
        <5> QED
          BY <2>1, <2>6, <5>1, StoreFacts
      <4> QED
        BY <2>4, <3>1, <4>1
    <3>3. CASE x.text = t /\ ~x.known
      <4> DEFINE new == pages[p].new
      <4>1. pages'[p].new = Append(new, x.at)
        BY <2>1, <2>6, <3>3, StoreFacts
      <4>2. new \in Seq(Nat)
        BY <2>1, BaseTypes
      <4>3. /\ \A j, k \in DOMAIN new : new[j] = new[k] => j = k
            /\ \A k \in DOMAIN new : new[k] # x.at
        BY <2>1, <2>3, <3>3 DEF Once
      <4>4. ASSUME NEW y \in stores', y.text = t, ~y.known
            PROVE  /\ y.at # x.at
                   /\ \A k \in DOMAIN new : new[k] # y.at
        BY <2>1, <2>3, <3>1, <3>3, <4>4 DEF Once, OncePerPlace
      <4> HIDE DEF new
      <4>5. /\ DOMAIN Append(new, x.at) = DOMAIN new \cup {Len(new) + 1}
            /\ Len(new) + 1 \notin DOMAIN new
            /\ Append(new, x.at)[Len(new) + 1] = x.at
            /\ \A k \in DOMAIN new : Append(new, x.at)[k] = new[k]
        BY <3>1, <4>2
      <4> QED
        BY <2>1, <4>1, <4>3, <4>4, <4>5 DEF Once
    <3> QED
      BY <3>1, <3>2, <3>3
  <2>7. ASSUME NEW b \in Broadcast, card[b] # NoCard, Push(b), UNCHANGED sendVars
        PROVE  Once(t)'
    BY <2>1, <2>4, <2>7, PushFacts DEF BaseInv, sendVars
  <2>8. ASSUME NEW s \in Text, List(s)
        PROVE  Once(t)'
    BY <2>4, <2>8 DEF List
  <2>9. Kill \/ UNCHANGED <<pages, sendVars>> => Once(t)'
    BY <2>4 DEF Kill, sendVars
  <2> QED
    BY <2>5, <2>6, <2>7, <2>8, <2>9, SendingSteps DEF sendVars
<1> QED
  BY <1>1, <1>2

(* A member gets a message twice only from a broadcast with two messages   *)
(* sent from one page, or from a hurried one (onSendMessage never empties  *)
(* newpData).                                                              *)
THEOREM TwiceIsExplained == Spec => []TwiceOnlyAfterTwoSends
<1>1. Init => TwiceInv \/ ~CreationInv
  BY DEF Init, TwiceInv, DistinctOK, OncePerPlace, IsSent
<1>2. TwiceInv /\ CreationInv' /\ [Next]_vars => TwiceInv'
  <2> SUFFICES ASSUME TwiceInv, CreationInv', [Next]_vars
               PROVE  DistinctOK' /\ OncePerPlace'
    BY DEF TwiceInv
  <2>1. BaseInv /\ OncePerPlace
    BY DEF TwiceInv, CreationInv
  <2>2. OncePerPlace'
    BY <2>1, StoresUnique, UnsentLists, OnceStays DEF OncePerPlace, Once
  <2> QED
    BY <2>2, DistinctPreserved
<1>3. TwiceInv => TwiceOnlyAfterTwoSends
  <2> SUFFICES ASSUME TwiceInv, NEW r \in received, NEW q \in received,
                      r.text = q.text, r.to = q.to, r # q,
                      CastOf(r) \notin hurried
               PROVE  SentTwice(CastOf(r))
    BY DEF TwiceOnlyAfterTwoSends
  <2> DEFINE t == r.text
             p == sends[r.text].page
  <2>1. /\ t \in Text /\ IsSent(t) /\ p \in DOMAIN pages
        /\ r = [text |-> r.text, at |-> r.at, chat |-> r.chat, to |-> r.to]
        /\ q = [text |-> q.text, at |-> q.at, chat |-> q.chat, to |-> q.to]
    BY DEF TwiceInv, CreationInv, BaseInv, TypeOK, ReceivedOK, IsSent
  <2>2. /\ r.at \in DOMAIN pages[p].data /\ q.at \in DOMAIN pages[p].data
        /\ r.chat = pages[p].data[r.at].chat /\ q.chat = pages[p].data[q.at].chat
        /\ r.to = pages[p].data[r.at].who /\ q.to = pages[p].data[q.at].who
    BY DEF TwiceInv, CreationInv, BaseInv, ReceivedOK, Addressed, SentOn
  <2>3. r.at # q.at
    BY <2>1, <2>2
  <2>4. ~Distinct(pages[p].data)
    BY <2>2, <2>3 DEF Distinct
  <2>5. CastOf(r) = pages[p].cast /\ CastOf(r) \in Broadcast
    BY <2>1, BaseTypes DEF CastOf, TwiceInv, CreationInv
  <2> QED
    BY <2>1, <2>4, <2>5 DEF TwiceInv, DistinctOK
<1> QED
  BY <1>1, <1>2, <1>3, CreationHolds, PTL DEF Spec
-----------------------------------------------------------------------------
(* Which chat a member's messages go to.                                   *)

(* A chat made up says for which message and place.                        *)
LEMMA ChatsApart ==
    /\ \A c, d \in Contact : OldChat(c) = OldChat(d) => c = d
    /\ \A c \in Contact : \A t \in Text : \A i \in Nat : OldChat(c) # NewChat(t, i)
    /\ \A t, s \in Text : \A i, j \in Nat : NewChat(t, i) = NewChat(s, j) => t = s /\ i = j
BY BroadcastAssumption DEF OldChat, NewChat

(* Whose a chat is does not change.                                        *)
LEMMA OwnerStays ==
    ASSUME BaseInv, [Next]_vars, NEW chat, NEW c, ChatIsOf(chat, c)
    PROVE  ChatIsOf(chat, c)'
<1>1. CASE chat = NoChat \/ chat = OldChat(c)
  BY <1>1 DEF ChatIsOf
<1>2. CASE \E t \in Text : IsSent(t) /\ \E i \in DOMAIN Addressed(t) :
                              chat = NewChat(t, i) /\ Addressed(t)[i].who = c
  BY <1>2, AddressedStays DEF ChatIsOf
<1> QED
  BY <1>1, <1>2 DEF ChatIsOf

(* A chat is with one contact.                                             *)
LEMMA OneOwner ==
    ASSUME BaseInv, NEW chat, chat # NoChat, NEW c \in Contact, NEW d \in Contact,
           ChatIsOf(chat, c), ChatIsOf(chat, d)
    PROVE  c = d
<1>1. \A t \in Text : IsSent(t) => \A i \in DOMAIN Addressed(t) : i \in Nat
  <2> SUFFICES ASSUME NEW t \in Text, IsSent(t)
               PROVE  \A i \in DOMAIN Addressed(t) : i \in Nat
    OBVIOUS
  <2>1. sends[t].page \in DOMAIN pages
    BY DEF BaseInv, TypeOK, IsSent
  <2>2. Addressed(t) \in Seq(Entry)
    BY <2>1, BaseTypes DEF Addressed, SentOn
  <2> QED
    BY <2>2
<1> HIDE DEF OldChat, NewChat
<1> QED
  BY <1>1, ChatsApart DEF ChatIsOf

LEMMA PicksOwned ==
    ASSUME BaseInv, ChatsOwned, [Next]_vars
    PROVE  \A o \in DOMAIN picks' : picks'[o].chat \in {NoChat, OldChat(picks'[o].who)}
<1>0. picks \in Seq(Entry) /\ asks \subseteq DOMAIN picks
  BY DEF BaseInv, TypeOK
<1>1. \A o \in DOMAIN picks : picks[o].chat \in {NoChat, OldChat(picks[o].who)}
  BY DEF ChatsOwned, Chosen
<1>2. ASSUME NEW c \in Contact, Toggle(c)
      PROVE  \A o \in DOMAIN picks' : picks'[o].chat \in {NoChat, OldChat(picks'[o].who)}
  <2> DEFINE new == [who |-> c, chat |-> NoChat]
  <2>1. picks' = picks \/ picks' = Append(picks, new)
    BY <1>2 DEF Toggle
  <2>2. new \in Entry /\ new.chat = NoChat
    BY ChatFacts DEF Entry
  <2> HIDE DEF new
  <2>3. CASE picks' = Append(picks, new)
    <3>1. /\ DOMAIN picks' = DOMAIN picks \cup {Len(picks) + 1}
          /\ picks'[Len(picks) + 1] = new
          /\ \A o \in DOMAIN picks : picks'[o] = picks[o]
      BY <1>0, <2>2, <2>3
    <3> QED
      BY <1>1, <2>2, <3>1
  <2> QED
    BY <1>1, <2>1, <2>3
<1>3. ASSUME NEW o \in asks, Answer(o)
      PROVE  \A q \in DOMAIN picks' : picks'[q].chat \in {NoChat, OldChat(picks'[q].who)}
  <2> DEFINE now == [picks[o] EXCEPT !.chat = Looked(picks[o].who)]
  <2>1. picks' = [picks EXCEPT ![o] = now]
    BY <1>3 DEF Answer
  <2>2. now.chat = Looked(picks[o].who) /\ now.who = picks[o].who
    BY <1>0 DEF Entry
  <2>3. Looked(picks[o].who) \in {NoChat, OldChat(picks[o].who)}
    BY DEF Looked
  <2> HIDE DEF now
  <2> QED
    BY <1>0, <1>1, <2>1, <2>2, <2>3
<1>4. ASSUME NEW b \in Broadcast, CastStep(b)
      PROVE  picks' = picks
  BY <1>4 DEF CastStep, Create, WaitOver, AddCard, EndCreation, OpenCreated, Open, choiceVars
<1>5. ASSUME NEW t \in Text, Send(t) \/ List(t)
      PROVE  picks' = picks
  BY <1>5 DEF Send, List, choiceVars
<1>6. ASSUME NEW x \in stores, Store(x)
      PROVE  picks' = picks
  BY <1>6 DEF Store, choiceVars
<1>7. Abandon \/ Back \/ Kill \/ UNCHANGED vars => picks' = picks
  BY DEF Abandon, Back, Kill, vars, choiceVars
<1> QED
  BY <1>1, <1>2, <1>3, <1>4, <1>5, <1>6, <1>7 DEF Next

LEMMA OwnedPreserved ==
    ASSUME BaseInv, ChatsOwned, [Next]_vars
    PROVE  ChatsOwned'
<1>0. card \in [Broadcast -> Seq(Entry) \cup {NoCard}]
  BY BaseTypes
<1>1. \A o \in DOMAIN picks' : picks'[o].chat \in {NoChat, OldChat(Chosen(o)')}
  BY PicksOwned DEF Chosen
<1>2. ASSUME NEW p \in DOMAIN pages, NEW i \in DOMAIN pages[p].data,
             NEW e, e = pages[p].data[i]
      PROVE  ChatIsOf(e.chat, e.who)'
  <2>1. ChatIsOf(e.chat, e.who)
    BY <1>2 DEF ChatsOwned
  <2> QED
    BY <2>1, OwnerStays
<1>3. ASSUME NEW b \in Broadcast, card[b] # NoCard, NEW i \in DOMAIN card[b],
             NEW e, e = card[b][i]
      PROVE  ChatIsOf(e.chat, e.who)'
  <2>1. ChatIsOf(e.chat, e.who)
    BY <1>3 DEF ChatsOwned
  <2> QED
    BY <2>1, OwnerStays
<1>4. ASSUME NEW p \in DOMAIN pages', NEW i \in DOMAIN pages'[p].data,
             NEW e, e = pages'[p].data[i]
      PROVE  ChatIsOf(e.chat, e.who)'
  <2>1. CASE p \in DOMAIN pages /\ pages[p].data[i].chat # NoChat
    <3>1. i \in DOMAIN pages[p].data /\ e = pages[p].data[i]
      BY <1>4, <2>1, PagesGrow
    <3> QED
      BY <1>2, <2>1, <3>1
  <2>2. CASE p \in DOMAIN pages /\ pages[p].data[i].chat = NoChat /\ e.chat # NoChat
    <3>1. i \in DOMAIN pages[p].data
      BY <1>4, <2>2, PagesGrow
    <3>2. PICK t \in Text : Send(t) /\ p = page
      <4>1. ASSUME NEW t \in Text, Send(t), p # page
            PROVE  FALSE
        BY <1>4, <2>2, <4>1, SendFacts DEF BaseInv
      <4>2. ASSUME NEW t \in Text, List(t)
            PROVE  FALSE
        BY <1>4, <2>2, <4>2 DEF List
      <4>3. ASSUME NEW x \in stores, Store(x)
            PROVE  FALSE
        BY <1>4, <2>2, <4>3, StoreFacts
      <4>4. ASSUME NEW b \in Broadcast, card[b] # NoCard, Push(b)
            PROVE  FALSE
        BY <1>4, <2>2, <4>4, PushFacts DEF BaseInv
      <4>5. ~Kill /\ ~UNCHANGED <<pages, sendVars, reopened, kills>>
        BY <1>4, <2>2 DEF Kill
      <4> QED
        BY <4>1, <4>2, <4>3, <4>4, <4>5, SendingSteps
    <3> DEFINE list == pages[page].data
    <3>3. /\ list \in Seq(Entry) /\ pages'[page].data = Named(t, list)
          /\ sends'[t].page = page /\ page # 0
      BY <3>2, SendFacts DEF BaseInv
    <3>4. DOMAIN Named(t, list) = DOMAIN list /\ e.chat = NewChat(t, i)
      BY <1>4, <2>2, <3>1, <3>2, <3>3, NamedFacts
    <3>5. IsSent(t)' /\ Addressed(t)' = pages'[p].data
      BY <3>2, <3>3 DEF IsSent, Addressed, SentOn
    <3> QED
      BY <1>4, <3>4, <3>5 DEF ChatIsOf
  <2>3. CASE e.chat = NoChat
    BY <2>3 DEF ChatIsOf
  <2>4. CASE p \notin DOMAIN pages
    <3>1. /\ pages'[p].cast \in Broadcast /\ card[pages'[p].cast] # NoCard
          /\ pages'[p].data = card[pages'[p].cast]
      BY <2>4, PageSources
    <3> QED
      BY <1>3, <1>4, <3>1
  <2> QED
    BY <2>1, <2>2, <2>3, <2>4
<1>5. ASSUME NEW b \in Broadcast, card'[b] # NoCard, NEW i \in DOMAIN card'[b],
             NEW e, e = card'[b][i]
      PROVE  ChatIsOf(e.chat, e.who)'
  <2>1. CASE card'[b] = card[b]
    BY <1>3, <1>5, <2>1
  <2>2. ASSUME NEW c \in Broadcast, AddCard(c), card'[b] # card[b]
        PROVE  ChatIsOf(e.chat, e.who)'
    <3>1. card'[b] = Entries
      BY <1>0, <2>2 DEF AddCard
    <3>2. PICK o \in DOMAIN picks : e = picks[o]
      BY <1>5, <3>1, EntriesTyped DEF BaseInv
    <3>3. ChatIsOf(e.chat, e.who)
      BY <3>2 DEF ChatsOwned, Chosen, ChatIsOf
    <3> QED
      BY <3>3, OwnerStays
  <2>3. ASSUME NEW t \in Text, List(t), card'[b] # card[b]
        PROVE  ChatIsOf(e.chat, e.who)'
    <3> DEFINE p == SentOn(t)
    <3>1. /\ b = p.cast /\ sends[t].page \in DOMAIN pages
          /\ DOMAIN card'[p.cast] = DOMAIN p.new
          /\ \A k \in DOMAIN p.new : /\ p.new[k] \in DOMAIN p.data
                                     /\ card'[p.cast][k] = p.data[p.new[k]]
      BY <2>3, ListFacts
    <3>2. PICK j \in DOMAIN p.data : e = p.data[j]
      BY <1>5, <3>1
    <3> QED
      BY <1>2, <3>1, <3>2 DEF SentOn
  <2> QED
    BY <2>1, <2>2, <2>3, CardSteps
<1> QED
  BY <1>1, <1>4, <1>5 DEF ChatsOwned

(* What is listed is on the card or on a page.                             *)
LEMMA ListedIff ==
    ASSUME NEW b \in Broadcast
    PROVE  /\ \A e : e \in Listed(b) <=>
                  \/ card[b] # NoCard /\ \E i \in DOMAIN card[b] : e = card[b][i]
                  \/ \E p \in DOMAIN pages : pages[p].cast = b
                         /\ \E i \in DOMAIN pages[p].data : e = pages[p].data[i]
           /\ \A e : e \in Listed(b)' <=>
                  \/ card'[b] # NoCard /\ \E i \in DOMAIN card'[b] : e = card'[b][i]
                  \/ \E p \in DOMAIN pages' : pages'[p].cast = b
                         /\ \E i \in DOMAIN pages'[p].data : e = pages'[p].data[i]
<1>1. ASSUME NEW e
      PROVE  e \in Listed(b) <=>
                 \/ card[b] # NoCard /\ e \in Elements(card[b])
                 \/ \E p \in DOMAIN pages : pages[p].cast = b /\ e \in Elements(pages[p].data)
  BY Zenon DEF Listed
<1>2. ASSUME NEW e
      PROVE  e \in Listed(b)' <=>
                 \/ card'[b] # NoCard /\ e \in Elements(card'[b])
                 \/ \E p \in DOMAIN pages' : pages'[p].cast = b /\ e \in Elements(pages'[p].data)
  BY Zenon DEF Listed, Elements
<1> QED
  BY <1>1, <1>2 DEF Elements

(* Lists agree when nothing new is listed, and what may be named next is   *)
(* what might have been, or has its chat.                                  *)
LEMMA AgreeFrame ==
    ASSUME NEW b \in Broadcast, Agrees(b), Listed(b)' \subseteq Listed(b),
           \/ card'[b] = NoCard \/ Unlisted(b)'
           \/ card'[b] = card[b] /\ ~Unlisted(b)
           \/ \A i \in DOMAIN card'[b] : card'[b][i].chat # NoChat,
           \/ page' = 0 \/ pages'[page'].cast # b
           \/ page # 0 /\ pages[page].cast = b /\ pages'[page'].data = pages[page].data
           \/ card[b] # NoCard /\ ~Unlisted(b) /\ pages'[page'].data = card[b]
    PROVE  Agrees(b)'
<1>1. \A e, f \in Listed(b)' :
          e.who = f.who /\ e.chat # NoChat /\ f.chat # NoChat => e.chat = f.chat
  BY DEF Agrees
<1>2. card'[b] # NoCard /\ ~Unlisted(b)' => MayName(b, card[b])'
  BY DEF Agrees, MayName
<1>3. page' # 0 /\ pages'[page'].cast = b => MayName(b, pages[page].data)'
  BY DEF Agrees, MayName
<1> QED
  BY <1>1, <1>2, <1>3 DEF Agrees

(* The first list of a broadcast names nobody twice.                       *)
LEMMA FirstListAgrees ==
    ASSUME CreationInv, [Next]_vars, NEW b \in Broadcast \ hurried, AddCard(b)
    PROVE  Agrees(b)'
<1>1. /\ card \in [Broadcast -> Seq(Entry) \cup {NoCard}]
      /\ card' = [card EXCEPT ![b] = Entries] /\ step[b] = "set" /\ pages' = pages /\ page' = page
  BY BaseTypes DEF AddCard, CreationInv
<1>2. \A p \in DOMAIN pages : pages[p].cast # b
  BY <1>1 DEF CreationInv, BaseInv, CastsOK
<1>3. card'[b] = Entries
  BY <1>1
<1>4. \A i, j \in DOMAIN Entries : Entries[i].who = Entries[j].who => i = j
  BY <1>1, EntriesChosen DEF CreationInv, AloneOK
<1>5. \A e \in Listed(b)' : \E i \in DOMAIN Entries : e = Entries[i]
  BY <1>1, <1>2, <1>3, ListedIff
<1>6. page # 0 => pages[page].cast # b
  BY <1>2 DEF CreationInv, BaseInv, TypeOK
<1>7. \A e, f \in Listed(b)' : e.who = f.who => e.chat = f.chat
  BY <1>4, <1>5
<1>8. MayName(b, card[b])'
  <2>1. \A i \in DOMAIN Entries : Entries[i].chat = NoChat =>
            /\ \A j \in DOMAIN Entries : Entries[j].who = Entries[i].who => j = i
            /\ \A e \in Listed(b)' : e.who = Entries[i].who => e.chat = NoChat
    BY <1>4, <1>5
  <2> QED
    BY <1>3, <2>1 DEF MayName
<1> QED
  BY <1>1, <1>6, <1>7, <1>8 DEF Agrees

(* A send gives a chat to members who have none, and waits.                *)
LEMMA SendAgrees ==
    ASSUME BaseInv, [Next]_vars, NEW t \in Text, Send(t), NEW b \in Broadcast, Agrees(b)
    PROVE  Agrees(b)'
<1> DEFINE list == pages[page].data
<1>1. /\ page \in DOMAIN pages /\ page # 0 /\ list \in Seq(Entry)
      /\ DOMAIN pages' = DOMAIN pages
      /\ \A p \in DOMAIN pages : p # page => pages'[p] = pages[p]
      /\ pages'[page].cast = pages[page].cast
      /\ pages'[page].data = Named(t, list)
      /\ sends'[t].step = "wait" /\ sends'[t].page = page
      /\ page' = page /\ card' = card
  BY SendFacts DEF BaseInv, Send
<1>2. CASE pages[page].cast # b
  <2>1. Listed(b)' \subseteq Listed(b)
    BY <1>1, <1>2, ListedIff
  <2>2. Unlisted(b) => Unlisted(b)'
    <3>1. sends[t].step = "none" /\ \A s \in Text \ {t} : sends'[s] = sends[s]
      BY SendFacts DEF BaseInv
    <3>2. \A s \in Text : sends[s].step = "wait" => sends[s].page \in DOMAIN pages
      BY DEF BaseInv, TypeOK, PlacesOK, IsSent
    <3>3. \A p \in DOMAIN pages : pages'[p].cast = pages[p].cast
      BY <1>1
    <3> QED
      BY <3>1, <3>2, <3>3 DEF Unlisted
  <2> QED
    BY <1>1, <1>2, <2>1, <2>2, AgreeFrame
<1>3. CASE pages[page].cast = b
  <2>1. /\ DOMAIN Named(t, list) = DOMAIN list
        /\ \A i \in DOMAIN list :
               /\ Named(t, list)[i].who = list[i].who
               /\ Named(t, list)[i].chat # NoChat
               /\ list[i].chat # NoChat => Named(t, list)[i] = list[i]
    BY <1>1, NamedFacts
  <2>2. MayName(b, list)
    BY <1>1, <1>3 DEF Agrees
  <2>3. Unlisted(b)'
    BY <1>1, <1>3 DEF Unlisted
  <2>4. \A e \in Listed(b)' : \/ e \in Listed(b)
                              \/ \E i \in DOMAIN list : list[i].chat = NoChat /\ e = Named(t, list)[i]
    BY <1>1, <1>3, <2>1, ListedIff
  <2>5. ASSUME NEW e \in Listed(b)', NEW f \in Listed(b)',
               e.who = f.who, e.chat # NoChat, f.chat # NoChat
        PROVE  e.chat = f.chat
    <3>1. CASE e \in Listed(b) /\ f \in Listed(b)
      BY <2>5, <3>1 DEF Agrees
    <3>2. ASSUME NEW i \in DOMAIN list, list[i].chat = NoChat,
                 NEW g \in Listed(b), g.who = Named(t, list)[i].who, g.chat # NoChat
          PROVE  FALSE
      BY <2>1, <2>2, <3>2 DEF MayName
    <3>3. ASSUME NEW i \in DOMAIN list, list[i].chat = NoChat, e = Named(t, list)[i],
                 NEW j \in DOMAIN list, list[j].chat = NoChat, f = Named(t, list)[j]
          PROVE  e.chat = f.chat
      BY <2>1, <2>2, <2>5, <3>3 DEF MayName
    <3> QED
      BY <2>4, <2>5, <3>1, <3>2, <3>3
  <2>6. MayName(b, pages[page].data)'
    BY <1>1, <2>1 DEF MayName
  <2> QED
    BY <1>1, <2>3, <2>5, <2>6 DEF Agrees
<1> QED
  BY <1>2, <1>3

LEMMA AgreePreserved ==
    ASSUME ChatInv, BaseInv', [Next]_vars
    PROVE  ChatsAgree'
<1> USE DEF ChatInv, CreationInv
<1>0. card \in [Broadcast -> Seq(Entry) \cup {NoCard}]
  BY BaseTypes
<1>1. SUFFICES ASSUME NEW b \in Broadcast \ (hurried' \cup reopened')
               PROVE  Agrees(b)'
  BY DEF ChatsAgree
<1>2. b \in Broadcast \ hurried /\ b \notin reopened /\ Agrees(b)
  BY <1>1, HurriedStays DEF ChatsAgree
<1>3. ASSUME NEW c \in Broadcast, AddCard(c)
      PROVE  Agrees(b)'
  <2>1. UNCHANGED <<pages, page, sends>> /\ card' = [card EXCEPT ![c] = Entries]
    BY <1>3 DEF AddCard, sendVars
  <2>2. CASE b = c
    BY <1>2, <1>3, <2>2, FirstListAgrees
  <2>3. CASE b # c
    <3>1. card'[b] = card[b]
      BY <1>0, <2>1, <2>3
    <3>2. Listed(b)' \subseteq Listed(b)
      BY <2>1, <3>1, ListedIff
    <3>3. Unlisted(b)' = Unlisted(b)
      BY <2>1 DEF Unlisted
    <3> QED
      BY <1>2, <2>1, <3>1, <3>2, <3>3, AgreeFrame
  <2> QED
    BY <2>2, <2>3
<1>4. ASSUME NEW c \in Broadcast, card[c] # NoCard, Push(c), UNCHANGED <<card, sendVars, kills>>
      PROVE  Agrees(b)'
  <2>1. /\ DOMAIN pages' = DOMAIN pages \cup {page'}
        /\ \A p \in DOMAIN pages : pages'[p] = pages[p]
        /\ pages'[page'].cast = c /\ pages'[page'].data = card[c]
    BY <1>4, PushFacts DEF BaseInv
  <2>2. Listed(b)' \subseteq Listed(b)
    BY <1>4, <2>1, ListedIff
  <2>3. Unlisted(b) => Unlisted(b)'
    <3>1. \A t \in Text : sends[t].step = "wait" => sends[t].page \in DOMAIN pages
      BY DEF BaseInv, TypeOK, PlacesOK, IsSent
    <3> QED
      BY <1>4, <2>1, <3>1 DEF Unlisted, sendVars
  <2>4. b = c => ~Unlisted(b)
    BY <1>1, <1>4 DEF Push
  <2> QED
    BY <1>2, <1>4, <2>1, <2>2, <2>3, <2>4, AgreeFrame
<1>5. ASSUME NEW t \in Text, List(t)
      PROVE  Agrees(b)'
  <2> DEFINE p == SentOn(t)
  <2>1. UNCHANGED <<pages, page>>
    BY <1>5 DEF List
  <2>2. CASE b = p.cast
    <3>1. /\ IsSent(t) /\ sends[t].page \in DOMAIN pages
          /\ DOMAIN card'[b] = DOMAIN p.new
          /\ \A k \in DOMAIN p.new : p.new[k] \in DOMAIN p.data /\ card'[b][k] = p.data[p.new[k]]
      BY <1>5, <2>2, ListFacts
    <3>2. \A i \in DOMAIN p.data : p.data[i].chat # NoChat
      BY <3>1 DEF BaseInv, NamedOK, Addressed
    <3>3. Listed(b)' \subseteq Listed(b)
      <4>1. \A i \in DOMAIN card'[b] : card'[b][i] \in Listed(b)
        BY <2>2, <3>1, ListedIff DEF SentOn
      <4> QED
        BY <2>1, <4>1, ListedIff
    <3>4. \A i \in DOMAIN card'[b] : card'[b][i].chat # NoChat
      BY <3>1, <3>2
    <3> QED
      BY <1>2, <2>1, <3>3, <3>4, AgreeFrame
  <2>3. CASE b # p.cast
    <3>1. card'[b] = card[b]
      BY <1>5, <2>3, ListFacts
    <3>2. Listed(b)' \subseteq Listed(b)
      BY <2>1, <3>1, ListedIff
    <3>3. Unlisted(b) => Unlisted(b)'
      BY <1>5, <2>1, <2>3, ListFacts DEF Unlisted, SentOn
    <3> QED
      BY <1>2, <2>1, <3>1, <3>2, <3>3, AgreeFrame
  <2> QED
    BY <2>2, <2>3
<1>6. ASSUME NEW x \in stores, Store(x)
      PROVE  Agrees(b)'
  <2>1. UNCHANGED <<card, page, sends>>
    BY <1>6 DEF Store
  <2>2. /\ DOMAIN pages' = DOMAIN pages
        /\ \A p \in DOMAIN pages : pages'[p].cast = pages[p].cast /\ pages'[p].data = pages[p].data
    BY <1>6, StoreFacts
  <2>3. Listed(b)' \subseteq Listed(b)
    BY <2>1, <2>2, ListedIff
  <2>4. Unlisted(b) => Unlisted(b)'
    <3>1. \A t \in Text : sends[t].step = "wait" => sends[t].page \in DOMAIN pages
      BY DEF BaseInv, TypeOK, PlacesOK, IsSent
    <3> QED
      BY <2>1, <2>2, <3>1 DEF Unlisted
  <2>5. page # 0 => page \in DOMAIN pages
    BY DEF BaseInv, TypeOK
  <2> QED
    BY <1>2, <2>1, <2>2, <2>3, <2>4, <2>5, AgreeFrame
<1>7. CASE Kill
  <2>1. UNCHANGED <<card, pages>> /\ page' = 0 /\ ~Unlisted(b)
    BY <1>1, <1>7 DEF Kill
  <2>2. Listed(b)' \subseteq Listed(b)
    BY <2>1, ListedIff
  <2> QED
    BY <1>2, <2>1, <2>2, AgreeFrame
<1>8. CASE UNCHANGED <<pages, sendVars, reopened, kills>> /\ page' \in {0, page} /\ card' = card
  <2>1. Listed(b)' \subseteq Listed(b)
    BY <1>8, ListedIff
  <2>2. Unlisted(b)' = Unlisted(b)
    BY <1>8 DEF Unlisted, sendVars
  <2> QED
    BY <1>2, <1>8, <2>1, <2>2, AgreeFrame
<1>9. ASSUME NEW t \in Text, Send(t)
      PROVE  Agrees(b)'
  BY <1>2, <1>9, SendAgrees
<1> QED
  BY <1>3, <1>4, <1>5, <1>6, <1>7, <1>8, <1>9, SendingSteps, CardSteps

(* A broadcast reaches a member in one chat, which is with no other        *)
(* member, unless its page was opened again before a send had written the  *)
(* chats it made up, or its creation was hurried (saveMessageInLoop).      *)
THEOREM MembersHaveOneChat == Spec => []OneChatPerMember
<1>1. Init => ChatsOwned /\ ChatsAgree
  <2>1. Init => ChatsOwned
    BY DEF Init, ChatsOwned
  <2>2. Init => ChatsAgree
    <3> SUFFICES ASSUME Init, NEW b \in Broadcast
                 PROVE  Agrees(b)
      BY DEF ChatsAgree
    <3>1. card[b] = NoCard /\ DOMAIN pages = {} /\ page = 0
      BY DEF Init
    <3>2. Listed(b) = {}
      BY <3>1, ListedIff
    <3> QED
      BY <3>1, <3>2 DEF Agrees
  <2> QED
    BY <2>1, <2>2
<1>2. ChatInv /\ CreationInv' /\ [Next]_vars => ChatInv'
  BY OwnedPreserved, AgreePreserved DEF ChatInv, CreationInv
<1>3. ChatInv => OneChatPerMember
  <2> SUFFICES ASSUME ChatInv, NEW r \in received, NEW q \in received
               PROVE  /\ r.chat = q.chat => r.to = q.to
                      /\ r.to = q.to /\ CastOf(r) = CastOf(q)
                         /\ CastOf(r) \notin reopened \cup hurried => r.chat = q.chat
    BY DEF OneChatPerMember
  <2> USE DEF ChatInv, CreationInv
  <2>1. \A x \in received :
            /\ sends[x.text].page \in DOMAIN pages
            /\ x.at \in DOMAIN pages[sends[x.text].page].data
            /\ x.chat = pages[sends[x.text].page].data[x.at].chat
            /\ x.to = pages[sends[x.text].page].data[x.at].who
            /\ x.chat # NoChat /\ x.to \in Contact
    BY DEF BaseInv, TypeOK, ReceivedOK, IsSent, Addressed, SentOn
  <2>2. \A x \in received : ChatIsOf(x.chat, x.to)
    BY <2>1 DEF ChatsOwned
  <2>3. r.chat = q.chat => r.to = q.to
    BY <2>1, <2>2, OneOwner
  <2>4. \A x \in received : CastOf(x) \in Broadcast
    BY <2>1, BaseTypes DEF CastOf
  <2>5. \A x \in received : \E e \in Listed(CastOf(x)) : e.who = x.to /\ e.chat = x.chat
    BY <2>1, <2>4, ListedIff DEF CastOf
  <2>6. ASSUME r.to = q.to, CastOf(r) = CastOf(q), CastOf(r) \notin reopened \cup hurried
        PROVE  r.chat = q.chat
    <3>1. Agrees(CastOf(r))
      BY <2>4, <2>6 DEF ChatsAgree
    <3> QED
      BY <2>1, <2>5, <2>6, <3>1 DEF Agrees
  <2> QED
    BY <2>3, <2>6
<1> QED
  BY <1>1, <1>2, <1>3, CreationHolds, PTL DEF Spec, ChatInv
=============================================================================
