# Formal models of flutter_theme

TLA+ models of the chat application in `src/lib` (Flutter, Firestore, Agora),
the TLC runs that check them and the TLAPS proofs about them. All references
are to files under `src/lib`.

## 1. The system

The application has no server code of its own. Every client reads and writes
the same Firestore collections, and everything two users do to each other goes
through those documents or through the Agora voice and video service. On a
client the code is single-threaded Dart: a handler runs without interruption
from one `await` to the next, and any number of handlers can be suspended at
the same time. A write that is not awaited is queued by the Firestore SDK, is
visible to the client's own queries at once, and is committed later, in the
order of the device's queue.

| Component | State | Operations | Source |
|---|---|---|---|
| One-to-one calls | `calls/<user>/calling`, `calls/<user>/collectionCallHistory`, the page, the engine | dial, ring, accept, reject, Agora callbacks, hang up | `audio_call_controller`, `video_call_controller`, `chat_message_api`, `pick_up_call`, tool bars |
| One-to-one chats | `messages/<chatId>/chat`, `users/<user>/chats`, the page's `chatId` | open, send, block, save the cards, mark seen, delete | `chat_controller`, `chat_message_api`, `message_firebase_api`, `load_user`, cards |
| Status updates | `status/<id>`, `newPhotoList` | `addStatus`, `statusDeleteAfter24Hours` | `status_firebase_api`, `firebase_common_controller`, `status_controller` |
| Group calls | the call documents, one pair per member | dial, join, hang up | `group_message_controller`, group branches of `video_call_controller` |
| Groups | `groups`, `groupMessage`, the members' cards | create, send, delete | `create_group_controller`, `group_firebase_api`, `group_message_controller` |
| Broadcasts | `broadcast`, `broadcastMessage`, the one-to-one chats | create, send in a loop | `create_group_controller`, `broadcast_chat_controller` |
| Presence, typing | `users/<id>.status`, `groups/<id>.status` | Online, Offline, typing..., back | `firebase_common_controller`, pages that observe the lifecycle |
| Sign-in, account | local storage, `users/<id>` | start-up, verify, register, edit, delete | `otp_controller`, `phone_controller`, `splash_controller`, `setting_controller`, `edit_profile_controller` |
| Contacts, notifications, pickers, token, theme | device state | platform I/O | the controllers of those names |

Interactions: the call button of a chat page starts a call; a broadcast and a
group write cards into the same `users/<user>/chats` as a one-to-one chat;
every page lies under `PickupLayout`, which covers it with a ring; every change
of the application's lifecycle writes the presence and starts a cleanup of the
status updates.

What makes each component correct, and what makes that hard:

* **Calls.** Two clients each write *both* users' call rows, without awaiting.
  The rows must end up saying what happened, whatever order the writes land
  in; a finished call must leave no ringing document; nobody may stay in the
  channel. All calls share one Agora channel.
* **Chats.** Both users must agree on the chat, its two parties and its last
  message, although the `chatId` is made up by the first message, and although
  messages and cards are written in three steps with awaits in between.
* **Status updates.** A young status must not be lost and an old one must go,
  while several cleanups share one list.
* **Groups, broadcasts.** The members' cards must follow the messages,
  although loops of asynchronous callbacks are not awaited and fixed delays
  stand in for waiting.
* **Presence.** The last of several racing writers decides.

The full list of hazards, each with its line and the properties that look for
it, is under `hazards` in `PROJECT.json`.

## 2. Modules

| Module | What it is |
|---|---|
| `CallSignalling` | one-to-one calls: documents, outboxes, engines, pages |
| `CallInvariant`, `CallProofs` | the parts of its inductive invariants; theorems about what a row may say and who deletes documents |
| `CallEndProofs` | theorems about what a call leaves when it has ended |
| `MCCallOne`, `MCCallTwo` | one call; two calls to one receiver |
| `ChatMessages` | one-to-one chats: messages, cards, pages, coroutines |
| `Conversation` | what chats promise, without look-ups, documents or kills |
| `ChatInvariant`, `ChatProofs` | the invariant of chats and the refinement mapping; their theorems |
| `MCChat` | instances of chats |
| `GroupChat` | groups: messages, the members' cards, typing, deleting |
| `GroupInvariant`, `GroupProofs` | its invariants; theorems about cards and typing |
| `GroupNewestProofs` | the theorem about the newest message |
| `MCGroup` | an instance of a group |
| `GroupCall` | video calls of a group: the pairs of calling documents |
| `GroupCallInvariant`, `GroupCallProofs` | its invariants; its theorems |
| `MCGroupCall` | an instance of a group call |
| `BroadcastChat` | creating broadcasts and sending to them |
| `BroadcastInvariant`, `BroadcastProofs` | its invariants; its theorems |
| `MCBroadcast` | an instance of broadcasts |
| `StatusUpdates` | the status document of one account and its cleanups |
| `StatusInvariant`, `StatusProofs` | its invariant; its theorems |
| `MCStatus` | instances of status updates |

Definitions that begin with the comment `Mutant:` are not used by any
specification. Each is a plausible bug in the definition below it; replacing
that definition by it makes TLC find the property that `mutants` names
violated, which shows that the property depends on the code.

The components meet in shared documents, and each module has the part of them
its component reads. A group's module has one card per user that is not a
group's (`Private`), because deleting a message of a group writes to whatever
card comes first. A broadcast's module has the order of the user's one-to-one
cards, because creating one looks chats up by it. A group call's module repeats
the documents of `CallSignalling` with a third kind, the one without fields that
the end of a group call leaves.

### CallSignalling

`calling` and `history` are the two collections. `outbox[u]` is the queue of
writes device `u` has issued and not committed; `Commit` is the backend taking
the oldest one. `View` and `Shown` are the latency compensation of the SDK:
queries of a client leave out what it has itself deleted, a listener shows what
it has itself written. `dial` and `ending` are the program counters of
`audioAndVideoCallApi` and `endCall`; `session` is the engine of a call page,
`asking` while the permission dialog is open, `starting` until the channel is
joined, `leaving` between `leaveChannel` and its callback; `peers` are the
users that engine reported; `quiet` is `isAlreadyEnded`. `deed` is a history
variable and never read by an action: what users did.

| Action | Code |
|---|---|
| `Dial`, `AddCallerDoc`, `AddReceiverDoc` | `audioAndVideoCallApi`, cut at its awaits |
| `Accept`, `Reject` | the two buttons of `PickupBody` |
| `CreateEngine`, `JoinChannel` | `onReady`, `initAgora`, `onJoinChannelSuccess` |
| `UserJoined`, `UserOffline`, `LeaveChannel` | the Agora callbacks |
| `ReleaseEngine` | `release` before `onLeaveChannel` was delivered |
| `HangUp` | the red button and `onCallEnd` up to its first await |
| `EndCallAtCaller`, `EndCallAtReceiver`, `EndCallThrows` | the two queries of `endCall`, its catch, and what its callers do next |
| `Commit`, `Kill` | Firestore, the operating system |

Simplifications. A call is named by its timestamp, and no two have the same
one; caller and receiver differ. The rows keep `status` and whether `started`
is set; names, pictures, types and counters are left out, and so are the blank
documents `onLeaveChannel` adds to the history. The pages under a call page are
one page, `Home`, so a second `Get.back` has nothing to pop. The audio page
runs `onReady` twice; its engine is created once in the model. The button
cannot be pressed again while its `endCall` runs, and a ring is not answered
while the user's own dial is awaited. A call accepted again waits until the
engine of the first time has answered. A listener may lag: `HangUp` may miss
that the status shown is over. Muting writes a field nothing else reads. The
group branches (`call.receiver != null`) are in `GroupCall`.

### ChatMessages and Conversation

`letter[m]` is what the handler captured when `m` was sent (the Dart closure),
`job[m]` the place of its coroutine. A chat is named by the message that made
up its `chatId`; `"0"` is `NoChat`. `cards[u]` are the documents of
`users/u/chats` with the fields the code reads back; `page[u]` is the
`ChatController` on top. `asked` and `marks` are the queries and the un-awaited
updates of `seenMessage`. `lapped` is a history variable: the pairs of a user
and a chat for which a second save looked for a card between the look-up and the
add of a first one.

| Action | Code |
|---|---|
| `OpenContact` | `saveContact`, with the page that ends on top |
| `OpenCard` | tap on a card: `LoadUser`, `ReceiverMessageCard`, `MessageCard` |
| `Send` | `onSendMessage` to its first await, in the branch it takes (`allData` is always null) |
| `Block` | `blockUser`, in the branch it takes (`isBlock` is always false) |
| `Post`, `Find`, `SaveOwn`, `SavePeer` | storing the message; `saveMessageInUserCollection` for the sender and then the receiver |
| `FindSeen`, `MarkSeen` | the second and third part of `seenMessage` (the first is guarded by a test that a page never meets) |
| `Delete` | `DeleteAlert` |
| `Close`, `Kill` | `onBackPress`, the operating system |

Simplifications. Two chatIds made up from the clock differ. Contents, types and
times are left out; the uploads of images, documents and audio end in the same
`onSendMessage`. The query `getChatData` awaits before `seenMessage` has no
effect and is not a step. A page sends after its peer's profile is loaded (a
send before that throws once the message is on its way). Messages of a
broadcast are in `BroadcastChat`.

`Conversation` is the abstract specification: chats between two users for good,
messages that accumulate in one chat each, home pages that announce messages of
the chats of their users, a peer's never before the author's. Its `members`,
`thread` and `line` are read off `letter`, `posted` and `cards` (the mapping is
in `ChatInvariant`), and `KeepsConversation` says that every step of the chats
begins a chat, stores or announces a message as `Conversation` allows, or
changes nothing of it. Deleting a message is a stutter: what was ever stored
stays in `thread`.

### GroupChat

`outbox[u]` holds the writes device `u` has issued: messages, cards, texts of
cards (`tell` of a send, `mend` of a deletion), deletions and typing statuses.
`asked`, `latest` and `mending` are the queries nobody awaits: for the card of a
member after a send, for the last message after a deletion, and for the card of
a member after that. `torn`, `restored` and `deserted` are history variables and
never read by an action.

| Action | Code |
|---|---|
| `Create` | `createGroup` from the stored group on: message, cards, page |
| `Open` | tap on the group's card |
| `Type`, `Clear` | the listeners of the text field, `groupTypingStatus` |
| `Back`, `Leave` | `onBackPress`; the arrow of the app bar, which pops without it |
| `Send`, `FindCard` | `onSendMessage`; the answer of a query of `saveGroupData` |
| `Delete`, `FindLast`, `FindAnyCard` | `GroupDeleteAlert`, cut at its awaits |
| `Commit`, `Kill` | Firestore, the operating system |

Simplifications. A group's members do not change, and its creation is one step
from the stored group on. The home page is under every group page. Messages are
ordered by `sent`: two do not have the same timestamp. The controller of the
page outlives a visit (the page puts it only if it is not registered).

### GroupCall

`invite[c][m]` is where the caller's callback for member `m` stands: looking the
member up, adding its own copy, adding the member's ring. The callbacks run side
by side; one whose lookup finds no account throws alone. `listed` are the users
whose page has `call.receiver`: the caller's, since `Call.fromMap` does not
read it, so a member takes the one-to-one branch of `endCall`. `sweeps` are the
queries of the group branch, which nobody awaits. `noted` are the calls whose
rows exist, without which a video page has no buttons.

| Action | Code |
|---|---|
| `Dial`, `Lookup`, `AddCopy`, `AddRing` | `audioAndVideoCall`, cut at its awaits |
| `Join` | `onJoinChannelSuccess` of the caller |
| `Accept`, `Reject` | `PickupBody` |
| `HangUp`, `Sweep`, `EndAtCallerOfList` | the group branch of `endCall` and of `onCallEnd` |
| `EndAtCaller`, `EndAtReceiver` | the one-to-one branch, which members take |
| `Commit`, `Kill` | Firestore, the operating system |

Simplifications. Audio calls of a group go through the same `audioAndVideoCall`;
the model follows them as video calls, whose controller `PickupBody` uses for
rejecting in any case. Rows of the call list and the engine are as in
`CallSignalling` and left out. An awaited add is committed when the device has
nothing older to commit.

### BroadcastChat

One user's device. `picks` are the maps `selectUserTap` makes, by identity:
`newContact.contains` compares maps, which are equal only to themselves, and a
contact chosen, dropped and chosen again is another map. `step[b]` is the
creation of `b`, `asks` its queries; `pages` are the visits with their `pData`
(`data`) and `newpData` (`new`, as places in `data`, since it holds the same
maps and a chatId set on one shows in the other). `sends` and `stores` are the
coroutines of `onSendMessage` and of its loop. `chosen`, `hurried`, `slow` and
`reopened` are history variables and never read by an action.

| Action | Code |
|---|---|
| `Toggle`, `Abandon` | `selectUserTap`, `onWillPop` |
| `Create`, `Answer`, `WaitOver`, `AddCard`, `EndCreation` | `addGroupBottomSheet` and `checkChatAvailable`, cut at their awaits |
| `OpenCreated`, `Open`, `Back` | `onReady` with the new or a stored card, `onBackPress` |
| `Send`, `Store`, `List` | `onSendMessage`: its loop, a message stored, the end of its wait |
| `Kill` | the operating system |

A fixed wait may end at any moment relative to what it waits for. Simplifications:
a write is committed in the step that issues it; storing a message and writing
the member's card are one step, as nothing reads what lies between; the cards of
the members are not looked up (that is `ChatMessages`).

### StatusUpdates

One account. `docs` are its documents in `status`; `upload[p]` and `sweep[s]`
the coroutines of `addStatus` and `statusDeleteAfter24Hours`; `newPhotoList`
the field they share; `old` the statuses shared 24 hours ago or more. `due` is
a history field: what was old when a cleanup began. `Share`, `ReadStatus` and
`WriteStatus` are `addStatus`; `Lifecycle`, `ReadForSweep`, `Sift` (with
`getPhotoUrl`), `ReadAgain` and `Rewrite` the cleanup; `Expire` is the clock and
`Restart` the operating system. `PhotoUrl` defines no equality, so
`newPhotoList.remove` never finds its argument and `Sift` removes nothing. A
list is modelled by the set of what it lists: how often it lists a status, which
grows with every cleanup (see the hazards), is left out. A write is committed in
the step that issues it.

## 3. Runs

| Run | Instance | States | Shows |
|---|---|---|---|
| `call_one` | one call, audio or video, no fault, fairness | 269 000 | types; what the rows say was done by a party; a hang-up clears the rings for good and has the last word; the caller's page learns that the receiver left |
| `call_video` | one video call, one kill or failing query | 942 000 | nothing but a party or the fault ends a call; the time of the pick-up survives |
| `call_two_callers` | two video calls to one receiver, two taps | 658 000 | the inductive invariant; on whose behalf documents go |
| `call_ghost` | one audio call | | violation: a call hung up early joins the channel |
| `chat_saves` | two users, two messages, one kill | 881 000 | the inductive invariant; two parties per chat; cards name the peer, announce stored messages, and are never the receiver's alone; one card per chat but for lapped saves; `Conversation` is implemented |
| `chat_split` | two users, two messages | | violation: two chats of one pair |
| `group_chat` | one group of two, three messages, four efforts | 2 642 000 | a card keeps to its group; the newest message on every card; the typing status names a typist |
| `group_call` | one call, three members, one without account, one kill, fairness | 562 000 | a member's ring is stopped by the member alone, and then it is; every member with an account rings |
| `group_crash` | the same | | violation: a document without `hasDialled` |
| `broadcast` | two contacts, two broadcasts, three messages, one kill | 1 689 000 | what changes a list of members, splits a chat or delivers twice, and that nothing else does |
| `status_alone` | two statuses, three cleanups, one restart | 28 000 | no young status is lost; one document; the invariant of the proof |
| `status_expired` | two statuses, three cleanups | | violation: an old status is written back |

**Exceptions in properties.** The code relies in several places on writes that
nobody awaits and on fixed waits, and the plain wish fails ("each member gets a
message once"). There the property says which orders are harmless: it exempts
exactly the executions in which a named event occurred, kept in a history
variable that no action reads, and holds in all others. For each exemption the
run without it was checked and found violated, so none is idle:

* `lapped` (chats): a second save looked up between look-up and add.
* `torn` (groups): a send started while another one was under way, a kill took
  its queries, or a message was deleted. `restored`: a deletion took the message
  for the last one of its group. `deserted`: the page was left by the arrow, or
  the app killed, while typing.
* `hurried` (broadcasts): a wait of a creation ended before its queries, or two
  creations overlapped. `slow`: the wait of a send ended before a member without
  a chat was listed. `reopened`: a page opened before a send had written its
  list. `SentTwice`: `newpData`, which is never emptied, was written twice.

**Bounds.** `MaxFaults`, `MaxKills` and `MaxRestarts` bound faults. One call has
two clients with an engine each: every interleaving of a call with itself is in
`call_one` and `call_video` (`OneCall` lets one of an audio and a video call be
placed). Interference needs a second call at a common party; two callers of one
receiver share the receiver's documents, its device and the channel. There
`MaxTaps` bounds how often users accept, reject and hang up (accepting one call
and hanging up, or hanging up both) and `MaxPending` the writes under way (three:
the deletion and the report of a hang-up).

Two messages are enough for two saves to overlap, for both users to start a
chat, and for a second message to find the first one's chat; two card ids for a
duplicate. `FewMarks` keeps one round of `seenMessage` under way. In a group
three messages let two sends cross after its creation; `MaxTaps` bounds pages
opened, texts begun and deletions, and `Effort` bounds them together with
messages and kills: four is a creation, a second page, and two sends, or a text
and a deletion. A group call has a caller, a member and a deleted account, which
is the least with which one lookup fails and another must not; `FewWrites` keeps
as many writes under way as one hang-up of the caller issues, and the liveness
property is checked within it. In `broadcast`, two contacts tell the last card
from the others, three choices let one contact be chosen twice, two pages let one
be reopened; `Effort` bounds them together.

`chat_saves`, `status_alone`, `group_chat` and `broadcast` use symmetry: nothing
in those modules tells apart what they permute, and no run with symmetry checks
liveness. In `status_alone`, `UploadsAlone` keeps an `addStatus` from overlapping
with another coroutine (then an update is lost, see the hazards); the cleanups
overlap with each other, which is the normal case, since three pages start one
each at every change of the lifecycle. `CHECK_DEADLOCK FALSE` is stated
everywhere: users may stop, and messages, calls and statuses are finite.

**Fairness** (`FairSpec`). Weak fairness of what runs without the user: in
`CallSignalling` the continuations of `audioAndVideoCallApi` and `endCall`, the
commits of a device that stays online, Agora's joins, leaves and reports; in
`GroupCall` the lookups and adds of `audioAndVideoCall` and the commits. No tap
is fair, the answer to the permission dialog is not, and no fault is. The event
loop and the SDKs justify it: a completed future's continuation is run, the SDK
retries a pending write. A device that stays offline for ever is outside it.
`PeerHangUpIsReported` is stated of video calls; an audio call fails it for the
reason `call_ghost` shows, an engine that joins after the hang-up.

**Findings.** The four violations are disagreements between the code and its own
comments or assertions; each is spelled out in `PROJECT.json`. Two more came up
in modelling and have no run: `endCall` takes the first calling document with the
same receiver, so with two calls at one receiver it removes the other's
(`EndCallRemovesCall` holds, and is proved, for one call only), and `allData` of a chat page is
never assigned, so a blocked contact still gets messages.

## 4. Proofs

The theorems hold for every set of users, calls, groups, messages, statuses and
ids and every bound, from the assumptions `CallAssumption`, `ChatAssumption`,
`StatusAssumption`, `GroupAssumption`, `GroupCallAssumption`,
`BroadcastAssumption` and `NoCardAssumption` only (a caller is not its own
receiver in a one-to-one call and is a member of a group call; ids are numbers,
and 0 is none; `NoChat`, `Home`, `Private` and `NoCard` are not a message, a call,
a group or a list; `"old"`, which marks the chats a user had before, is not a
message; a document named by a timestamp has no auto id; bounds are numbers).
Every safety property of a passing run is stated by one of them. The invariants
below were checked with TLC on small instances before they were proved.

| Theorem | States |
|---|---|
| `TypeCorrect`, `StatusTyped`, `GroupIsTyped`, `GroupCallIsTyped`, `BroadcastIsTyped` | `Spec => []TypeOK` of calls, status updates, groups, group calls, broadcasts |
| `CallInvariant` | `Spec => []CallInv` |
| `RejectionIsReceivers`, `PickUpIsAnswerOrCrossing`, `EndIsCaused` | the three properties of what a row may say |
| `RemovalIsOnBehalf` | the action property of deleted documents |
| `PickUpTimeStays` | the action property `VideoKeepsStart` |
| `SettledIsOver` | `Spec => [](faults = 0 => SettledCallIsOver)`, for any number of calls |
| `EndingRemoves` | `Spec => [](Undisturbed => EndCallRemovesCall)`, for one call without a fault |
| `ChatsAgree` | `Spec => []ChatInv` |
| `NobodyElseReads`, `CardNamesPeer`, `CardIsOfPosted`, `SenderHasCard`, `CardIsSingle` | the five properties of `chat_saves` |
| `ChatsAreConversations` | chats implement `Conversation` |
| `GroupCardsKeep`, `GroupStatusNamesTypist` | `CardKeepsToItsGroup` and `StatusNamesTypist` of groups |
| `GroupNewestOnEveryCard` | `Spec => []NewestOnEveryCard` of groups |
| `GroupRingIsOwn`, `OwnRingIsEnded` | `RingIsOwn` and `OwnRingEnds` of group calls |
| `CreationHolds`, `ListsAreChosen` | `Spec => []` of `CreationInv` and `ListIsChosen` of broadcasts |
| `MembersAreTold`, `TwiceIsExplained`, `MembersHaveOneChat` | `Spec => []` of `EveryMemberIsTold`, `TwiceOnlyAfterTwoSends`, `OneChatPerMember` |
| `CleanupsKeepYoung` | `Spec => []SweepKeepsYoung` |
| `YoungIsListed`, `StatusPageComplete`, `AccountHasOneDocument` | `Spec /\ []UploadsAlone => []` of `StatusInv`, `YoungIsShown`, `OneStatusDocument` |

*Calls.* That a row says `rejected` only if the receiver pressed reject is not
inductive: a row gets its value from a write that was pending, a write from a
coroutine of `endCall`, and the coroutine from a ring that was shown. The
invariant `CallInv` therefore says, beside types, that every calling document
lies with a party of its call; that every pending and every committed status
has its cause among the deeds, the faults or another placed call; that a
running `endCall` was begun by the matching deed; that an engine belongs to a
party who placed or accepted the call. Each action disturbs one or two of these
parts, and each part is one step of the proof of that action. The properties
follow without further induction; `DocsRemovedOnBehalf` follows from the part
about pending deletions.

*Calls that have ended.* Three invariants on top of `CallInv`, each about the
order of one device's queue.

* `StartInv`, for `VideoKeepsStart`: a write that clears the time of the
  pick-up is a rejection or the caller's report of joining. The caller joins
  once, and nothing it sent before that report starts the call (`ClearsOK`,
  `StartsOK`, `UnjoinedOK`). Faults and other calls do not matter.
* `OverInv`, for `SettledCallIsOver`: the receiver's device only ever reports
  that the call is over, so what can undo the end comes from the caller's own
  queue, and there the report of its hang-up is the last (`Lasting`). A kill
  takes a running `endCall` with it and a failing query cuts `endCall` short,
  hence the hypothesis `faults = 0`. Other calls at the receiver are no
  hypothesis.
* `RemovalInv`, for `EndCallRemovesCall`: `audioAndVideoCallApi` leaves one
  document at each party, and does so before a page of the call can open
  (`OneDocEach`, `DialledFirst`); then what `endCall` has found is all there is,
  and stays in its device's queue as a deletion until it is gone
  (`EndCallClears`). Since `endCall` looks documents up by the party and not by
  the call, all of this is of a call that is the only one. `Undisturbed` says
  that, and the property is false without it (the second finding of section 3).

*Chats.* That messages under one `chatId` have the same two parties needs that
a page whose `chatId` is set shows the peer of that chat, which needs that the
card it was opened from names that peer, which needs that coroutines write cards
for the chat their message was sent to. `ChatInv` is the conjunction of these
(`Sent`, `Opened`, `LettersOK`, `PostedOK`, `PagesOK`, `CardsOK`, `IdsOK`,
`JobOK`) with `AddsOK` and `OneCardPerChat`. It carries the order of the steps: a
job past `saveOwn` has left the sender's card, which is what `SenderKeepsCard`
comes down to. `AddsOK` says that a job about to add a card has found none and
none has come since, unless it was lapped; this makes `OneCardPerChat`
inductive.

*Refinement.* The mapping reads the members of a chat off the message that made
it up, so a `Send` that makes up a `chatId` is `Begin` and every other `Send` a
stutter; `Post` is `Store`, which needs that the sender is a party of the chat
(`LettersOK`) and the message not stored before; `SaveOwn` and `SavePeer` are
`Announce`, which needs `JobOK` for the author's line; all others leave the
three mapped variables alone.

*Groups.* `CardInv` follows a text backwards: what a card says was told or
mended by a write, whose message precedes it in the queue of the same device
(`StoredBefore`) or is stored. So the i-th write of every queue is accounted for
by the writes before it, which `Commit` preserves as the queue shifts. That a
text comes from the card's own group needs in addition that an auto id names one
card (`NamesOK`). `TypingInv` says that a typing status under way is its
author's, who is still typing or has issued a later one, so that what the last
one leaves is true.

`NewestInv` follows the newest message of a group forward. While the group is
not torn, only the sender of that message is writing its cards (`OneSender`), and
for each member the message is being asked about, or is in a write of that
sender with nothing older behind it, or is on the card with nothing older on its
way (`Reaches`). That the next send does not break this is what `torn` excludes:
it starts when none of the group is under way. A query that finds no card, or a
text that finds its card gone, would lose a member; `AsksOK`, `TextsOK` and
`OneCardOK` say that a member's one card was added by a write before.

*Group calls.* `RingIsOwn` needs to know whose documents a pending deletion may
hit. The group branch and the first query of the other branch find documents
that their owner placed, and the second query finds those of the user itself;
hence `OutboxOK`: every deletion is at the caller's own documents or at a user
who has hung up or rejected, and `EndingOK`: an `endCall` runs only for such a
user. With both, `RingIsOwn` is inductive. `OwnRingEnds` is the converse, that a
member's `endCall` does take the member's ring. Its last query asks for any
document the member is the receiver of, so the invariant `OwnInv` says that
there is one such document per call, added after the lookup of the member and
never again (`DocsOK`, `RungOK`), and that what other devices still have to write
there has no fields (`SetsOK`); the property itself is one of its conjuncts.

*Broadcasts.* The invariants are layers. `BaseInv` says that a message on its
way goes to a place of the list it was sent to, in the chat that stands there,
and that no place of such a list is left without a chat; then `PlacesTold`, that
each place has its message under way or told, is inductive and gives
`EveryMemberIsTold`. `CreationInv` says that a creation nothing hurried is the
only one and has one map for each contact chosen, in `newContact` or being asked
about. On it rest the other three: `ListInv` (a list before the end of its send
has each place in `newpData`, or a message on its way that will put it there),
`TwiceInv` (a page on which one message was sent puts no place there twice, so
the list it writes names no member twice), and `ChatInv` (the lists of one
broadcast, on its card and on its pages, agree on the chat of every member that
has one, and where the card or the page on top lists a member without one, no
list has one for it). The
exemptions `hurried`, `slow`, `reopened` and `SentTwice` are those of section 3.

*Status updates.* That cleanups do not take statuses from each other needs the
types only: the field grows until the process ends, and statuses only get older.
That the page shows every young status is false as such, since an `addStatus`
that overlaps with another coroutine loses an update; it is proved of the
behaviours in which none does, however many cleanups overlap (`UploadsAlone` is
a hypothesis of the theorems as it is a constraint of the run). `StatusInv` says
that every list that is stored, was read for writing, or is in the field lists
all young statuses.

Only model-checked: liveness (`HangUpStopsRing`, `PeerHangUpIsReported`,
`EveryMemberRings`), which is out of the prover's reach, since it needs
`ENABLED` of the fair actions. The four violations are counterexamples of TLC
and need no proof.

## 5. Not modelled

The application is the Dart code in `src/lib`. The C, C++ and Objective-C files
of the repository are pods (Firestore, gRPC, BoringSSL, Agora) and platform
runners that the project vendors and does not change; they are modelled only by
what the Dart code relies on: pending writes in order, latency compensation,
auto ids, callbacks in any order.

Parts left out of what is modelled:

* calls: muting, speaker and camera, the timer, the user counters;
* group calls: rows of the call list and the engine after it has joined;
* groups: pictures and names, what `createGroup` does when the selection is
  changed during its fixed wait, `isSeen`;
* broadcasts: deleting a message, which touches the broadcast's own messages
  alone; the cards of members beyond being written;
* clearing the logs of calls (`popup_action.dart`), which removes rows nothing
  reads afterwards.

Components not modelled:

* presence: `users/<id>.status` is one field, written by every page that
  observes the lifecycle and by every keystroke (`setTyping` adds another
  listener with each call). Whoever is committed last decides, nothing reads the
  field but its display, and no statement of the code says more. The field of a
  group, which has a rule that can be stated, is in `GroupChat`;
* sign-in and account: awaited dialogs of one user in a line. What other parts
  meet of a deleted account, a lookup that finds nothing, is in `GroupCall`;
* contacts, notifications, pickers, token, theme and layout: platform I/O, or
  state that no other part depends on.
