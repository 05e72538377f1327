---------------------------- MODULE Conversation ----------------------------
(***************************************************************************)
(* What chats promise, without look-ups, documents or kills.  A chat is    *)
(* between two users for good.  Its messages accumulate, and each home     *)
(* page lists chats of its user, each with one of the chat's messages.     *)
(* Where a chat is listed it stays listed; a message is announced on its   *)
(* author's home page, or on that of the peer once the author's lists the  *)
(* chat.  ChatMessages implements this.                                    *)
(***************************************************************************)
CONSTANTS User, Message

VARIABLES
    members,   \* members[k]: the two users of chat k, {} before it begins
    thread,    \* thread[k]: <<m, author>>, what was ever stored in chat k
    line       \* line[u]: <<k, m>>, what the home page of u announces

vars == <<members, thread, line>>

Init ==
    /\ members = [k \in Message |-> {}]
    /\ thread = [k \in Message |-> {}]
    /\ line = [u \in User |-> {}]

\* A chat begins: who it is between is settled.
Begin(k, u, v) ==
    /\ members[k] = {}
    /\ u # v
    /\ members' = [members EXCEPT ![k] = {u, v}]
    /\ UNCHANGED <<thread, line>>

\* A member's message is stored, in one chat only.
Store(k, m, author) ==
    /\ author \in members[k]
    /\ \A c \in Message, w \in User : <<m, w>> \notin thread[c]
    /\ thread' = [thread EXCEPT ![k] = @ \cup {<<m, author>>}]
    /\ UNCHANGED <<members, line>>

\* The home page of a member announces a message, in place of an earlier one
\* of the same chat or as a new line.
Announce(u, k, m, author) ==
    /\ u \in members[k]
    /\ <<m, author>> \in thread[k]
    /\ u = author \/ \E n \in Message : <<k, n>> \in line[author]
    /\ \E old \in {{}} \cup {{l} : l \in {l \in line[u] : l[1] = k}} :
           line' = [line EXCEPT ![u] = (@ \ old) \cup {<<k, m>>}]
    /\ UNCHANGED <<members, thread>>

Next ==
    \E k \in Message, u, v \in User :
        \/ Begin(k, u, v)
        \/ \E m \in Message : Store(k, m, u)
        \/ \E m \in Message : Announce(u, k, m, v)

Spec == Init /\ [][Next]_vars
=============================================================================
