-------------------------- MODULE GroupCallInvariant --------------------------
(***************************************************************************)
(* The strengthenings that every step of GroupCall preserves.  Of          *)
(* RingIsOwn: whoever deletes a document at a user deletes one the user    *)
(* dialled, or the user itself has hung up or rejected.  Of OwnRingEnds:   *)
(* the only document a member's last query can find is its ring.           *)
(***************************************************************************)
EXTENDS GroupCall

\* v has hung up or rejected a call.
HasEnded(v) == \E e \in CallId : <<v, e>> \in deed

DeletionOK(w) ==
    w.op = "delete" => Caller[w.doc.call] = w.owner \/ HasEnded(w.owner)

OutboxOK == \A u \in User : \A w \in Pending(u) : DeletionOK(w)

\* An endCall runs for who has hung up or rejected.
EndingOK == \A u \in User : \A c \in CallId : ending[u][c] # "no" => <<u, c>> \in deed

RingInv == TypeOK /\ OutboxOK /\ EndingOK /\ RingIsOwn

-----------------------------------------------------------------------------
\* A ring is at who is called, once; a copy at the caller.
DocsOK ==
    \A u \in User : \A d \in calling[u] :
        /\ d.kind = "ring" => /\ d.to = u /\ invite[d.call][u] = "done"
                              /\ \A e \in calling[u] :
                                     e.kind = "ring" /\ e.call = d.call => e = d
        /\ d.kind = "copy" => Caller[d.call] = u /\ invite[d.call][d.to] # "none"

\* Only bare documents are set without being awaited.
SetsOK == \A u \in User : \A w \in Pending(u) : w.op = "set" => w.doc.kind = "bare"

\* Only the caller's page has the list, and only its endCall uses it.
ListOK ==
    \A u \in User :
        /\ u \in listed => Caller[page[u]] = u
        /\ \A c \in CallId : ending[u][c] = "list" => Caller[c] = u

\* Who is in a call of another, or has left or rejected it, was rung for it.
RungOK ==
    \A u \in User : \A c \in CallId :
        (page[u] = c \/ <<u, c>> \in deed) /\ u # Caller[c] => invite[c][u] = "done"

OwnInv == TypeOK /\ DocsOK /\ SetsOK /\ ListOK /\ RungOK /\ OwnRingEnds
=============================================================================
