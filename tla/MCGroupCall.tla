----------------------------- MODULE MCGroupCall -----------------------------
(* Video calls of groups to which all users belong.                        *)
EXTENDS GroupCallInvariant, TLC

CONSTANTS a, b, gone

CreatorLast == [c \in CallId |-> <<b, gone, a>>]

ByA == [c \in CallId |-> a]

\* A timestamp sorts after some auto ids and before others.
StampOne == [c \in CallId |-> 2]

CONSTANT MaxWrites

\* As many as one hang-up of the caller issues.
FewWrites == Len(outbox[a]) + Len(outbox[b]) <= MaxWrites
=============================================================================
