------------------------------- MODULE MCGroup -------------------------------
(* One group and all its users: sends, deletions, kills and typing.        *)
EXTENDS GroupInvariant, TLC

CONSTANT MaxEffort

OneGroup == [g \in Group |-> User]

\* No two users and no two messages are told apart.
Renaming == Permutations(User) \cup Permutations(Message)

\* Bounds messages, taps and kills together; a kill counts twice.
Effort == Len(sent) + taps + 2 * kills <= MaxEffort
=============================================================================
