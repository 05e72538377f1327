------------------------------- MODULE MCChat -------------------------------
(* Users who message each other, with and without overlapping saves.  Nothing *)
(* in ChatMessages tells two users or two messages apart.                  *)
EXTENDS ChatInvariant, FiniteSets, TLC

Renaming == Permutations(User) \cup Permutations(Message)

\* One round of seenMessage is under way.
FewMarks == Cardinality(asked) + Cardinality(marks) <= 2
=============================================================================
