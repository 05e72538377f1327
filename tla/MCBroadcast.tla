----------------------------- MODULE MCBroadcast -----------------------------
(* Broadcasts to two contacts with whom the user has chats already.        *)
EXTENDS BroadcastInvariant, TLC

CONSTANTS x, y

BothKnown == <<x, y>>

\* Which text and which broadcast comes first does not matter.
Renaming == Permutations(Text) \cup Permutations(Broadcast)

CONSTANT MaxEffort

\* What the user does, a kill included; a creation counts twice.
Effort ==
    Len(picks) + 2 * Cardinality({b \in Broadcast : step[b] # "none"}) + Len(pages)
        + Cardinality({t \in Text : sends[t].step # "none"}) + kills <= MaxEffort
=============================================================================
