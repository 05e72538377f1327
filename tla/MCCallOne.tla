------------------------------ MODULE MCCallOne ------------------------------
(* One call from a to b, audio or video: every interleaving of its two     *)
(* clients.                                                                *)
EXTENDS CallInvariant, FiniteSets

CONSTANTS a, b

OneCaller == [c \in CallId |-> a]

OneReceiver == [c \in CallId |-> b]

\* Only one of the calls is ever placed.
OneCall == Cardinality(placed) <= 1
=============================================================================
