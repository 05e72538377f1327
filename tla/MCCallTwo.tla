------------------------------ MODULE MCCallTwo ------------------------------
(* Two calls to the same receiver b, one placed by a and one by x: what the *)
(* clients of one call do to the other through the documents of b and the  *)
(* shared channel.  Writes in flight and taps are bounded.                 *)
EXTENDS CallInvariant, FiniteSetsExt, Functions, TLC

CONSTANTS a, b, x, c1, c2, MaxTaps, MaxPending

CrossingCaller == (c1 :> a) @@ (c2 :> x)

CrossingReceiver == (c1 :> b) @@ (c2 :> b)

\* Accepting, rejecting and hanging up, each counted once per user and call.
Taps == {d \in deed : d[1] \in {"accept", "reject", "hangup"}}

FewTaps == Cardinality(Taps) <= MaxTaps

FewWrites == FoldFunction(LAMBDA s, n : Len(s) + n, 0, outbox) <= MaxPending
=============================================================================
