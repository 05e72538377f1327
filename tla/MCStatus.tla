------------------------------- MODULE MCStatus -------------------------------
(* One account.  Nothing in StatusUpdates tells two statuses or two cleanups *)
(* apart.                                                                  *)
EXTENDS StatusInvariant, TLC

Renaming == Permutations(Photo) \cup Permutations(Sweep)
=============================================================================
