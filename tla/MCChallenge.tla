----------------------------- MODULE MCChallenge -----------------------------
(* Challenge with symmetry for the runs that check invariants only: tabs and *)
(* run directories are told apart by nothing but their requests.             *)
EXTENDS Challenge, TLC

TabsAndRuns == Permutations(Tabs) \cup Permutations(RunIds)
=============================================================================
