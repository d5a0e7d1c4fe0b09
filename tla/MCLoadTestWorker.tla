-------------------------- MODULE MCLoadTestWorker --------------------------
(* Requests of one team compete; requests of their own teams do not.       *)
EXTENDS LoadTestWorker, TLC

CONSTANTS r1, r2, r3

OneTeam == [r \in Requests |-> "team"]
OwnTeams == [r \in Requests |-> r]
TwoTeams == [r \in Requests |-> IF r = r1 THEN "own" ELSE "team"]

WorkerSymmetry == Permutations(Workers)
SiblingSymmetry == Permutations(Workers) \cup Permutations(Requests)
=============================================================================
