---------------------------- MODULE MCGuardedGit ----------------------------
(* A small history for TLC: one commit upstream of the root and one beside    *)
(* it; the remote is ahead of the local branch from the start, and the pull   *)
(* request is the commit beside, which no fast-forward reaches.               *)
EXTENDS GuardedGit

MCCommit == 0..2
MCAncestors == [c \in MCCommit |-> CASE c = 2 -> {0, 2} [] OTHER -> 0..c]

MCInit == Init /\ up = [r \in RemoteBranch |-> 1] /\ pr = [n \in PullRequest |-> 2]
MCSpec == MCInit /\ [][Next]_vars /\ Fairness
=============================================================================
