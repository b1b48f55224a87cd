------------------------------ MODULE MCWhere ------------------------------
(* Small instances of the Where room for TLC. *)
EXTENDS WhereProperties, TLC

\* Two components, one with a worktree in a store outside the host tree.
TwoComponents == << "tool", "lint" >>
ThreeTrees == [tool |-> << "main", "win" >>, lint |-> << "trunk" >>]
FourKinds == [main |-> "canonical", dev |-> "tip", win |-> "stored", trunk |-> "canonical"]

\* One component, with every kind of worktree but a plain line.
OneComponent == << "tool" >>
EveryTree == [tool |-> << "main", "dev", "win" >>]

Symmetry == Permutations(Commit)

\* No guard reads the two records, a worktree's submodules, nor what a run has made so
\* far but for its receipts; of a command that is over, only a finished materialize matters.
JobSeen ==
    IF Idle /\ (job.verb # "materialize" \/ job.result # "done") THEN NoJob
    ELSE [job EXCEPT !.made = {}]
Seen ==
    << store, branch, [w \in Worktree |-> [tree[w] EXCEPT !.filled = FALSE]], handle, world,
       JobSeen >>
=============================================================================
