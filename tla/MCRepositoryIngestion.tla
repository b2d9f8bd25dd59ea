------------------------ MODULE MCRepositoryIngestion ------------------------
(* Instances of RepositoryIngestion for TLC.                                *)
EXTENDS RepositoryIngestion

TwoCommits   == 1 .. 2
ThreeCommits == 1 .. 3

\* Each commit on top of the one before; or the third replaces the second.
Linear == {x \in Commit \X Commit : x[1] <= x[2]}
Forked == Linear \ {<<2, 3>>}

\* Every commit has a tree of its own, or the third has the files of the first.
OwnTree      == [x \in Commit |-> x]
RevertedTree == [x \in Commit |-> IF x = 3 THEN 1 ELSE x]
=============================================================================
