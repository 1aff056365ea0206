--------------------------- MODULE MCRepoHistory ----------------------------
(***************************************************************************)
(* Longer histories of Repo.tla: the commands that build and rewrite the   *)
(* commit graph, each run to its end.                                      *)
(***************************************************************************)
EXTENDS Repo, TLC

CONSTANT MaxCommands      \* bound on the commands (and rebase turns) run

VARIABLE ran              \* how many have run

Bases == Commits \cup {None}

HistoryStep ==
  \/ \E t \in Trees : t # HeadTree /\ CommitAll(t, 8)
  \/ \E c \in Revisions : Checkout(c, None, TRUE, 4)
  \/ \E c \in Revisions : Checkout(c, Main, TRUE, 4)
  \/ \E c \in Revisions : Reset(c, FALSE, 5)
  \/ \E c \in Revisions : MergeFastForward(c, 5)
  \/ \E c \in Revisions : \E base \in Bases : MergeTrue(c, base, 7)
  \/ \E c \in Revisions : CherryPick(c, 7)
  \/ \E c \in Revisions : Revert(c, 7)
  \/ \E c \in Revisions : \E base \in Bases : RebaseStart(c, base)
  \/ RebasePick(2)
  \/ RebaseAbort
  \/ RebaseFinish(5)
  \/ Gc

MCInit == Init /\ ran = 0

MCNext == ran < MaxCommands /\ HistoryStep /\ ran' = ran + 1

MCSpec == MCInit /\ [][MCNext]_<<vars, ran>>

\* Leaf objects are interchangeable.
LeafSymmetry == Permutations(Leaves)

\* States that differ only in the number of commands run are the same.
RepoView == vars

=============================================================================
