---------------------------- MODULE MCPackStore ----------------------------
(***************************************************************************)
(* PackStore.tla for TLC: who runs what.                                   *)
(***************************************************************************)
EXTENDS PackStore

CONSTANTS p1, p2

VARIABLE serving     \* whether pushes arrive; it stays as it is

\* A user who commits and collects; a server that takes pushes.
UserAndServer == (p1 :> {"commit", "gc"}) @@ (p2 :> {"receive"})

\* Two commits at once.
TwoCommits == (p1 :> {"commit"}) @@ (p2 :> {"commit"})

MCInit == Init /\ serving \in BOOLEAN

\* The user is alone, or commits while pushes arrive, with no gc and two pack
\* files at most.
MCNext ==
  /\ Next
  /\ IF serving THEN proc'[p1].pc # "gc" /\ tmp' <= 2 ELSE proc'[p2].pc = "idle"
  /\ UNCHANGED serving

MCSpec == MCInit /\ [][MCNext]_<<vars, serving>>

\* The worlds are not told apart.
Symmetric == Permutations(Leaves)

\* A commit that reported success stays in the history of the branch, as long
\* as no push replaces the branch.
NoLostCommitAlone == ~serving => NoLostCommit

============================================================================
