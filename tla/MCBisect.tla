------------------------------ MODULE MCBisect ------------------------------
(***************************************************************************)
(* Bisect.tla for TLC: a line, and a history that merges another with its  *)
(* own root; only the first root is given as good to `bisect start`        *)
(* (others can be marked later).                                           *)
(***************************************************************************)
EXTENDS Bisect

Line  == <<{}, {1}, {2}, {3}, {4}>>
Merge == <<{}, {1}, {}, {2, 3}, {4}>>

MCInit ==
  /\ parents \in {Line, Merge}
  /\ Init
  /\ tip = MaxCommits

GoodGiven == {{}, {1}}

MCNext ==
  \/ \E n \in 1 .. 4 : StartKilled(n)
  \/ \E k \in Commits, b \in {tip, None}, gs \in GoodGiven, n \in 0 .. 4 :
       Start(k, b, gs, n)
  \/ \E c \in Commits, n \in 1 .. 3 : MarkBad(c, n)
  \/ \E c \in Commits, n \in 1 .. 3 : MarkGood(c, n)
  \/ \E c \in Commits, n \in 1 .. 3 : MarkSkip(c, n)
  \/ \E n \in 1 .. 5 : Reset(n)

MCSpec == MCInit /\ [][MCNext]_vars

=============================================================================
