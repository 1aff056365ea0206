------------------------------- MODULE MCRepo -------------------------------
(***************************************************************************)
(* Repo.tla for TLC: every behaviour of at most MaxCommands commands.      *)
(***************************************************************************)
EXTENDS Repo

CONSTANT MaxCommands      \* bound on the commands (and rebase turns) run

VARIABLE ran              \* how many have run

MCInit == Init /\ ran = 0

MCNext == ran < MaxCommands /\ Next /\ ran' = ran + 1

MCSpec == MCInit /\ [][MCNext]_<<vars, ran>>

\* States that differ only in the number of commands run are the same.
RepoView == vars

=============================================================================
