----------------------------- MODULE MCRemote ------------------------------
(***************************************************************************)
(* Remote.tla for TLC.                                                     *)
(***************************************************************************)
EXTENDS Remote, TLC

\* Neither the clients nor the worlds are told apart.
Symmetric == Permutations(Clients) \cup Permutations(Leaves)

============================================================================
