----------------------------- MODULE Published -----------------------------
(***************************************************************************)
(* What a remote without a server promises to whoever reads it             *)
(* (crates/repo/src/bucket.rs, the module comment): objects are only ever  *)
(* added, and a branch is moved to a commit, in one step, once everything  *)
(* the commit needs is there.                                              *)
(***************************************************************************)
CONSTANTS Objects, Tips, Reach, Branches, None

VARIABLES
  stored,      \* the objects a reader finds
  tips         \* the commit each branch names, None before it exists

vars == <<stored, tips>>

Init ==
  /\ stored = {}
  /\ tips = [b \in Branches |-> None]

Store ==
  /\ stored \subseteq stored' /\ stored' \subseteq Objects
  /\ UNCHANGED tips

Publish(b, t) ==
  /\ Reach[t] \subseteq stored
  /\ tips' = [tips EXCEPT ![b] = t]
  /\ UNCHANGED stored

Next == Store \/ \E b \in Branches, t \in Tips : Publish(b, t)

Spec == Init /\ [][Next]_vars

=============================================================================
