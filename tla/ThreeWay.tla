------------------------------ MODULE ThreeWay ------------------------------
(***************************************************************************)
(* The 3-way combine of merge.rs that merge, cherry-pick, revert and       *)
(* rebase share.  An entry of a manifest (the object id of one chunk or of *)
(* one file) is either an id or None (absent).  A keyed map of entries is  *)
(* a function whose value is None where the source's map has no key.       *)
(***************************************************************************)

CONSTANT None     \* the absent entry: Option::None

\* three_way returns Err(()): both sides changed the entry, differently.
Conflicting(base, ours, theirs) ==
  /\ ours # theirs
  /\ ours # base
  /\ theirs # base

\* The entry three_way keeps when it does not conflict.
three_way(base, ours, theirs) ==
  IF ours = base THEN theirs ELSE ours

\* merge_map: the keys it pushes on `conflicts`.
MapConflicts(base, ours, theirs) ==
  {k \in DOMAIN base : Conflicting(base[k], ours[k], theirs[k])}

\* merge_map: the map it fills (conflicting keys are left out of it).
merge_map(base, ours, theirs) ==
  [k \in DOMAIN base |->
     IF Conflicting(base[k], ours[k], theirs[k])
     THEN None
     ELSE three_way(base[k], ours[k], theirs[k])]

=============================================================================
