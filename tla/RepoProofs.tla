----------------------------- MODULE RepoProofs -----------------------------
(***************************************************************************)
(* Proofs about Repo.tla.  Inv is inductive: the type invariant, a closed  *)
(* store and an index whose leaf objects are stored.  Two action           *)
(* properties follow from it: with what refs name (TipInv), that tips stay *)
(* readable; with what a merge base is, that a merge undoes no change.     *)
(***************************************************************************)
EXTENDS Repo, TLAPS

Inv == TypeOK /\ StoreClosed /\ IndexBacked

-----------------------------------------------------------------------------
(* Lemmas about the operators.                                             *)

\* The manifest a clean 3-way combine returns is a manifest, and every object
\* it names is named by one of the two sides (merge.rs merge_map).
LEMMA MergeMapLemma ==
  ASSUME NEW b \in Trees, NEW o \in Trees, NEW t \in Trees
  PROVE  /\ merge_map(b, o, t) \in Trees
         /\ LeavesOf(merge_map(b, o, t)) \subseteq LeavesOf(o) \cup LeavesOf(t)
BY NoneAssumption DEF merge_map, three_way, Conflicting, Trees, LeavesOf

\* The empty manifest names no object.
LEMMA EmptyTreeLemma == EmptyTree \in Trees /\ LeavesOf(EmptyTree) = {}
BY DEF EmptyTree, Trees, LeavesOf

\* HEAD is absent or a commit id.
LEMMA HeadCommitLemma == RefsOK => HeadCommit \in Commits \cup {None}
BY DEF RefsOK, HeadCommit

\* Whatever resolve_ref returns is a commit id.
LEMMA RevisionsLemma == TypeOK => Revisions \subseteq Commits
<1> SUFFICES ASSUME TypeOK, NEW c \in Revisions PROVE c \in Commits
  OBVIOUS
<1>1. HeadCommit \in Commits \cup {None}
  BY HeadCommitLemma DEF TypeOK
<1>2. \A t \in TagNames : TagCommit(t) \in Commits \cup {None}
  BY DEF TypeOK, OthersOK, TagCommit
<1>3. commits \subseteq Commits
  BY BoundAssumption DEF TypeOK, ObjectsOK, Commits
<1>4. \A d \in commits : \A i \in DOMAIN parents[d] : parents[d][i] \in Commits
  BY <1>3 DEF TypeOK, ObjectsOK
<1>5. \A b \in Branches : branch[b] \in Commits \cup {None} /\ branchLog[b] \subseteq Commits
  BY DEF TypeOK, RefsOK
<1> QED
  BY <1>1, <1>2, <1>3, <1>4, <1>5 DEF Revisions, TypeOK, RefsOK

\* Where it can be read, the effective staged manifest is a manifest whose
\* objects are stored (index.rs effective, head_tree).
LEMMA EffectiveLemma ==
  ASSUME Inv
  PROVE  /\ HeadReadable => HeadTree \in Trees /\ LeavesOf(HeadTree) \subseteq leaves
         /\ EffectiveReads => Effective \in Trees /\ LeavesOf(Effective) \subseteq leaves
<1>1. HeadReadable => HeadTree \in Trees /\ LeavesOf(HeadTree) \subseteq leaves
  BY EmptyTreeLemma, BoundAssumption
     DEF HeadReadable, HeadTree, Readable, Inv, TypeOK, ObjectsOK, StoreClosed, Commits
<1> QED
  BY <1>1 DEF EffectiveReads, Effective, Inv, TypeOK, OthersOK, IndexBacked

\* A walk visits the parents of every stored commit it visits.
LEMMA WalkLemma ==
  ASSUME ObjectsOK, NEW roots \in SUBSET Commits
  PROVE  /\ roots \subseteq Walk(roots)
         /\ \A c \in Walk(roots) \cap commits : ParentSet(c) \subseteq Walk(roots)
<1>1. roots \subseteq Walk(roots)
  BY DEF Walk
<1>2. ASSUME NEW c \in Walk(roots) \cap commits, NEW p \in ParentSet(c)
      PROVE  p \in Walk(roots)
  <2>1. c \in Commits
    BY <1>2 DEF Walk
  <2>2. p \in Commits
    BY <1>2, <2>1 DEF ParentSet, ParentsOf, ObjectsOK
  <2>3. ASSUME NEW T \in SUBSET Commits, roots \subseteq T, WalkClosed(T)
        PROVE  p \in T
    BY <1>2, <2>3 DEF Walk, WalkClosed
  <2> QED
    BY <2>2, <2>3 DEF Walk
<1> QED
  BY <1>1, <1>2

-----------------------------------------------------------------------------
(* Lemmas about the writes commands are made of.                           *)

\* Moving the tip to a commit id keeps the refs well typed, wherever the
\* command is killed.
LEMMA MoveTipLemma ==
  ASSUME RefsOK, NEW c \in Commits, NEW d \in Int, MoveTip(c, d)
  PROVE  RefsOK'
<1>1. CASE head.on # None
  <2>1. head.on \in Branches /\ head' = head
    BY <1>1 DEF RefsOK, MoveTip
  <2>2. Written(branch[head.on], c, d) \in Commits \cup {None}
    BY <2>1 DEF RefsOK, Written
  <2>3. branch' \in [Branches -> Commits \cup {None}]
    BY <1>1, <2>1, <2>2 DEF RefsOK, MoveTip, WriteBranch
  <2>4. branchLog' \in [Branches -> SUBSET Commits]
    BY <1>1, <2>1 DEF RefsOK, MoveTip, WriteBranch
  <2> QED
    BY <2>1, <2>3, <2>4 DEF RefsOK, MoveTip
<1>2. CASE head.on = None
  BY <1>2 DEF RefsOK, MoveTip, Written
<1> QED
  BY <1>1, <1>2

\* Writing a commit whose manifest, leaves and parents are in the store keeps
\* the store typed and closed.
LEMMA WriteCommitLemma ==
  ASSUME ObjectsOK, StoreClosed,
         NEW t \in Trees, NEW ps \in Seq(Commits), NEW done \in BOOLEAN,
         WriteCommit(t, ps, done),
         \A i \in DOMAIN ps : ps[i] \in commits,
         trees \subseteq trees', trees' \subseteq Trees,
         leaves \subseteq leaves', leaves' \subseteq Leaves,
         done => t \in trees' /\ LeavesOf(t) \subseteq leaves',
         shallow' = shallow
  PROVE  ObjectsOK' /\ StoreClosed'
<1>1. CASE done
  <2>1. /\ made < MaxCommits
        /\ made' = made + 1
        /\ tree' = [tree EXCEPT ![made + 1] = t]
        /\ parents' = [parents EXCEPT ![made + 1] = ps]
        /\ commits' = commits \cup {made + 1}
    BY <1>1 DEF WriteCommit
  <2>2. PICK new \in Commits : new = made + 1 /\ new \notin commits
    BY <2>1, BoundAssumption DEF ObjectsOK, Commits
  <2>3. ObjectsOK'
    <3>1. made' \in 0 .. MaxCommits /\ commits' \subseteq 1 .. made'
      BY <2>1, BoundAssumption DEF ObjectsOK
    <3>2. tree' \in [Commits -> Trees] /\ parents' \in [Commits -> Seq(Commits)]
      BY <2>1 DEF ObjectsOK
    <3> QED
      BY <3>1, <3>2 DEF ObjectsOK
  <2>4. ASSUME NEW c \in commits
        PROVE  tree'[c] = tree[c] /\ ParentSet(c)' = ParentSet(c)
    <3>1. c # made + 1 /\ c \in Commits
      BY <2>2, BoundAssumption DEF ObjectsOK, Commits
    <3>2. tree'[c] = tree[c] /\ parents'[c] = parents[c]
      BY <2>1, <3>1 DEF ObjectsOK
    <3> QED
      BY <3>1, <3>2 DEF ParentSet, ParentsOf
  <2>5. ParentSet(new)' \subseteq commits
    <3>1. parents'[new] = ps
      BY <2>1, <2>2 DEF ObjectsOK
    <3>2. ParentsOf(new)' = ps \/ ParentsOf(new)' = << >>
      BY <3>1 DEF ParentsOf
    <3> QED
      BY <3>2 DEF ParentSet
  <2>6. tree'[new] = t
    BY <2>1, <2>2 DEF ObjectsOK
  <2>7. ASSUME NEW c \in commits'
        PROVE  /\ tree'[c] \in trees'
               /\ LeavesOf(tree'[c]) \subseteq leaves'
               /\ ParentSet(c)' \subseteq commits'
    <3>1. CASE c = new
      BY <1>1, <2>1, <2>5, <2>6, <3>1
    <3>2. CASE c \in commits
      BY <2>1, <2>4, <3>2 DEF StoreClosed
    <3> QED
      BY <2>1, <2>2, <3>1, <3>2
  <2> QED
    BY <2>3, <2>7 DEF StoreClosed, LeavesOf
<1>2. CASE ~done
  BY <1>2 DEF WriteCommit, ObjectsOK, StoreClosed, ParentSet, ParentsOf, LeavesOf
<1> QED
  BY <1>1, <1>2

\* A step that leaves the objects and the boundary alone keeps the store.
LEMMA ObjectsFrame ==
  ASSUME ObjectsOK, StoreClosed, UNCHANGED <<objects, shallow>>
  PROVE  ObjectsOK' /\ StoreClosed'
BY DEF objects, ObjectsOK, StoreClosed, ParentSet, ParentsOf, LeavesOf

\* Clearing the index, or not, keeps it typed and backed.
LEMMA ClearIndexLemma ==
  ASSUME OthersOK, IndexBacked, index' \in {index, None}, leaves \subseteq leaves'
  PROVE  index' \in Trees \cup {None} /\ IndexBacked'
BY DEF OthersOK, IndexBacked, LeavesOf

-----------------------------------------------------------------------------
(* One lemma per command: it preserves Inv.                                *)

\* The common tail of the three forms of commit.
LEMMA CommitManifestInv ==
  ASSUME Inv, NEW t \in Trees, NEW packed \in SUBSET Leaves, NEW clears \in BOOLEAN,
         NEW n \in Nat, LeavesOf(t) \subseteq leaves \cup packed,
         CommitManifest(t, packed, clears, n)
  PROVE  Inv'
<1> DEFINE h     == HeadCommit
           fails == h \notin commits \cup {None}
           stale == (h # None /\ tree[h] = t) \/ (h = None /\ t = EmptyTree)
           goes  == ~fails /\ ~stale /\ n >= 3
           ps    == IF h = None THEN << >> ELSE <<h>>
<1>1. /\ leaves' = IF n >= 1 THEN leaves \cup packed ELSE leaves
      /\ trees' = IF n >= 2 THEN trees \cup {t} ELSE trees
      /\ WriteCommit(t, ps, goes)
      /\ IF goes THEN MoveTip(made + 1, n - 3) ELSE UNCHANGED refs
      /\ ClearIndex(goes /\ clears /\ n >= 8)
      /\ UNCHANGED <<tagObjs, shallow, tag, stash, rebase>>
  BY DEF CommitManifest
<1>2. TypeOK /\ StoreClosed /\ IndexBacked /\ ObjectsOK /\ RefsOK /\ OthersOK
  BY DEF Inv, TypeOK
<1>3. h \in Commits \cup {None}
  BY <1>2, HeadCommitLemma
<1>4. /\ trees \subseteq trees' /\ trees' \subseteq Trees
      /\ leaves \subseteq leaves' /\ leaves' \subseteq Leaves
      /\ goes => t \in trees' /\ LeavesOf(t) \subseteq leaves'
  BY <1>1, <1>2 DEF ObjectsOK
<1>5. CASE goes
  <2>1. ps \in Seq(Commits) /\ \A i \in DOMAIN ps : ps[i] \in commits
    <3>1. CASE h = None
      BY <3>1
    <3>2. CASE h # None
      <4>1. h \in commits /\ h \in Commits
        BY <1>3, <1>5, <3>2
      <4> QED
        BY <4>1, <3>2
    <3> QED
      BY <3>1, <3>2
  <2>2. ObjectsOK' /\ StoreClosed'
    <3> HIDE DEF ps, goes
    <3>1. WriteCommit(t, ps, TRUE)
      BY <1>1, <1>5 DEF WriteCommit
    <3> QED
      BY <1>1, <1>2, <1>4, <1>5, <2>1, <3>1, WriteCommitLemma
  <2>3. made + 1 \in Commits
    BY <1>1, <1>2, <1>5, BoundAssumption DEF WriteCommit, ObjectsOK, Commits
  <2>4. RefsOK'
    <3> HIDE DEF goes
    <3>1. PICK new \in Commits : new = made + 1
      BY <2>3
    <3>2. MoveTip(new, n - 3) /\ n - 3 \in Int
      BY <1>1, <1>5, <3>1
    <3> QED
      BY <1>2, <3>2, MoveTipLemma
  <2>5. index' \in Trees \cup {None} /\ IndexBacked'
    <3>1. index' \in {index, None}
      BY <1>1 DEF ClearIndex
    <3> QED
      BY <1>2, <1>4, <3>1, ClearIndexLemma
  <2> QED
    BY <1>1, <1>2, <2>2, <2>4, <2>5 DEF Inv, TypeOK, OthersOK
<1>6. CASE ~goes
  <2>1. UNCHANGED <<made, tree, parents, commits, refs, index>>
    BY <1>1, <1>6 DEF WriteCommit, ClearIndex
  <2>2. ObjectsOK' /\ StoreClosed' /\ IndexBacked'
    BY <1>1, <1>2, <1>4, <2>1
       DEF ObjectsOK, StoreClosed, IndexBacked, ParentSet, ParentsOf, LeavesOf
  <2>3. RefsOK' /\ OthersOK'
    BY <1>1, <1>2, <2>1 DEF RefsOK, OthersOK, refs
  <2> QED
    BY <2>2, <2>3 DEF Inv, TypeOK
<1> QED
  BY <1>5, <1>6

\* A manifest and its merge commit, then the tip.
LEMMA CommitMergedInv ==
  ASSUME Inv, NEW t \in Trees, NEW ps \in Seq(Commits), NEW n \in Nat,
         LeavesOf(t) \subseteq leaves,
         \A i \in DOMAIN ps : ps[i] \in commits,
         CommitMerged(t, ps, n)
  PROVE  Inv'
<1>1. TypeOK /\ StoreClosed /\ IndexBacked /\ ObjectsOK /\ RefsOK /\ OthersOK
  BY DEF Inv, TypeOK
<1>2. /\ trees \subseteq trees' /\ trees' \subseteq Trees
      /\ leaves \subseteq leaves' /\ leaves' \subseteq Leaves
      /\ n >= 2 => t \in trees' /\ LeavesOf(t) \subseteq leaves'
      /\ shallow' = shallow
  BY <1>1 DEF CommitMerged, ObjectsOK
<1>3. ObjectsOK' /\ StoreClosed'
  <2>1. WriteCommit(t, ps, n >= 2)
    BY DEF CommitMerged
  <2>2. (n >= 2) \in BOOLEAN
    OBVIOUS
  <2> QED
    BY <1>1, <1>2, <2>1, <2>2, WriteCommitLemma
<1>4. RefsOK'
  <2>1. CASE n >= 2
    <3>1. PICK new \in Commits : new = made + 1
      BY <1>1, <2>1, BoundAssumption DEF CommitMerged, WriteCommit, ObjectsOK, Commits
    <3>2. MoveTip(new, n - 2) /\ n - 2 \in Int
      BY <2>1, <3>1 DEF CommitMerged
    <3> QED
      BY <1>1, <3>2, MoveTipLemma
  <2>2. CASE ~(n >= 2)
    BY <1>1, <2>2 DEF CommitMerged, refs, RefsOK
  <2> QED
    BY <2>1, <2>2
<1>5. index' \in Trees \cup {None} /\ IndexBacked'
  <2>1. index' \in {index, None}
    BY DEF CommitMerged, ClearIndex
  <2> QED
    BY <1>1, <1>2, <2>1, ClearIndexLemma
<1> QED
  BY <1>1, <1>3, <1>4, <1>5 DEF Inv, TypeOK, OthersOK, CommitMerged

\* A command that only moves refs, and may clear the index.
LEMMA RefsOnlyInv ==
  ASSUME Inv, RefsOK', index' \in {index, None},
         UNCHANGED <<objects, shallow>>,
         tagObjs' \subseteq TagNames \X Commits,
         tag' \in [TagNames -> {None} \cup [annotated : BOOLEAN, object : Commits]],
         stash' \in Seq(Commits),
         rebase' \in {None} \cup [todo : SUBSET Commits, onto : Commits]
  PROVE  Inv'
<1>1. TypeOK /\ StoreClosed /\ IndexBacked /\ ObjectsOK /\ RefsOK /\ OthersOK
  BY DEF Inv, TypeOK
<1>2. ObjectsOK' /\ StoreClosed'
  BY <1>1, ObjectsFrame
<1>3. leaves \subseteq leaves'
  BY DEF objects
<1>4. index' \in Trees \cup {None} /\ IndexBacked'
  BY <1>1, <1>3, ClearIndexLemma
<1> QED
  BY <1>1, <1>2, <1>4 DEF Inv, TypeOK, OthersOK

\* commit -a, commit <world> and commit.
LEMMA CommitInv ==
  ASSUME Inv, NEW n \in Nat,
         \/ \E t \in Trees : CommitAll(t, n) \/ CommitWorld(t, n)
         \/ CommitIndex(n)
  PROVE  Inv'
<1>1. ASSUME NEW t \in Trees, CommitAll(t, n) \/ CommitWorld(t, n) PROVE Inv'
  <2>1. LeavesOf(t) \in SUBSET Leaves
    BY DEF LeavesOf, Trees
  <2>2. PICK clears \in BOOLEAN : CommitManifest(t, LeavesOf(t), clears, n)
    BY <1>1 DEF CommitAll, CommitWorld
  <2> QED
    BY <2>1, <2>2, CommitManifestInv
<1>2. ASSUME CommitIndex(n) PROVE Inv'
  <2>1. Effective \in Trees /\ LeavesOf(Effective) \subseteq leaves
    BY <1>2, EffectiveLemma DEF CommitIndex
  <2>2. PICK t \in Trees : t = Effective
    BY <2>1
  <2>3. CommitManifest(t, {}, TRUE, n) /\ LeavesOf(t) \subseteq leaves \cup {}
    BY <1>2, <2>1, <2>2 DEF CommitIndex
  <2> QED
    BY <2>3, CommitManifestInv
<1> QED
  BY <1>1, <1>2

\* add: the objects it stages are in the store before the index names them.
LEMMA AddInv ==
  ASSUME Inv, NEW w \in Trees, NEW scope \in SUBSET Keys, NEW n \in Nat,
         Add(w, scope, n)
  PROVE  Inv'
<1> DEFINE idx == [k \in Keys |-> IF k \in scope THEN w[k] ELSE Effective[k]]
<1>1. TypeOK /\ StoreClosed /\ IndexBacked /\ ObjectsOK /\ RefsOK /\ OthersOK
  BY DEF Inv, TypeOK
<1>2. /\ leaves \subseteq leaves' /\ leaves' \subseteq Leaves
      /\ n >= 2 => \A k \in scope : w[k] \in leaves' \cup {None}
      /\ UNCHANGED <<made, tree, parents, commits, trees>>
      /\ UNCHANGED <<tagObjs, shallow, refs, tag, stash, rebase>>
  BY <1>1 DEF Add, Trees, ObjectsOK
<1>3. ObjectsOK' /\ StoreClosed'
  BY <1>1, <1>2, ZenonT(60) DEF ObjectsOK, StoreClosed, ParentSet, ParentsOf, LeavesOf
<1>4. RefsOK'
  BY <1>1, <1>2 DEF RefsOK, refs
<1>5. index' \in Trees \cup {None} /\ IndexBacked'
  <2>1. CASE index' \in {index, None}
    BY <1>1, <1>2, <2>1, ClearIndexLemma
  <2>2. CASE index' \notin {index, None}
    <3>1. index' = idx /\ n >= 2 /\ EffectiveReads
      BY <2>2 DEF Add, StoreIndex
    <3>2. Effective \in Trees /\ LeavesOf(Effective) \subseteq leaves
      BY <3>1, EffectiveLemma
    <3>3. idx \in Trees
      BY <3>2 DEF Trees
    <3>4. \A k \in Keys : idx[k] \in leaves' \cup {None}
      BY <1>2, <3>1, <3>2 DEF LeavesOf
    <3>5. LeavesOf(idx) \subseteq leaves'
      BY <3>4 DEF LeavesOf
    <3> HIDE DEF idx
    <3> QED
      BY <3>1, <3>3, <3>5 DEF IndexBacked, LeavesOf
  <2> QED
    BY <2>1, <2>2
<1> QED
  BY <1>1, <1>2, <1>3, <1>4, <1>5 DEF Inv, TypeOK, OthersOK

\* restore --staged takes entries of a stored commit.
LEMMA RestoreStagedInv ==
  ASSUME Inv, NEW c \in Commits, NEW scope \in SUBSET Keys, RestoreStaged(c, scope)
  PROVE  Inv'
<1> DEFINE idx == [k \in Keys |-> IF k \in scope THEN tree[c][k] ELSE Effective[k]]
<1>1. TypeOK /\ StoreClosed /\ IndexBacked /\ ObjectsOK /\ RefsOK /\ OthersOK
  BY DEF Inv, TypeOK
<1>2. UNCHANGED <<objects, tagObjs, shallow, refs, tag, stash, rebase>>
  BY DEF RestoreStaged
<1>3. ObjectsOK' /\ StoreClosed'
  BY <1>1, <1>2, ObjectsFrame
<1>4. Effective \in Trees /\ LeavesOf(Effective) \subseteq leaves
  BY EffectiveLemma DEF RestoreStaged
<1>5. tree[c] \in Trees /\ LeavesOf(tree[c]) \subseteq leaves
  BY <1>1 DEF RestoreStaged, Readable, ObjectsOK, StoreClosed
<1>6. idx \in Trees /\ LeavesOf(idx) \subseteq leaves
  <2>1. idx \in Trees
    BY <1>4, <1>5 DEF Trees
  <2>2. \A k \in Keys : idx[k] \in leaves \cup {None}
    BY <1>4, <1>5 DEF LeavesOf
  <2> QED
    BY <2>1, <2>2 DEF LeavesOf
<1>7. index' \in {idx, None} /\ leaves' = leaves
  BY <1>2 DEF RestoreStaged, objects
<1>8. index' \in Trees \cup {None} /\ IndexBacked'
  <2> HIDE DEF idx
  <2> QED
    BY <1>6, <1>7 DEF IndexBacked, LeavesOf
<1> QED
  BY <1>1, <1>2, <1>3, <1>8 DEF Inv, TypeOK, OthersOK, RefsOK, refs

\* checkout, branch, branch -d, tag, tag -d and reset.
LEMMA CheckoutInv ==
  ASSUME Inv, NEW c \in Commits, NEW b \in Branches \cup {None}, NEW w \in BOOLEAN,
         NEW n \in Nat, Checkout(c, b, w, n)
  PROVE  Inv'
<1>1. RefsOK /\ OthersOK
  BY DEF Inv, TypeOK
<1>2. RefsOK'
  BY <1>1 DEF Checkout, RefsOK
<1> QED
  BY <1>1, <1>2, RefsOnlyInv DEF Checkout, ClearIndex, OthersOK

\* A new branch gets HEAD's commit, a commit id; the store is left alone.
LEMMA CreateBranchInv ==
  ASSUME Inv, NEW b \in Branches, NEW n \in Nat, CreateBranch(b, n)
  PROVE  Inv'
<1>1. RefsOK /\ OthersOK
  BY DEF Inv, TypeOK
<1>2. HeadCommit \in Commits
  BY <1>1, HeadCommitLemma DEF CreateBranch
<1>3. Written(branch[b], HeadCommit, n) \in Commits \cup {None}
  BY <1>1, <1>2 DEF Written, RefsOK
<1>4. /\ branch' = [branch EXCEPT ![b] = Written(branch[b], HeadCommit, n)]
      /\ branchLog' \in [Branches -> SUBSET Commits]
      /\ head' = head /\ headLog' = headLog
  BY <1>1, <1>2 DEF CreateBranch, WriteBranch, RefsOK
<1>5. RefsOK'
  BY <1>1, <1>3, <1>4 DEF RefsOK
<1> QED
  BY <1>1, <1>5, RefsOnlyInv DEF CreateBranch, OthersOK

\* Deleting a branch only forgets a ref and its log.
LEMMA DeleteBranchInv ==
  ASSUME Inv, NEW b \in Branches, NEW n \in Nat, DeleteBranch(b, n)
  PROVE  Inv'
<1>1. RefsOK /\ OthersOK
  BY DEF Inv, TypeOK
<1>2. RefsOK'
  BY <1>1 DEF DeleteBranch, RefsOK
<1> QED
  BY <1>1, <1>2, RefsOnlyInv DEF DeleteBranch, OthersOK

\* A tag names a revision, which is a commit id; the store only gains the
\* tag object.
LEMMA TagInv ==
  ASSUME Inv, NEW t \in TagNames, NEW n \in Nat,
         \/ \E c \in Commits, a \in BOOLEAN : Tag(t, c, a, n)
         \/ DeleteTag(t)
  PROVE  Inv'
<1>1. RefsOK /\ OthersOK
  BY DEF Inv, TypeOK
<1>2. ASSUME NEW c \in Commits, NEW a \in BOOLEAN, Tag(t, c, a, n) PROVE Inv'
  <2>1. RefsOK'
    BY <1>1, <1>2 DEF Tag, RefsOK, refs
  <2>2. Written(tag[t], [annotated |-> a, object |-> c], n - 1)
          \in {None} \cup [annotated : BOOLEAN, object : Commits]
    BY <1>1 DEF Written, OthersOK
  <2>3. tag' \in [TagNames -> {None} \cup [annotated : BOOLEAN, object : Commits]]
    BY <1>1, <1>2, <2>2 DEF Tag, OthersOK
  <2>4. tagObjs' \subseteq TagNames \X Commits
    BY <1>1, <1>2 DEF Tag, OthersOK
  <2> QED
    BY <1>1, <1>2, <2>1, <2>3, <2>4, RefsOnlyInv DEF Tag, OthersOK
<1>3. ASSUME DeleteTag(t) PROVE Inv'
  <2>1. RefsOK'
    BY <1>1, <1>3 DEF DeleteTag, RefsOK, refs
  <2>2. tag' \in [TagNames -> {None} \cup [annotated : BOOLEAN, object : Commits]]
    BY <1>1, <1>3 DEF DeleteTag, OthersOK
  <2> QED
    BY <1>1, <1>3, <2>1, <2>2, RefsOnlyInv DEF DeleteTag, OthersOK
<1> QED
  BY <1>2, <1>3

\* reset moves the tip without touching the store.
LEMMA ResetInv ==
  ASSUME Inv, NEW c \in Commits, NEW soft \in BOOLEAN, NEW n \in Nat, Reset(c, soft, n)
  PROVE  Inv'
<1>1. RefsOK /\ OthersOK
  BY DEF Inv, TypeOK
<1>2. RefsOK'
  BY <1>1, MoveTipLemma DEF Reset
<1> QED
  BY <1>1, <1>2, RefsOnlyInv DEF Reset, ClearIndex, OthersOK

\* merge, by fast-forward and by a merge commit.
LEMMA MergeInv ==
  ASSUME Inv, NEW theirs \in Commits, NEW n \in Nat,
         \/ MergeFastForward(theirs, n)
         \/ \E base \in Commits \cup {None} : MergeTrue(theirs, base, n)
  PROVE  Inv'
<1>1. RefsOK /\ OthersOK /\ ObjectsOK /\ StoreClosed
  BY DEF Inv, TypeOK
<1>2. ASSUME MergeFastForward(theirs, n) PROVE Inv'
  <2>1. RefsOK'
    BY <1>1, <1>2, MoveTipLemma DEF MergeFastForward
  <2> QED
    BY <1>1, <1>2, <2>1, RefsOnlyInv DEF MergeFastForward, ClearIndex, OthersOK
<1>3. ASSUME NEW base \in Commits \cup {None}, MergeTrue(theirs, base, n) PROVE Inv'
  <2> DEFINE baseT == IF base = None THEN EmptyTree ELSE tree[base]
  <2>1. PICK ours \in Commits : ours = HeadCommit
    BY <1>1, <1>3, HeadCommitLemma DEF MergeTrue
  <2>2. baseT \in Trees /\ tree[ours] \in Trees /\ tree[theirs] \in Trees
    BY <1>1, <2>1, EmptyTreeLemma DEF ObjectsOK
  <2>3. /\ ours \in commits /\ theirs \in commits
        /\ LeavesOf(tree[ours]) \subseteq leaves /\ LeavesOf(tree[theirs]) \subseteq leaves
    BY <1>1, <1>3, <2>1 DEF MergeTrue, Readable, StoreClosed
  <2>4. PICK t \in Trees : t = merge_map(baseT, tree[ours], tree[theirs])
    BY <2>2, MergeMapLemma
  <2>5. LeavesOf(t) \subseteq leaves
    BY <2>2, <2>3, <2>4, MergeMapLemma
  <2>6. CommitMerged(t, <<ours, theirs>>, n)
    BY <1>3, <2>1, <2>4 DEF MergeTrue
  <2>7. /\ <<ours, theirs>> \in Seq(Commits)
        /\ \A i \in DOMAIN <<ours, theirs>> : <<ours, theirs>>[i] \in commits
    BY <2>3
  <2> QED
    BY <2>5, <2>6, <2>7, CommitMergedInv
<1> QED
  BY <1>2, <1>3

\* The manifest of a commit's first parent, where it can be read.
LEMMA ParentTreeLemma ==
  ASSUME Inv, NEW c \in commits, ParentReads(c)
  PROVE  ParentTree(c) \in Trees /\ LeavesOf(ParentTree(c)) \subseteq leaves
<1>1. ObjectsOK /\ StoreClosed
  BY DEF Inv, TypeOK
<1>2. CASE ParentsOf(c) = << >>
  BY <1>2, EmptyTreeLemma DEF ParentTree
<1>3. CASE ParentsOf(c) # << >>
  <2>1. ParentsOf(c)[1] \in commits
    BY <1>3 DEF ParentReads, Readable
  <2>2. PICK p \in commits : p = ParentsOf(c)[1]
    BY <2>1
  <2>3. p \in Commits
    BY <1>1, BoundAssumption DEF ObjectsOK, Commits
  <2> QED
    BY <1>1, <1>3, <2>2, <2>3 DEF ParentTree, ObjectsOK, StoreClosed
<1> QED
  BY <1>2, <1>3

\* cherry-pick and revert.
LEMMA ReplayInv ==
  ASSUME Inv, NEW c \in Commits, NEW n \in Nat, CherryPick(c, n) \/ Revert(c, n)
  PROVE  Inv'
<1>1. RefsOK /\ OthersOK /\ ObjectsOK /\ StoreClosed
  BY DEF Inv, TypeOK
<1>2. PICK onto \in Commits : onto = HeadCommit
  BY <1>1, HeadCommitLemma DEF CherryPick, Revert
<1>3. /\ onto \in commits /\ c \in commits /\ ParentReads(c)
      /\ tree[onto] \in Trees /\ LeavesOf(tree[onto]) \subseteq leaves
      /\ tree[c] \in Trees /\ LeavesOf(tree[c]) \subseteq leaves
  BY <1>1, <1>2 DEF CherryPick, Revert, Readable, StoreClosed, ObjectsOK
<1>4. ParentTree(c) \in Trees /\ LeavesOf(ParentTree(c)) \subseteq leaves
  BY <1>3, ParentTreeLemma
<1>5. <<onto>> \in Seq(Commits) /\ \A i \in DOMAIN <<onto>> : <<onto>>[i] \in commits
  BY <1>3
<1>6. ASSUME CherryPick(c, n) PROVE Inv'
  <2>1. PICK t \in Trees : t = merge_map(ParentTree(c), tree[onto], tree[c])
    BY <1>3, <1>4, MergeMapLemma
  <2>2. LeavesOf(t) \subseteq leaves
    BY <1>3, <1>4, <2>1, MergeMapLemma
  <2>3. CommitMerged(t, <<onto>>, n)
    BY <1>2, <1>6, <2>1 DEF CherryPick
  <2> QED
    BY <1>5, <2>2, <2>3, CommitMergedInv
<1>7. ASSUME Revert(c, n) PROVE Inv'
  <2>1. PICK t \in Trees : t = merge_map(tree[c], tree[onto], ParentTree(c))
    BY <1>3, <1>4, MergeMapLemma
  <2>2. LeavesOf(t) \subseteq leaves
    BY <1>3, <1>4, <2>1, MergeMapLemma
  <2>3. CommitMerged(t, <<onto>>, n)
    BY <1>2, <1>7, <2>1 DEF Revert
  <2> QED
    BY <1>5, <2>2, <2>3, CommitMergedInv
<1> QED
  BY <1>6, <1>7

\* rebase: collecting the commits, one replayed commit, giving up, and moving
\* the tip.
LEMMA RebaseInv ==
  ASSUME Inv, NEW n \in Nat,
         \/ \E c \in Commits : \E base \in Commits \cup {None} : RebaseStart(c, base)
         \/ RebaseAbort
         \/ RebaseFinish(n)
  PROVE  Inv'
<1>1. RefsOK /\ OthersOK
  BY DEF Inv, TypeOK
<1>2. ASSUME NEW c \in Commits, NEW base \in Commits \cup {None}, RebaseStart(c, base)
      PROVE  Inv'
  <2>1. Chain(HeadCommit, base) \subseteq Commits
    BY DEF Chain
  <2>2. rebase' \in {None} \cup [todo : SUBSET Commits, onto : Commits]
    BY <1>2, <2>1 DEF RebaseStart
  <2>3. RefsOK'
    BY <1>1, <1>2 DEF RebaseStart, RefsOK, refs
  <2> QED
    BY <1>1, <1>2, <2>2, <2>3, RefsOnlyInv DEF RebaseStart, OthersOK
<1>3. ASSUME RebaseAbort PROVE Inv'
  <2>1. RefsOK'
    BY <1>1, <1>3 DEF RebaseAbort, RefsOK, refs
  <2> QED
    BY <1>1, <1>3, <2>1, RefsOnlyInv DEF RebaseAbort, OthersOK
<1>4. ASSUME RebaseFinish(n) PROVE Inv'
  <2>1. rebase.onto \in Commits
    BY <1>1, <1>4 DEF RebaseFinish, OthersOK
  <2>2. RefsOK'
    BY <1>1, <1>4, <2>1, MoveTipLemma DEF RebaseFinish
  <2> QED
    BY <1>1, <1>4, <2>2, RefsOnlyInv DEF RebaseFinish, ClearIndex, OthersOK
<1> QED
  BY <1>2, <1>3, <1>4

\* A replayed commit has its manifest's leaves, because a merge invents none,
\* and its parent, because the parent was read.
LEMMA RebasePickInv ==
  ASSUME Inv, NEW n \in Nat, RebasePick(n)
  PROVE  Inv'
<1>1. RefsOK /\ OthersOK /\ ObjectsOK /\ StoreClosed /\ IndexBacked
  BY DEF Inv, TypeOK
<1>2. rebase \in [todo : SUBSET Commits, onto : Commits]
  BY <1>1 DEF RebasePick, OthersOK
<1>3. PICK onto \in Commits : onto = rebase.onto
  BY <1>2
<1>4. PICK c \in rebase.todo :
        /\ ParentReads(c) /\ Readable(c) /\ Readable(onto)
        /\ LET t == merge_map(ParentTree(c), tree[onto], tree[c])
           IN  /\ trees' = IF n >= 1 THEN trees \cup {t} ELSE trees
               /\ WriteCommit(t, <<onto>>, n >= 2)
        /\ rebase' = IF n >= 2
                     THEN [todo |-> rebase.todo \ {c}, onto |-> made + 1]
                     ELSE None
  BY <1>3 DEF RebasePick
<1>5. /\ c \in Commits /\ onto \in commits /\ c \in commits
      /\ tree[onto] \in Trees /\ LeavesOf(tree[onto]) \subseteq leaves
      /\ tree[c] \in Trees /\ LeavesOf(tree[c]) \subseteq leaves
  BY <1>1, <1>2, <1>4 DEF Readable, StoreClosed, ObjectsOK
<1>6. ParentTree(c) \in Trees
  BY <1>4, <1>5, ParentTreeLemma
<1>7. PICK t \in Trees : t = merge_map(ParentTree(c), tree[onto], tree[c])
  BY <1>5, <1>6, MergeMapLemma
<1>8. LeavesOf(t) \subseteq leaves
  BY <1>5, <1>6, <1>7, MergeMapLemma
<1>9. /\ trees' = IF n >= 1 THEN trees \cup {t} ELSE trees
      /\ WriteCommit(t, <<onto>>, n >= 2)
  BY <1>4, <1>7
<1>10. /\ trees \subseteq trees' /\ trees' \subseteq Trees
       /\ leaves \subseteq leaves' /\ leaves' \subseteq Leaves
       /\ n >= 2 => t \in trees' /\ LeavesOf(t) \subseteq leaves'
       /\ shallow' = shallow
  BY <1>1, <1>8, <1>9 DEF RebasePick, ObjectsOK
<1>11. ObjectsOK' /\ StoreClosed'
  <2>1. <<onto>> \in Seq(Commits) /\ \A i \in DOMAIN <<onto>> : <<onto>>[i] \in commits
    BY <1>5
  <2>2. (n >= 2) \in BOOLEAN
    OBVIOUS
  <2> QED
    BY <1>1, <1>9, <1>10, <2>1, <2>2, WriteCommitLemma
<1>12. rebase' \in {None} \cup [todo : SUBSET Commits, onto : Commits]
  <2>1. CASE n >= 2
    <3>1. PICK new \in Commits : new = made + 1
      BY <1>1, <1>9, <2>1, BoundAssumption DEF WriteCommit, ObjectsOK, Commits
    <3>2. rebase' = [todo |-> rebase.todo \ {c}, onto |-> new]
      BY <1>4, <2>1, <3>1
    <3> QED
      BY <1>2, <3>2
  <2>2. CASE ~(n >= 2)
    BY <1>4, <2>2
  <2> QED
    BY <2>1, <2>2
<1>13. RefsOK' /\ IndexBacked'
  BY <1>1 DEF RebasePick, RefsOK, refs, IndexBacked, LeavesOf
<1> QED
  BY <1>1, <1>11, <1>12, <1>13 DEF Inv, TypeOK, OthersOK, RebasePick

\* stash push writes leaves, manifest, commit and stack in that order.
LEMMA StashPushInv ==
  ASSUME Inv, NEW t \in Trees, NEW n \in Nat, StashPush(t, n)
  PROVE  Inv'
<1> DEFINE h    == HeadCommit
           goes == /\ h \in commits \cup {None}
                   /\ h # None => tree[h] # t
                   /\ n >= 3
           ps   == IF h = None THEN << >> ELSE <<h>>
<1>1. TypeOK /\ StoreClosed /\ IndexBacked /\ ObjectsOK /\ RefsOK /\ OthersOK
  BY DEF Inv, TypeOK
<1>2. h \in Commits \cup {None}
  BY <1>1, HeadCommitLemma
<1>3. /\ leaves' = IF n >= 1 THEN leaves \cup LeavesOf(t) ELSE leaves
      /\ trees' = IF n >= 2 THEN trees \cup {t} ELSE trees
      /\ WriteCommit(t, ps, goes)
      /\ stash' = IF goes THEN WrittenStack(Append(stash, made + 1), n - 3) ELSE stash
      /\ index' \in {index, None}
      /\ UNCHANGED <<tagObjs, shallow, refs, tag, rebase>>
  BY DEF StashPush, ClearIndex
<1>4. /\ trees \subseteq trees' /\ trees' \subseteq Trees
      /\ leaves \subseteq leaves' /\ leaves' \subseteq Leaves
      /\ goes => t \in trees' /\ LeavesOf(t) \subseteq leaves'
  BY <1>1, <1>3 DEF ObjectsOK, LeavesOf, Trees
<1>5. goes => ps \in Seq(Commits) /\ \A i \in DOMAIN ps : ps[i] \in commits
  <2>1. CASE h = None
    BY <2>1
  <2>2. CASE h # None
    BY <1>2, <2>2
  <2> QED
    BY <2>1, <2>2
<1> HIDE DEF h, goes, ps
<1>6. ObjectsOK' /\ StoreClosed'
  <2>1. CASE goes
    <3>1. WriteCommit(t, ps, TRUE)
      BY <1>3, <2>1 DEF WriteCommit
    <3> QED
      BY <1>1, <1>3, <1>4, <1>5, <2>1, <3>1, WriteCommitLemma
  <2>2. CASE ~goes
    <3>1. UNCHANGED <<made, tree, parents, commits, shallow>>
      BY <1>3, <2>2 DEF WriteCommit
    <3>2. ObjectsOK'
      BY <1>1, <1>4, <3>1 DEF ObjectsOK
    <3>3. \A c \in commits : ParentSet(c)' = ParentSet(c)
      BY <3>1 DEF ParentSet, ParentsOf
    <3> QED
      BY <1>1, <1>4, <3>1, <3>2, <3>3 DEF StoreClosed
  <2> QED
    BY <2>1, <2>2
<1>7. stash' \in Seq(Commits)
  <2>1. CASE goes
    <3>1. PICK new \in Commits : new = made + 1
      BY <1>1, <1>3, <2>1, BoundAssumption DEF WriteCommit, ObjectsOK, Commits
    <3>2. stash' = WrittenStack(Append(stash, new), n - 3)
      BY <1>3, <2>1, <3>1
    <3> QED
      BY <1>1, <3>2 DEF WrittenStack, OthersOK
  <2>2. CASE ~goes
    BY <1>1, <1>3, <2>2 DEF OthersOK
  <2> QED
    BY <2>1, <2>2
<1>8. index' \in Trees \cup {None} /\ IndexBacked'
  BY <1>1, <1>3, <1>4, ClearIndexLemma
<1> QED
  BY <1>1, <1>3, <1>6, <1>7, <1>8 DEF Inv, TypeOK, OthersOK, RefsOK, refs

\* stash pop and drop shorten the stack.
LEMMA StashPopInv ==
  ASSUME Inv, NEW n \in Nat, StashPop(n) \/ StashDrop(n)
  PROVE  Inv'
<1>1. RefsOK /\ OthersOK
  BY DEF Inv, TypeOK
<1>2. SubSeq(stash, 1, Len(stash) - 1) \in Seq(Commits)
  BY <1>1 DEF OthersOK, StashPop, StashDrop
<1>3. stash' \in Seq(Commits)
  <2>1. PICK rest \in Seq(Commits) : stash' = WrittenStack(rest, n)
    BY <1>2 DEF StashPop, StashDrop
  <2> QED
    BY <1>1, <2>1 DEF WrittenStack, OthersOK
<1>4. RefsOK' /\ index' \in {index, None}
  BY <1>1 DEF StashPop, StashDrop, RefsOK, refs, ClearIndex
<1> QED
  BY <1>1, <1>3, <1>4, RefsOnlyInv DEF StashPop, StashDrop, OthersOK

\* The roots of gc are commit ids.
LEMMA TipsLemma == TypeOK => Tips \subseteq Commits
<1> SUFFICES ASSUME TypeOK PROVE Tips \subseteq Commits
  OBVIOUS
<1>1. HeadCommit \in Commits \cup {None}
  BY HeadCommitLemma DEF TypeOK
<1>2. \A b \in FlatBranches : branch[b] \in Commits \cup {None}
  BY DEF TypeOK, RefsOK, Branches
<1>3. TagTips \subseteq Commits
  BY DEF TypeOK, OthersOK, TagTips, TagCommit
<1> QED
  BY <1>1, <1>2, <1>3 DEF Tips

\* gc keeps whole histories: the live commits are closed under parents, and
\* their manifests and leaves are live too.
LEMMA GcInv ==
  ASSUME Inv, Gc
  PROVE  Inv'
<1>1. TypeOK /\ StoreClosed /\ IndexBacked /\ ObjectsOK /\ RefsOK /\ OthersOK
  BY DEF Inv, TypeOK
<1>2. Tips \subseteq Commits
  BY <1>1, TipsLemma
<1>3. Live \subseteq commits /\ \A c \in Live : ParentSet(c) \subseteq Live
  BY <1>1, <1>2, WalkLemma DEF Live, StoreClosed
<1> DEFINE kept == (UNION {LeavesOf(tree[c]) : c \in {d \in Live : Readable(d)}})
                   \cup (IF index = None THEN {} ELSE LeavesOf(index))
<1>4. /\ commits' = Live
      /\ trees' = trees \cap {tree[c] : c \in Live}
      /\ leaves' = leaves \cap kept
      /\ tagObjs' \subseteq tagObjs
      /\ UNCHANGED <<made, tree, parents, shallow, refs, tag, index, stash, rebase>>
  BY DEF Gc
<1>5. ObjectsOK'
  BY <1>1, <1>3, <1>4 DEF ObjectsOK
<1>6. ASSUME NEW c \in Live
      PROVE  tree[c] \in trees' /\ LeavesOf(tree[c]) \subseteq leaves'
  <2>1. Readable(c) /\ LeavesOf(tree[c]) \subseteq leaves
    BY <1>1, <1>3 DEF StoreClosed, Readable
  <2>2. LeavesOf(tree[c]) \subseteq kept
    BY <2>1
  <2> QED
    BY <1>4, <2>1, <2>2 DEF Readable
<1>7. \A c \in Live : ParentSet(c)' = ParentSet(c)
  BY <1>4 DEF ParentSet, ParentsOf
<1>8. StoreClosed'
  BY <1>3, <1>4, <1>6, <1>7, ZenonT(60) DEF StoreClosed, LeavesOf
<1>9. IndexBacked'
  <2>1. index # None => LeavesOf(index) \subseteq leaves \cap kept
    BY <1>1 DEF IndexBacked
  <2> HIDE DEF kept
  <2> QED
    BY <1>4, <2>1 DEF IndexBacked, LeavesOf
<1> QED
  BY <1>1, <1>4, <1>5, <1>8, <1>9 DEF Inv, TypeOK, OthersOK, RefsOK, refs

\* A fresh repository and a shallow clone satisfy Inv.
LEMMA InitInv == Init => Inv
<1>1. ASSUME NEW n \in {0, 2}, NEW t \in Trees, InitWith(n, t), n <= MaxCommits,
             n = 0 => t = EmptyTree
      PROVE  Inv
  <2>1. ObjectsOK
    <3>1. made \in 0 .. MaxCommits /\ commits \subseteq 1 .. made
      BY <1>1, BoundAssumption DEF InitWith, Commits
    <3>2. tree \in [Commits -> Trees] /\ commits \subseteq Commits
      BY <1>1, EmptyTreeLemma DEF InitWith
    <3>3. parents \in [Commits -> Seq(Commits)]
      <4>1. n = 2 => <<1>> \in Seq(Commits)
        BY <1>1, BoundAssumption DEF Commits
      <4>2. << >> \in Seq(Commits)
        OBVIOUS
      <4> QED
        BY <1>1, <4>1, <4>2 DEF InitWith
    <3>4. trees \subseteq Trees
      BY <1>1, <3>2 DEF InitWith
    <3>5. leaves \subseteq Leaves
      BY <1>1, <3>2 DEF InitWith, LeavesOf, Trees
    <3> QED
      BY <3>1, <3>2, <3>3, <3>4, <3>5 DEF ObjectsOK
  <2>2. RefsOK
    <3>1. Main \in Branches /\ (n = 2 => 2 \in Commits) /\ commits \subseteq Commits
      BY <1>1, MainAssumption, BoundAssumption DEF Branches, Commits, InitWith
    <3> QED
      BY <1>1, <3>1 DEF RefsOK, InitWith
  <2>3. OthersOK
    BY <1>1 DEF OthersOK, InitWith
  <2>4. StoreClosed
    BY <1>1 DEF StoreClosed, InitWith, ParentSet, ParentsOf
  <2>5. IndexBacked
    BY <1>1 DEF IndexBacked, InitWith
  <2> QED
    BY <2>1, <2>2, <2>3, <2>4, <2>5 DEF Inv, TypeOK
<1> QED
  BY <1>1, EmptyTreeLemma, BoundAssumption DEF Init

\* Every command, killed anywhere, preserves Inv.
LEMMA NextInv == Inv /\ [Next]_vars => Inv'
<1> SUFFICES ASSUME Inv, [Next]_vars PROVE Inv'
  OBVIOUS
<1>1. Revisions \subseteq Commits
  BY RevisionsLemma DEF Inv
<1>2. CASE \E t \in Trees, n \in 0 .. 8 : CommitAll(t, n)
  BY <1>2, CommitInv
<1>3. CASE \E t \in Trees, n \in 0 .. 7 : CommitWorld(t, n)
  BY <1>3, CommitInv
<1>4. CASE \E n \in 0 .. 8 : CommitIndex(n)
  BY <1>4, CommitInv
<1>5. CASE \E w \in Trees, scope \in SUBSET Keys, n \in 0 .. 2 : Add(w, scope, n)
  BY <1>5, AddInv
<1>6. CASE \E c \in Revisions, scope \in SUBSET Keys : RestoreStaged(c, scope)
  BY <1>1, <1>6, RestoreStagedInv
<1>7. CASE \E c \in Revisions, b \in Branches \cup {None}, w \in BOOLEAN, n \in 0 .. 4 :
             Checkout(c, b, w, n)
  BY <1>1, <1>7, CheckoutInv
<1>8. CASE \E b \in Branches, n \in 0 .. 3 : CreateBranch(b, n)
  BY <1>8, CreateBranchInv
<1>9. CASE \E b \in Branches, n \in 0 .. 2 : DeleteBranch(b, n)
  BY <1>9, DeleteBranchInv
<1>10. CASE \E t \in TagNames, c \in Revisions, a \in BOOLEAN, n \in 0 .. 3 : Tag(t, c, a, n)
  BY <1>1, <1>10, TagInv
<1>11. CASE \E t \in TagNames : DeleteTag(t)
  BY <1>11, TagInv
<1>12. CASE \E c \in Revisions, soft \in BOOLEAN, n \in 0 .. 5 : Reset(c, soft, n)
  BY <1>1, <1>12, ResetInv
<1>13. CASE \E c \in Revisions, n \in 0 .. 5 : MergeFastForward(c, n)
  BY <1>1, <1>13, MergeInv
<1>14. CASE \E c \in Revisions, n \in 0 .. 7 :
              \E base \in Commits \cup {None} : MergeTrue(c, base, n)
  BY <1>1, <1>14, MergeInv
<1>15. CASE \E c \in Revisions, n \in 0 .. 7 : CherryPick(c, n)
  BY <1>1, <1>15, ReplayInv
<1>16. CASE \E c \in Revisions, n \in 0 .. 7 : Revert(c, n)
  BY <1>1, <1>16, ReplayInv
<1>17. CASE \E c \in Revisions : \E base \in Commits \cup {None} : RebaseStart(c, base)
  BY <1>1, <1>17, RebaseInv
<1>18. CASE \E n \in 0 .. 2 : RebasePick(n)
  BY <1>18, RebasePickInv
<1>19. CASE RebaseAbort
  BY <1>19, RebaseInv
<1>20. CASE \E n \in 0 .. 5 : RebaseFinish(n)
  BY <1>20, RebaseInv
<1>21. CASE \E t \in Trees, n \in 0 .. 6 : StashPush(t, n)
  BY <1>21, StashPushInv
<1>22. CASE \E n \in 0 .. 3 : StashPop(n)
  BY <1>22, StashPopInv
<1>23. CASE \E n \in 0 .. 2 : StashDrop(n)
  BY <1>23, StashPopInv
<1>24. CASE Gc
  BY <1>24, GcInv
<1>25. CASE UNCHANGED vars
  BY <1>25 DEF Inv, vars, objects, refs, TypeOK, ObjectsOK, RefsOK, OthersOK,
               StoreClosed, IndexBacked, ParentSet, ParentsOf, LeavesOf
<1> QED
  BY <1>2, <1>3, <1>4, <1>5, <1>6, <1>7, <1>8, <1>9, <1>10, <1>11, <1>12, <1>13,
     <1>14, <1>15, <1>16, <1>17, <1>18, <1>19, <1>20, <1>21, <1>22, <1>23, <1>24,
     <1>25 DEF Next

-----------------------------------------------------------------------------
(* The invariants, for every set of keys, objects, branches and tags, every *)
(* bound on the commits, and any number of commands.                       *)

\* Inv holds in every reachable state of a repository.
THEOREM InvHolds == Spec => []Inv
BY InitInv, NextInv, PTL DEF Spec

\* Every variable keeps its type under every command, killed anywhere.
THEOREM TypeCorrect == Spec => []TypeOK
<1>1. Inv => TypeOK
  BY DEF Inv
<1> QED
  BY <1>1, InvHolds, PTL

\* The object store is closed: a stored commit's manifest, leaves and parents
\* (down to the shallow boundary) are stored, whatever commands, kills and
\* gc runs came before.
THEOREM StoreStaysClosed == Spec => []StoreClosed
<1>1. Inv => StoreClosed
  BY DEF Inv
<1> QED
  BY <1>1, InvHolds, PTL

\* The leaf objects of a staged index are stored until it is committed or
\* dropped, gc included.
THEOREM IndexStaysBacked == Spec => []IndexBacked
<1>1. Inv => IndexBacked
  BY DEF Inv
<1> QED
  BY <1>1, InvHolds, PTL

-----------------------------------------------------------------------------
(* Refs stay at stored commits.  Two more facts are needed: the object of   *)
(* an annotated tag is stored, so gc does not overlook the tag; and a       *)
(* running rebase will move the tip to a revision.                         *)

TagsBacked ==
  \A t \in TagNames :
    tag[t] # None /\ tag[t].annotated => <<t, tag[t].object>> \in tagObjs

RebaseOnto == rebase # None => rebase.onto \in Revisions

TipInv == Inv /\ TagsBacked /\ RebaseOnto

\* A command that stores commits only, and whose new tips it was told or has
\* just stored.
Steady == commits \subseteq commits' /\ NamedTips' \subseteq Revisions \cup commits'

\* Every commit a ref names is a revision.
LEMMA NamedTipsLemma == NamedTips \subseteq Revisions
BY DEF NamedTips, Revisions, Branches

\* Leaving the refs alone leaves the tips alone.
LEMMA SameTipsLemma ==
  ASSUME UNCHANGED <<refs, tag>>, commits \subseteq commits'
  PROVE  Steady
<1>1. NamedTips' = NamedTips
  BY DEF refs, NamedTips, HeadCommit, TagCommit
<1> QED
  BY <1>1, NamedTipsLemma DEF Steady

\* Moving the tip adds no tip but the one it moves to.
LEMMA MoveTipTips ==
  ASSUME RefsOK, NEW d \in Int, NEW c \in Revisions \cup commits', MoveTip(c, d),
         tag' = tag, commits \subseteq commits'
  PROVE  Steady
<1>1. head.on \in Branches \cup {None}
  BY DEF RefsOK
<1>2. \A b \in Branches : branch'[b] \in {branch[b], None, c}
  BY <1>1 DEF MoveTip, WriteBranch, Written, RefsOK
<1>3. HeadCommit' \in {HeadCommit, None, c}
  <2>1. CASE head.on # None
    BY <1>1, <1>2, <2>1 DEF MoveTip, HeadCommit
  <2>2. CASE head.on = None
    BY <2>2 DEF MoveTip, HeadCommit, Written, RefsOK
  <2> QED
    BY <2>1, <2>2
<1>4. \A t \in TagNames : TagCommit(t)' = TagCommit(t)
  BY DEF TagCommit
<1>5. NamedTips' \subseteq NamedTips \cup {c}
  BY <1>2, <1>3, <1>4 DEF NamedTips, Branches
<1> QED
  BY <1>5, NamedTipsLemma DEF Steady

\* Writing a commit only adds to the store.
LEMMA WriteCommitGrows ==
  ASSUME NEW t, NEW ps, NEW done \in BOOLEAN, WriteCommit(t, ps, done)
  PROVE  commits \subseteq commits' /\ (done => made + 1 \in commits')
BY DEF WriteCommit

\* The commands that store a commit and move the tip to it.
LEMMA CommitTips ==
  ASSUME Inv, NEW t, NEW n \in Nat,
         \/ \E packed, clears : CommitManifest(t, packed, clears, n)
         \/ \E ps : CommitMerged(t, ps, n)
  PROVE  Steady
<1>1. RefsOK
  BY DEF Inv, TypeOK
<1>2. ASSUME NEW packed, NEW clears, CommitManifest(t, packed, clears, n) PROVE Steady
  <2> DEFINE h     == HeadCommit
             fails == h \notin commits \cup {None}
             stale == (h # None /\ tree[h] = t) \/ (h = None /\ t = EmptyTree)
             goes  == ~fails /\ ~stale /\ n >= 3
  <2>1. PICK ps : WriteCommit(t, ps, goes)
    BY <1>2 DEF CommitManifest
  <2>2. goes \in BOOLEAN
    OBVIOUS
  <2>3. /\ IF goes THEN MoveTip(made + 1, n - 3) ELSE UNCHANGED refs
        /\ tag' = tag
    BY <1>2 DEF CommitManifest
  <2> HIDE DEF goes
  <2>4. commits \subseteq commits' /\ (goes => made + 1 \in commits')
    BY <2>1, <2>2, WriteCommitGrows
  <2>5. CASE goes
    <3>1. PICK new \in commits' : new = made + 1
      BY <2>4, <2>5
    <3>2. MoveTip(new, n - 3) /\ n - 3 \in Int
      BY <2>3, <2>5, <3>1
    <3> QED
      BY <1>1, <2>3, <2>4, <3>2, MoveTipTips
  <2>6. CASE ~goes
    BY <2>3, <2>4, <2>6, SameTipsLemma
  <2> QED
    BY <2>5, <2>6
<1>3. ASSUME NEW ps, CommitMerged(t, ps, n) PROVE Steady
  <2>1. commits \subseteq commits' /\ (n >= 2 => made + 1 \in commits')
    <3>1. WriteCommit(t, ps, n >= 2) /\ (n >= 2) \in BOOLEAN
      BY <1>3 DEF CommitMerged
    <3> QED
      BY <3>1, WriteCommitGrows
  <2>2. CASE n >= 2
    <3>1. PICK new \in commits' : new = made + 1
      BY <2>1, <2>2
    <3>2. MoveTip(new, n - 2) /\ n - 2 \in Int /\ tag' = tag
      BY <1>3, <2>2, <3>1 DEF CommitMerged
    <3> QED
      BY <1>1, <2>1, <3>2, MoveTipTips
  <2>3. CASE ~(n >= 2)
    BY <1>3, <2>1, <2>3, SameTipsLemma DEF CommitMerged
  <2> QED
    BY <2>2, <2>3
<1> QED
  BY <1>2, <1>3

\* checkout and branch.
LEMMA CheckoutTips ==
  ASSUME Inv, NEW c \in Revisions, NEW b \in Branches \cup {None}, NEW w \in BOOLEAN,
         NEW n \in Nat, Checkout(c, b, w, n)
  PROVE  Steady
<1>1. branch' = branch /\ tag' = tag /\ commits' = commits
  BY DEF Checkout, objects
<1>2. HeadCommit' \in {HeadCommit, None, c}
  BY NoneAssumption DEF Checkout, HeadCommit
<1>3. NamedTips' \subseteq NamedTips \cup {c}
  BY <1>1, <1>2 DEF NamedTips, TagCommit
<1> QED
  BY <1>1, <1>3, NamedTipsLemma DEF Steady

\* Creating or deleting a branch makes refs name no commit but HEAD's.
LEMMA BranchTips ==
  ASSUME Inv, NEW b \in Branches, NEW n \in Nat, CreateBranch(b, n) \/ DeleteBranch(b, n)
  PROVE  Steady
<1>1. RefsOK
  BY DEF Inv, TypeOK
<1>2. tag' = tag /\ commits' = commits /\ head' = head
  BY DEF CreateBranch, DeleteBranch, objects
<1>3. \A x \in Branches : branch'[x] \in {branch[x], None, HeadCommit}
  BY <1>1 DEF CreateBranch, DeleteBranch, WriteBranch, Written, RefsOK
<1>4. HeadCommit' \in {HeadCommit, None}
  BY <1>1, <1>2, <1>3 DEF HeadCommit, RefsOK
<1>5. NamedTips' \subseteq NamedTips
  BY <1>2, <1>3, <1>4 DEF NamedTips, TagCommit, Branches
<1> QED
  BY <1>2, <1>5, NamedTipsLemma DEF Steady

\* tag and tag -d.
LEMMA TagTipsSteady ==
  ASSUME Inv, NEW t \in TagNames, NEW n \in Nat,
         \/ \E c \in Revisions, a \in BOOLEAN : Tag(t, c, a, n)
         \/ DeleteTag(t)
  PROVE  Steady
<1>1. OthersOK
  BY DEF Inv, TypeOK
<1>2. commits' = commits /\ branch' = branch /\ head' = head
  BY DEF Tag, DeleteTag, objects, refs
<1>3. PICK c \in Revisions \cup {None} :
        \A u \in TagNames : TagCommit(u)' \in {TagCommit(u), None, c}
  <2>1. ASSUME NEW c \in Revisions, NEW a \in BOOLEAN, Tag(t, c, a, n), NEW u \in TagNames
        PROVE  TagCommit(u)' \in {TagCommit(u), None, c}
    <3>1. tag'[u] \in {tag[u], None, [annotated |-> a, object |-> c]}
      BY <1>1, <2>1 DEF Tag, Written, OthersOK
    <3> QED
      BY <3>1 DEF TagCommit
  <2>2. ASSUME DeleteTag(t), NEW u \in TagNames
        PROVE  TagCommit(u)' \in {TagCommit(u), None}
    BY <1>1, <2>2 DEF DeleteTag, TagCommit, OthersOK
  <2> QED
    BY <2>1, <2>2
<1>4. NamedTips' \subseteq NamedTips \cup ({c} \ {None})
  BY <1>2, <1>3 DEF NamedTips, HeadCommit
<1> QED
  BY <1>2, <1>4, NamedTipsLemma DEF Steady

\* A command that leaves tags alone and runs outside a rebase keeps TipInv.
LEMMA PlainTipInv ==
  ASSUME TipInv, Inv', UNCHANGED <<tag, tagObjs, rebase>>, Idle
  PROVE  TipInv'
BY DEF TipInv, TagsBacked, RebaseOnto, Idle

\* tag, tag -d and gc keep the objects of annotated tags.
LEMMA TagTipInv ==
  ASSUME TipInv, NEW t \in TagNames, NEW n \in Nat,
         \/ \E c \in Revisions, a \in BOOLEAN : Tag(t, c, a, n)
         \/ DeleteTag(t)
  PROVE  TagsBacked' /\ RebaseOnto'
<1>1. OthersOK /\ TagsBacked
  BY DEF TipInv, Inv, TypeOK
<1>2. RebaseOnto'
  BY DEF Tag, DeleteTag, Idle, RebaseOnto
<1>3. ASSUME NEW c \in Revisions, NEW a \in BOOLEAN, Tag(t, c, a, n), NEW u \in TagNames,
             tag'[u] # None, tag'[u].annotated
      PROVE  <<u, tag'[u].object>> \in tagObjs'
  <2>1. CASE tag'[u] = tag[u]
    BY <1>1, <1>3, <2>1 DEF TagsBacked, Tag
  <2>2. CASE tag'[u] # tag[u]
    <3>1. u = t /\ n >= 3 /\ tag'[u] = [annotated |-> a, object |-> c]
      BY <1>1, <1>3, <2>2 DEF Tag, Written, OthersOK
    <3> QED
      BY <1>3, <3>1 DEF Tag
  <2> QED
    BY <2>1, <2>2
<1>4. DeleteTag(t) => TagsBacked'
  BY <1>1 DEF DeleteTag, TagsBacked, OthersOK
<1> QED
  BY <1>2, <1>3, <1>4 DEF TagsBacked

\* gc keeps the objects of annotated tags, and runs while no rebase does.
LEMMA GcTipInv ==
  ASSUME TipInv, Gc
  PROVE  TagsBacked' /\ RebaseOnto'
<1>1. OthersOK /\ TagsBacked
  BY DEF TipInv, Inv, TypeOK
<1>2. RebaseOnto'
  BY DEF Gc, Idle, RebaseOnto
<1>3. ASSUME NEW u \in TagNames, tag'[u] # None, tag'[u].annotated
      PROVE  <<u, tag'[u].object>> \in tagObjs'
  <2>1. tag[u] \in [annotated : BOOLEAN, object : Commits] /\ tag[u].annotated /\ tag' = tag
    BY <1>1, <1>3 DEF Gc, OthersOK
  <2>2. tag[u] = [annotated |-> TRUE, object |-> tag[u].object]
    BY <2>1
  <2>3. <<u, tag[u].object>> \in tagObjs
    BY <1>1, <1>3, <2>1 DEF TagsBacked
  <2> QED
    BY <2>1, <2>2, <2>3 DEF Gc
<1> QED
  BY <1>2, <1>3 DEF TagsBacked

\* gc removes no commit a ref names.
LEMMA GcTips ==
  ASSUME TipInv, Gc
  PROVE  NamedTips' \subseteq commits' \cup (Revisions \ commits)
<1>1. TypeOK /\ ObjectsOK /\ OthersOK /\ TagsBacked
  BY DEF TipInv, Inv, TypeOK
<1>2. NamedTips' = NamedTips
  BY DEF Gc, refs, NamedTips, HeadCommit, TagCommit
<1>3. NamedTips \subseteq Tips
  <2>1. ASSUME NEW u \in TagNames, TagCommit(u) # None PROVE TagCommit(u) \in TagTips
    <3>1. tag[u] # None
      BY <2>1 DEF TagCommit
    <3> QED
      BY <1>1, <3>1 DEF TagTips, TagsBacked
  <2> QED
    BY <2>1 DEF NamedTips, Tips
<1>4. Tips \subseteq Walk(Tips)
  BY <1>1, TipsLemma, WalkLemma
<1>5. NamedTips \cap commits \subseteq commits'
  BY <1>3, <1>4 DEF Gc, Live
<1> QED
  BY <1>2, <1>5, NamedTipsLemma

\* The steps of a rebase.
LEMMA RebaseTips ==
  ASSUME TipInv, NEW n \in Nat,
         \/ \E c \in Revisions : \E base \in Commits \cup {None} : RebaseStart(c, base)
         \/ RebasePick(n) \/ RebaseAbort \/ RebaseFinish(n)
  PROVE  Steady /\ TagsBacked' /\ RebaseOnto'
<1>1. Inv /\ RefsOK /\ ObjectsOK /\ OthersOK /\ TagsBacked /\ RebaseOnto
  BY DEF TipInv, Inv, TypeOK
<1>2. TagsBacked'
  BY <1>1 DEF RebaseStart, RebasePick, RebaseAbort, RebaseFinish, TagsBacked
<1>3. ASSUME NEW c \in Revisions, NEW base \in Commits \cup {None}, RebaseStart(c, base)
      PROVE  Steady /\ RebaseOnto'
  <2>1. Revisions' = Revisions /\ rebase'.onto = c
    BY <1>3 DEF RebaseStart, objects, refs, Revisions, HeadCommit, TagCommit
  <2>2. Steady
    BY <1>3, SameTipsLemma DEF RebaseStart, objects
  <2> QED
    BY <2>1, <2>2 DEF RebaseOnto
<1>4. ASSUME RebasePick(n) PROVE Steady /\ RebaseOnto'
  <2>1. PICK t, onto, c : /\ WriteCommit(t, <<onto>>, n >= 2)
                          /\ rebase' = IF n >= 2
                                       THEN [todo |-> rebase.todo \ {c}, onto |-> made + 1]
                                       ELSE None
    BY <1>4 DEF RebasePick
  <2>2. commits \subseteq commits' /\ (n >= 2 => made + 1 \in commits')
    <3>1. (n >= 2) \in BOOLEAN
      OBVIOUS
    <3> QED
      BY <2>1, <3>1, WriteCommitGrows
  <2>3. Steady
    BY <1>4, <2>2, SameTipsLemma DEF RebasePick
  <2>4. RebaseOnto'
    <3>1. CASE n >= 2
      <4>1. PICK new \in Commits : new = made + 1 /\ new \in commits'
        BY <1>1, <2>1, <2>2, <3>1, BoundAssumption DEF WriteCommit, ObjectsOK, Commits
      <4>2. new \in Revisions'
        BY <4>1, NoneAssumption DEF Revisions
      <4>3. rebase'.onto = new
        BY <2>1, <3>1, <4>1
      <4> QED
        BY <4>2, <4>3 DEF RebaseOnto
    <3>2. CASE ~(n >= 2)
      BY <2>1, <3>2 DEF RebaseOnto
    <3> QED
      BY <3>1, <3>2
  <2> QED
    BY <2>3, <2>4
<1>5. ASSUME RebaseAbort PROVE Steady /\ RebaseOnto'
  <2>1. Steady
    BY <1>5, SameTipsLemma DEF RebaseAbort, objects
  <2> QED
    BY <1>5, <2>1 DEF RebaseAbort, RebaseOnto
<1>6. ASSUME RebaseFinish(n) PROVE Steady /\ RebaseOnto'
  <2>1. PICK onto \in Revisions : onto = rebase.onto
    BY <1>1, <1>6 DEF RebaseFinish, RebaseOnto
  <2>2. MoveTip(onto, n) /\ tag' = tag /\ commits' = commits
    BY <1>6, <2>1 DEF RebaseFinish, objects
  <2>3. Steady
    BY <1>1, <2>2, MoveTipTips
  <2> QED
    BY <1>6, <2>3 DEF RebaseFinish, RebaseOnto
<1> QED
  BY <1>2, <1>3, <1>4, <1>5, <1>6

\* Every command, killed anywhere, preserves TipInv and leaves every ref at a
\* stored commit, or at one that was already gone.
LEMMA NextTips ==
  TipInv /\ [Next]_vars
    => TipInv' /\ (NamedTips' \subseteq commits' \cup (Revisions \ commits))
<1> SUFFICES ASSUME TipInv, [Next]_vars
             PROVE  TipInv' /\ (NamedTips' \subseteq commits' \cup (Revisions \ commits))
  OBVIOUS
<1>1. Inv /\ RefsOK /\ TagsBacked /\ RebaseOnto /\ Inv'
  BY NextInv DEF TipInv, Inv, TypeOK
<1>2. Steady => NamedTips' \subseteq commits' \cup (Revisions \ commits)
  BY DEF Steady
<1>3. ASSUME NEW t, NEW n \in Nat,
             \/ \E packed, clears : CommitManifest(t, packed, clears, n)
             \/ \E ps : CommitMerged(t, ps, n),
             Idle
      PROVE  TipInv' /\ Steady
  <2>1. Steady
    BY <1>1, <1>3, CommitTips
  <2> QED
    BY <1>1, <1>3, <2>1, PlainTipInv DEF CommitManifest, CommitMerged
<1>4. CASE \E n \in 0 .. 8 : (\E t \in Trees : CommitAll(t, n) \/ CommitWorld(t, n))
                             \/ CommitIndex(n)
  <2>1. PICK n \in 0 .. 8 : Idle /\ \E t, packed, clears : CommitManifest(t, packed, clears, n)
    BY <1>4 DEF CommitAll, CommitWorld, CommitIndex
  <2> QED
    BY <1>2, <1>3, <2>1
<1>5. CASE \E c \in Revisions, n \in 0 .. 7 :
             \/ \E base \in Commits \cup {None} : MergeTrue(c, base, n)
             \/ CherryPick(c, n) \/ Revert(c, n)
  <2>1. PICK n \in 0 .. 7 : Idle /\ \E t, ps : CommitMerged(t, ps, n)
    BY <1>5 DEF MergeTrue, CherryPick, Revert
  <2> QED
    BY <1>2, <1>3, <2>1
<1>6. CASE \/ \E w \in Trees, scope \in SUBSET Keys, n \in 0 .. 2 : Add(w, scope, n)
           \/ \E c \in Revisions, scope \in SUBSET Keys : RestoreStaged(c, scope)
           \/ \E n \in 0 .. 3 : StashPop(n) \/ StashDrop(n)
  <2>1. /\ UNCHANGED <<refs, tag, tagObjs, rebase, commits>> /\ Idle
    BY <1>6 DEF Add, RestoreStaged, StashPop, StashDrop, objects
  <2>2. Steady
    BY <2>1, SameTipsLemma
  <2> QED
    BY <1>1, <1>2, <2>1, <2>2, PlainTipInv
<1>7. CASE \E t \in Trees, n \in 0 .. 6 : StashPush(t, n)
  <2>1. commits \subseteq commits'
    BY <1>7 DEF StashPush, WriteCommit
  <2>2. UNCHANGED <<refs, tag, tagObjs, rebase>> /\ Idle
    BY <1>7 DEF StashPush
  <2>3. Steady
    BY <2>1, <2>2, SameTipsLemma
  <2> QED
    BY <1>1, <1>2, <2>2, <2>3, PlainTipInv
<1>8. CASE \E c \in Revisions, b \in Branches \cup {None}, w \in BOOLEAN, n \in 0 .. 4 :
             Checkout(c, b, w, n)
  <2>1. Steady
    BY <1>1, <1>8, CheckoutTips
  <2>2. UNCHANGED <<tag, tagObjs, rebase>> /\ Idle
    BY <1>8 DEF Checkout
  <2> QED
    BY <1>1, <1>2, <2>1, <2>2, PlainTipInv
<1>9. CASE \E b \in Branches, n \in 0 .. 3 : CreateBranch(b, n) \/ DeleteBranch(b, n)
  <2>1. Steady
    BY <1>1, <1>9, BranchTips
  <2>2. UNCHANGED <<tag, tagObjs, rebase>> /\ Idle
    BY <1>9 DEF CreateBranch, DeleteBranch
  <2> QED
    BY <1>1, <1>2, <2>1, <2>2, PlainTipInv
<1>10. CASE \E t \in TagNames, n \in 0 .. 3 :
              \/ \E c \in Revisions, a \in BOOLEAN : Tag(t, c, a, n)
              \/ DeleteTag(t)
  <2>1. Steady
    BY <1>1, <1>10, TagTipsSteady
  <2>2. TagsBacked' /\ RebaseOnto'
    BY <1>10, TagTipInv
  <2> QED
    BY <1>1, <1>2, <2>1, <2>2 DEF TipInv
<1>11. CASE \E c \in Revisions, n \in 0 .. 5 :
              (\E soft \in BOOLEAN : Reset(c, soft, n)) \/ MergeFastForward(c, n)
  <2>1. PICK c \in Revisions, n \in 0 .. 5 :
          (\E soft \in BOOLEAN : Reset(c, soft, n)) \/ MergeFastForward(c, n)
    BY <1>11
  <2>2. /\ MoveTip(c, n) /\ UNCHANGED <<commits, tag, tagObjs, rebase>> /\ Idle
    BY <2>1 DEF Reset, MergeFastForward, objects
  <2>3. Steady
    BY <1>1, <2>2, MoveTipTips
  <2> QED
    BY <1>1, <1>2, <2>2, <2>3, PlainTipInv
<1>12. CASE \/ \E c \in Revisions : \E base \in Commits \cup {None} : RebaseStart(c, base)
            \/ \E n \in 0 .. 5 : RebasePick(n) \/ RebaseAbort \/ RebaseFinish(n)
  <2>1. Steady /\ TagsBacked' /\ RebaseOnto'
    BY <1>12, RebaseTips
  <2> QED
    BY <1>1, <1>2, <2>1 DEF TipInv
<1>13. CASE Gc
  BY <1>1, <1>13, GcTips, GcTipInv DEF TipInv
<1>14. CASE UNCHANGED vars
  <2>1. UNCHANGED <<refs, tag, tagObjs, rebase, commits, parents>>
    BY <1>14 DEF vars, objects
  <2>2. Steady
    BY <2>1, SameTipsLemma
  <2>3. Revisions' = Revisions
    BY <2>1 DEF refs, Revisions, HeadCommit, TagCommit
  <2>4. TagsBacked' /\ RebaseOnto'
    BY <1>1, <2>1, <2>3 DEF TagsBacked, RebaseOnto
  <2> QED
    BY <1>1, <1>2, <2>2, <2>4 DEF TipInv
<1> QED
  BY <1>4, <1>5, <1>6, <1>7, <1>8, <1>9, <1>10, <1>11, <1>12, <1>13, <1>14 DEF Next

\* No command, killed anywhere, leaves HEAD, a listed branch or a tag at a
\* commit the store lacks, unless the commit was already gone when a command
\* was told to go there; gc removes nothing a ref names.
THEOREM RefsStayReadable == Spec => TipsStayReadable
<1>1. Init => TipInv
  <2>1. Init => TagsBacked /\ RebaseOnto
    BY DEF Init, InitWith, TagsBacked, RebaseOnto
  <2> QED
    BY <2>1, InitInv DEF TipInv
<1>2. TipInv /\ [Next]_vars => TipInv'
  BY NextTips
<1>3. TipInv /\ [Next]_vars => [NamedTips' \subseteq commits' \cup (Revisions \ commits)]_vars
  BY NextTips
<1> QED
  BY <1>1, <1>2, <1>3, PTL DEF Spec, TipsStayReadable

-----------------------------------------------------------------------------
(* A merge undoes no change.                                               *)

\* The commit that write_commit makes, if any, has the parents it was given.
LEMMA WriteCommitMakes ==
  ASSUME ObjectsOK, NEW t, NEW ps, NEW done \in BOOLEAN, WriteCommit(t, ps, done)
  PROVE  \/ made' = made
         \/ /\ made' = made + 1 /\ made' \in Commits /\ made' \in commits'
            /\ parents'[made'] = ps
<1>1. CASE done
  <2>1. /\ made < MaxCommits /\ made' = made + 1 /\ commits' = commits \cup {made + 1}
        /\ parents' = [parents EXCEPT ![made + 1] = ps]
    BY <1>1 DEF WriteCommit
  <2>2. made + 1 \in Commits
    BY <2>1, BoundAssumption DEF ObjectsOK, Commits
  <2> QED
    BY <2>1, <2>2 DEF ObjectsOK
<1>2. CASE ~done
  BY <1>2 DEF WriteCommit
<1> QED
  BY <1>1, <1>2

\* One command makes at most one commit, and one with two parents is made by a
\* merge.
LEMMA CommandMakes ==
  ASSUME Inv, [Next]_vars
  PROVE  /\ shallow' = shallow /\ (made' = made \/ made' = made + 1)
         /\ made' # made /\ Len(parents'[made']) = 2 =>
              \E theirs \in Revisions, base \in Commits \cup {None}, n \in 0 .. 7 :
                MergeTrue(theirs, base, n)
<1> DEFINE Few == shallow' = shallow /\ (made' = made \/ (made' = made + 1 /\ Len(parents'[made']) # 2))
<1>1. ObjectsOK
  BY DEF Inv, TypeOK
<1>2. ASSUME NEW t, NEW p, NEW done \in BOOLEAN, shallow' = shallow,
             WriteCommit(t, << >>, done) \/ WriteCommit(t, <<p>>, done)
      PROVE  Few
  BY <1>1, <1>2, WriteCommitMakes
<1>3. ASSUME NEW t, NEW packed, NEW clears, NEW n \in Nat, CommitManifest(t, packed, clears, n)
      PROVE  Few
  <2>1. PICK done : /\ WriteCommit(t, IF HeadCommit = None THEN << >> ELSE <<HeadCommit>>, done)
                    /\ done \in BOOLEAN /\ shallow' = shallow
    BY <1>3 DEF CommitManifest
  <2> QED
    BY <1>2, <2>1
<1>4. ASSUME NEW t, NEW p, NEW n \in Nat, CommitMerged(t, <<p>>, n) PROVE Few
  <2>1. WriteCommit(t, <<p>>, n >= 2) /\ (n >= 2) \in BOOLEAN /\ shallow' = shallow
    BY <1>4 DEF CommitMerged
  <2> QED
    BY <1>2, <2>1
<1>5. CASE \E n \in 0 .. 8 : (\E t \in Trees : CommitAll(t, n) \/ CommitWorld(t, n))
                             \/ CommitIndex(n)
  <2>1. PICK n \in 0 .. 8 : \E t, packed, clears : CommitManifest(t, packed, clears, n)
    BY <1>5 DEF CommitAll, CommitWorld, CommitIndex
  <2>2. Few
    BY <1>3, <2>1
  <2> QED
    BY <2>2
<1>6. CASE \E c \in Revisions, n \in 0 .. 7 : CherryPick(c, n) \/ Revert(c, n)
  <2>1. PICK n \in 0 .. 7 : \E t, p : CommitMerged(t, <<p>>, n)
    BY <1>6 DEF CherryPick, Revert
  <2>2. Few
    BY <1>4, <2>1
  <2> QED
    BY <2>2
<1>7. CASE \E n \in 0 .. 2 : RebasePick(n)
  <2>1. PICK n \in 0 .. 2 : RebasePick(n)
    BY <1>7
  <2>2. PICK t, p : WriteCommit(t, <<p>>, n >= 2)
    BY <2>1 DEF RebasePick
  <2>3. shallow' = shallow /\ (n >= 2) \in BOOLEAN
    BY <2>1 DEF RebasePick
  <2>4. Few
    BY <1>2, <2>2, <2>3
  <2> QED
    BY <2>4
<1>8. CASE \E t \in Trees, n \in 0 .. 6 : StashPush(t, n)
  <2>1. PICK t, done :
          /\ WriteCommit(t, IF HeadCommit = None THEN << >> ELSE <<HeadCommit>>, done)
          /\ done \in BOOLEAN /\ shallow' = shallow
    BY <1>8 DEF StashPush
  <2>2. Few
    BY <1>2, <2>1
  <2> QED
    BY <2>2
<1>9. ASSUME NEW theirs \in Revisions, NEW base \in Commits \cup {None}, NEW n \in 0 .. 7,
             MergeTrue(theirs, base, n)
      PROVE  shallow' = shallow /\ (made' = made \/ made' = made + 1)
  <2>1. PICK t : CommitMerged(t, <<HeadCommit, theirs>>, n)
    BY <1>9 DEF MergeTrue
  <2>2. /\ WriteCommit(t, <<HeadCommit, theirs>>, n >= 2) /\ (n >= 2) \in BOOLEAN
        /\ shallow' = shallow
    BY <2>1 DEF CommitMerged
  <2> QED
    BY <1>1, <2>2, WriteCommitMakes
<1>10. CASE \/ \E w \in Trees, scope \in SUBSET Keys, n \in 0 .. 2 : Add(w, scope, n)
            \/ \E c \in Revisions, scope \in SUBSET Keys : RestoreStaged(c, scope)
            \/ \E c \in Revisions, b \in Branches \cup {None}, w \in BOOLEAN, n \in 0 .. 4 :
                 Checkout(c, b, w, n)
            \/ \E b \in Branches, n \in 0 .. 3 : CreateBranch(b, n)
            \/ \E b \in Branches, n \in 0 .. 2 : DeleteBranch(b, n)
            \/ \E t \in TagNames, c \in Revisions, a \in BOOLEAN, n \in 0 .. 3 : Tag(t, c, a, n)
            \/ \E t \in TagNames : DeleteTag(t)
            \/ \E c \in Revisions, soft \in BOOLEAN, n \in 0 .. 5 : Reset(c, soft, n)
            \/ \E c \in Revisions, n \in 0 .. 5 : MergeFastForward(c, n)
            \/ \E c \in Revisions : \E base \in Commits \cup {None} : RebaseStart(c, base)
            \/ RebaseAbort
            \/ \E n \in 0 .. 5 : RebaseFinish(n)
            \/ \E n \in 0 .. 3 : StashPop(n)
            \/ \E n \in 0 .. 2 : StashDrop(n)
            \/ Gc
            \/ UNCHANGED vars
  BY <1>10
     DEF Add, RestoreStaged, Checkout, CreateBranch, DeleteBranch, Tag, DeleteTag, Reset,
         MergeFastForward, RebaseStart, RebaseAbort, RebaseFinish, StashPop, StashDrop, Gc,
         objects, vars
<1>11. CASE \E c \in Revisions, n \in 0 .. 7 :
              \E base \in Commits \cup {None} : MergeTrue(c, base, n)
  BY <1>9, <1>11
<1> QED
  BY <1>5, <1>6, <1>7, <1>8, <1>10, <1>11 DEF Next

\* A merge base other than the side's own tip is the parent of a stored commit
\* of that side alone.  Were there none, that side's walk less the base would
\* still be closed, for a shared commit above the base would dominate it.
LEMMA BaseIsGround ==
  ASSUME ObjectsOK, NEW mine \in Commits, NEW other \in Commits,
         NEW base \in CommonAncestors(mine, other), base # mine,
         \A o \in CommonAncestors(mine, other) \ {base} : base \notin Ancestors(o)
  PROVE  tree[base] \in Grounds(mine, other)
<1> DEFINE own == (Ancestors(mine) \ Ancestors(other)) \cap commits
           rest == Ancestors(mine) \ {base}
<1>1. /\ mine \in Ancestors(mine)
      /\ \A c \in Ancestors(mine) \cap commits : ParentSet(c) \subseteq Ancestors(mine)
  BY WalkLemma DEF Ancestors
<1>2. base \in Ancestors(mine) /\ rest \in SUBSET Commits /\ {mine} \subseteq rest
  BY <1>1 DEF CommonAncestors, Ancestors, Walk
<1>3. \E c \in own : base \in ParentSet(c)
  <2> SUFFICES ASSUME \A c \in own : base \notin ParentSet(c) PROVE FALSE
    OBVIOUS
  <2>1. ASSUME NEW c \in rest \cap commits, NEW p \in ParentSet(c) PROVE p \in rest
    <3>1. p \in Ancestors(mine)
      BY <1>1, <2>1
    <3>2. CASE p = base
      <4>1. c \in CommonAncestors(mine, other) \ {base}
        BY <2>1, <3>2 DEF CommonAncestors
      <4>2. c \in Commits /\ c \in Ancestors(c)
        BY <1>2, <2>1, WalkLemma DEF Ancestors
      <4>3. p \in Ancestors(c)
        BY <2>1, <4>2, WalkLemma DEF Ancestors
      <4> QED
        BY <3>2, <4>1, <4>3
    <3> QED
      BY <3>1, <3>2
  <2>2. WalkClosed(rest)
    BY <2>1 DEF WalkClosed
  <2>3. base \in rest
    BY <1>2, <2>2 DEF Ancestors, Walk
  <2> QED
    BY <2>3
<1> QED
  BY <1>3 DEF Grounds

\* The base of a merge is one of the grounds of either side.
LEMMA MergeBaseGrounds ==
  ASSUME ObjectsOK, NEW ours \in Commits, NEW theirs \in Commits,
         NEW base \in MergeBases(ours, theirs), base \notin {ours, theirs}
  PROVE  LET baseT == IF base = None THEN EmptyTree ELSE tree[base]
         IN  baseT \in Grounds(ours, theirs) /\ baseT \in Grounds(theirs, ours)
<1>1. CommonAncestors(theirs, ours) = CommonAncestors(ours, theirs)
  BY DEF CommonAncestors
<1>2. CASE CommonAncestors(ours, theirs) = {}
  BY <1>1, <1>2 DEF MergeBases, Grounds
<1>3. CASE CommonAncestors(ours, theirs) # {}
  <2>1. /\ base \in CommonAncestors(ours, theirs)
        /\ \A o \in CommonAncestors(ours, theirs) \ {base} : base \notin Ancestors(o)
    BY <1>3 DEF MergeBases
  <2>2. base # None
    BY <2>1, NoneAssumption DEF CommonAncestors, Ancestors, Walk
  <2>3. tree[base] \in Grounds(ours, theirs)
    BY <2>1, BaseIsGround
  <2>4. tree[base] \in Grounds(theirs, ours)
    BY <1>1, <2>1, BaseIsGround
  <2> QED
    BY <2>2, <2>3, <2>4
<1> QED
  BY <1>2, <1>3

\* A clean 3-way combine keeps what either side has otherwise than the base.
LEMMA CombineKeeps ==
  ASSUME NEW b \in Trees, NEW o \in Trees, NEW t \in Trees, NEW k \in Keys,
         MapConflicts(b, o, t) = {}
  PROVE  /\ b[k] # o[k] => merge_map(b, o, t)[k] = o[k]
         /\ b[k] # t[k] => merge_map(b, o, t)[k] = t[k]
<1>1. DOMAIN b = Keys
  BY DEF Trees
<1>2. ~Conflicting(b[k], o[k], t[k])
  BY <1>1 DEF MapConflicts
<1>3. merge_map(b, o, t)[k] = three_way(b[k], o[k], t[k])
  BY <1>1, <1>2 DEF merge_map
<1> QED
  BY <1>2, <1>3 DEF Conflicting, three_way

\* The commit of a true merge keeps the work of both sides.
LEMMA TrueMergeKeeps ==
  ASSUME Inv, NEW theirs \in Revisions, NEW base \in Commits \cup {None}, NEW n \in 0 .. 7,
         MergeTrue(theirs, base, n), made' # made
  PROVE  /\ parents'[made'] = <<HeadCommit, theirs>>
         /\ KeepsWorkOf(HeadCommit, theirs) /\ KeepsWorkOf(theirs, HeadCommit)
<1> DEFINE ours  == HeadCommit
           baseT == IF base = None THEN EmptyTree ELSE tree[base]
           t     == merge_map(baseT, tree[ours], tree[theirs])
<1>1. ObjectsOK /\ ours \in Commits /\ theirs \in Commits
  BY HeadCommitLemma, RevisionsLemma DEF Inv, TypeOK, MergeTrue
<1>2. baseT \in Trees /\ tree[ours] \in Trees /\ tree[theirs] \in Trees
  BY <1>1, EmptyTreeLemma DEF ObjectsOK
<1>3. /\ base \in MergeBases(ours, theirs) /\ base \notin {ours, theirs}
      /\ MapConflicts(baseT, tree[ours], tree[theirs]) = {}
      /\ WriteCommit(t, <<ours, theirs>>, n >= 2)
  BY DEF MergeTrue, CommitMerged
<1>4. baseT \in Grounds(ours, theirs) /\ baseT \in Grounds(theirs, ours)
  BY <1>1, <1>3, MergeBaseGrounds
<1>5. /\ made' = made + 1 /\ made' \in Commits
      /\ parents'[made'] = <<ours, theirs>> /\ tree'[made'] = t
  <2>1. /\ made < MaxCommits /\ made' = made + 1
        /\ tree' = [tree EXCEPT ![made + 1] = t]
        /\ parents' = [parents EXCEPT ![made + 1] = <<ours, theirs>>]
    BY <1>3 DEF WriteCommit
  <2>2. made + 1 \in Commits
    BY <1>1, <2>1, BoundAssumption DEF ObjectsOK, Commits
  <2> QED
    BY <1>1, <2>1, <2>2 DEF ObjectsOK
<1>6. KeepsWorkOf(ours, theirs)
  BY <1>2, <1>3, <1>4, <1>5, CombineKeeps DEF KeepsWorkOf
<1>7. KeepsWorkOf(theirs, ours)
  BY <1>2, <1>3, <1>4, <1>5, CombineKeeps DEF KeepsWorkOf
<1> QED
  BY <1>5, <1>6, <1>7

\* A merge commit undoes no change that either side made since the histories
\* parted, whatever reverts and earlier merges they hold, and wherever the
\* command is killed (merge.rs merge_base, merge).
THEOREM MergesUndoNothing == Spec => MergeUndoesNothing
<1>1. Inv /\ [Next]_vars =>
        [ made' > made /\ Len(parents'[made']) = 2
          => /\ KeepsWorkOf(parents'[made'][1], parents'[made'][2])
             /\ KeepsWorkOf(parents'[made'][2], parents'[made'][1]) ]_vars
  <2> SUFFICES ASSUME Inv, [Next]_vars, made' > made, Len(parents'[made']) = 2
               PROVE  /\ KeepsWorkOf(parents'[made'][1], parents'[made'][2])
                      /\ KeepsWorkOf(parents'[made'][2], parents'[made'][1])
    OBVIOUS
  <2>1. made' # made
    BY BoundAssumption DEF Inv, TypeOK, ObjectsOK
  <2>2. PICK theirs \in Revisions, base \in Commits \cup {None}, n \in 0 .. 7 :
          MergeTrue(theirs, base, n)
    BY <2>1, CommandMakes
  <2>3. /\ parents'[made'] = <<HeadCommit, theirs>>
        /\ KeepsWorkOf(HeadCommit, theirs) /\ KeepsWorkOf(theirs, HeadCommit)
    BY <2>1, <2>2, TrueMergeKeeps
  <2>4. parents'[made'][1] = HeadCommit /\ parents'[made'][2] = theirs
    BY <2>3
  <2> QED
    BY <2>3, <2>4
<1>2. Init => Inv
  BY InitInv
<1>3. Inv /\ [Next]_vars => Inv'
  BY NextInv
<1> QED
  BY <1>1, <1>2, <1>3, PTL DEF Spec, MergeUndoesNothing

=============================================================================
