-------------------------------- MODULE Repo --------------------------------
(***************************************************************************)
(* A local mcagit repository: the commit graph, the object store, and      *)
(* every piece of state that names objects: HEAD, branches, tags, the      *)
(* staging index, the stash stack and the reflogs.  One action per command *)
(* of the CLI that changes any of it (crates/cli/src/main.rs over          *)
(* crates/repo).                                                           *)
(*                                                                         *)
(* Commands run one at a time here (PackStore.tla is about processes that  *)
(* overlap), but each may be killed between any two of its file-system     *)
(* writes.  Its parameter n is the number of writes that happened; the     *)
(* largest value is a command that ran to its end.  A ref, HEAD and the    *)
(* stash file are written with fs::write, which truncates first: a kill    *)
(* in between leaves the file empty, which reads back as "no such ref".    *)
(* Two things are whole steps here and are taken apart in PackStore.tla:   *)
(* writing one object, and gc.                                             *)
(*                                                                         *)
(* Data.  A manifest is a function from Keys to leaf objects, None where   *)
(* it has no entry; a key stands for a loose file or for one chunk slot of *)
(* a region.  Objects are content-addressed, so leaves and manifests are   *)
(* their own ids.  A commit's id is its rank in creation order: author,    *)
(* message and time make each new commit a new object.  The worktree is    *)
(* whatever the game left there, hence a parameter of the commands that    *)
(* snapshot it.                                                            *)
(***************************************************************************)
EXTENDS Integers, Sequences, FiniteSets

CONSTANTS
  Keys,            \* manifest entries
  Leaves,          \* chunk, NBT and blob objects
  FlatBranches,    \* branch names that are one path component
  NestedBranches,  \* namespaced branch names, such as feature/foo
  Main,            \* the branch HEAD names after init
  TagNames,
  MaxCommits,      \* bound on the commits ever created
  None             \* an absent entry, ref, index or tag

Branches == FlatBranches \cup NestedBranches
Commits  == 1 .. MaxCommits
Trees    == [Keys -> Leaves \cup {None}]

ASSUME BoundAssumption == MaxCommits \in Nat
ASSUME MainAssumption  == Main \in FlatBranches
ASSUME NoneAssumption  ==
  None \notin Leaves \cup Branches \cup Commits \cup Trees

INSTANCE ThreeWay

EmptyTree   == [k \in Keys |-> None]
LeavesOf(t) == {t[k] : k \in Keys} \ {None}       \* fsck.rs manifest_ids

VARIABLES
  made,        \* number of commit objects ever written
  tree,        \* the manifest of each commit written
  parents,     \* the parents of each commit written, first parent first
  commits,     \* commit objects in the store
  trees,       \* manifest objects in the store
  leaves,      \* leaf objects in the store
  tagObjs,     \* annotated tag objects in the store: <<name, commit>>
  shallow,     \* the shallow boundary
  head,        \* [on |-> branch, at |-> None] or [on |-> None, at |-> commit]
  branch,      \* refs/heads
  tag,         \* refs/tags: None, or [annotated, object]
  headLog,     \* commits the HEAD reflog records
  branchLog,   \* commits each branch's reflog records
  index,       \* the staged manifest, None when there is no index file
  stash,       \* the stash stack, newest last
  rebase       \* None, or the loop state of a running rebase

objects == <<made, tree, parents, commits, trees, leaves>>
refs    == <<head, branch, headLog, branchLog>>
vars    == <<objects, tagObjs, shallow, refs, tag, index, stash, rebase>>

-----------------------------------------------------------------------------
(* Reading the graph and the refs.                                         *)

\* parents_of: a shallow commit has no parents.
ParentsOf(c) == IF c \in shallow THEN <<>> ELSE parents[c]

ParentSet(c) == {ParentsOf(c)[i] : i \in DOMAIN ParentsOf(c)}

\* Every graph walk of the crate (gc, fsck, ancestors, reachable): push the
\* roots, and the parents of every commit that can be read.  The commits it
\* visits are the least set closed under that.
WalkClosed(T) == \A c \in T \cap commits : ParentSet(c) \subseteq T

Walk(roots) ==
  {c \in Commits :
     \A T \in SUBSET Commits : (roots \subseteq T /\ WalkClosed(T)) => c \in T}

Ancestors(c) == Walk({c})

\* read_manifest(read_commit(c).tree) succeeds.
Readable(c) == c \in commits /\ tree[c] \in trees

HeadCommit == IF head.on # None THEN branch[head.on] ELSE head.at

\* A tag ref peeled to its commit; None for no tag.
TagCommit(t) == IF tag[t] = None THEN None ELSE tag[t].object

\* What resolve_ref can return.  Reflog entries, refs and the parents that
\* ~ and ^ step to are returned without a look at the store; a bare id must
\* exist.
Revisions ==
  (  {HeadCommit} \cup {branch[b] : b \in Branches}
     \cup {TagCommit(t) : t \in TagNames}
     \cup headLog \cup (UNION {branchLog[b] : b \in Branches})
     \cup commits
     \cup (UNION {{parents[c][i] : i \in DOMAIN parents[c]} : c \in commits}) )
  \ {None}

\* index::effective, where it can be read.
HeadTree       == IF HeadCommit = None THEN EmptyTree ELSE tree[HeadCommit]
HeadReadable   == HeadCommit = None \/ Readable(HeadCommit)
Effective      == IF index # None THEN index ELSE HeadTree
EffectiveReads == index # None \/ HeadReadable

\* merge_base: a maximal common ancestor.  Where there are several the code
\* takes the one with the least hash, which is any of them.
CommonAncestors(a, b) == Ancestors(a) \cap Ancestors(b)

\* Mutant: any common ancestor does, dominated or not.
MergeBasesAny(a, b) ==
  IF CommonAncestors(a, b) = {} THEN {None} ELSE CommonAncestors(a, b)

MergeBases(a, b) ==
  LET common == CommonAncestors(a, b)
  IN  IF common = {} THEN {None}
      ELSE {c \in common :
              \A o \in common \ {c} : c \notin Ancestors(o)}

\* parent_manifest: the first parent's manifest, empty for a root.
ParentTree(c) ==
  IF ParentsOf(c) = <<>> THEN EmptyTree ELSE tree[ParentsOf(c)[1]]

ParentReads(c) ==
  /\ c \in commits
  /\ ParentsOf(c) # <<>> => Readable(ParentsOf(c)[1])

-----------------------------------------------------------------------------
(* The writes commands are made of.                                        *)

\* A file written with fs::write, after d of its two steps.
Written(old, new, d) == IF d <= 0 THEN old ELSE IF d = 1 THEN None ELSE new

\* write_commit: the object is written when done.
WriteCommit(t, ps, done) ==
  IF done
  THEN /\ made < MaxCommits
       /\ made' = made + 1
       /\ tree' = [tree EXCEPT ![made + 1] = t]
       /\ parents' = [parents EXCEPT ![made + 1] = ps]
       /\ commits' = commits \cup {made + 1}
  ELSE UNCHANGED <<made, tree, parents, commits>>

\* write_branch: the ref (two steps), then the branch's reflog.
WriteBranch(b, c, d) ==
  /\ branch' = [branch EXCEPT ![b] = Written(@, c, d)]
  /\ branchLog' = IF d >= 3 THEN [branchLog EXCEPT ![b] = @ \cup {c}] ELSE branchLog

\* Move the current branch, or detached HEAD, to c and log it: what commit,
\* merge, reset and advance() do, in four writes.
MoveTip(c, d) ==
  /\ IF head.on # None
     THEN /\ WriteBranch(head.on, c, d)
          /\ UNCHANGED head
     ELSE /\ head' = [head EXCEPT !.at = Written(@, c, d)]
          /\ UNCHANGED <<branch, branchLog>>
  /\ headLog' = IF d >= 4 THEN headLog \cup {c} ELSE headLog

\* index::clear
ClearIndex(done) == index' = IF done THEN None ELSE index

Idle == rebase = None

-----------------------------------------------------------------------------
(* Initial states: a fresh init, or a clone --depth 1 of a two-commit      *)
(* history, whose older commit was never fetched.                          *)

InitWith(n, t) ==
  /\ made = n
  /\ tree = [c \in Commits |-> IF c <= n THEN t ELSE EmptyTree]
  /\ parents = [c \in Commits |-> IF n = 2 /\ c = 2 THEN <<1>> ELSE <<>>]
  /\ commits = {c \in Commits : c = n}
  /\ trees = {tree[c] : c \in commits}
  /\ leaves = UNION {LeavesOf(tree[c]) : c \in commits}
  /\ tagObjs = {}
  /\ shallow = commits
  /\ head = [on |-> Main, at |-> None]
  /\ branch = [b \in Branches |-> IF b = Main /\ n = 2 THEN 2 ELSE None]
  /\ tag = [t1 \in TagNames |-> None]
  /\ headLog = {}
  /\ branchLog = [b \in Branches |-> IF b = Main THEN commits ELSE {}]
  /\ index = None
  /\ stash = <<>>
  /\ rebase = None

Init ==
  \/ InitWith(0, EmptyTree)
  \/ MaxCommits >= 2 /\ \E t \in Trees : InitWith(2, t)

-----------------------------------------------------------------------------
(* commit, add, restore --staged.                                          *)

\* The tail of Cmd::Commit: write the manifest, give up if HEAD cannot be
\* read or nothing is new, else write the commit and move the tip.  `packed`
\* is what the snapshot put in the store; `clears` is world.is_none().
CommitManifest(t, packed, clears, n) ==
  LET h     == HeadCommit
      fails == h \notin commits \cup {None}
      stale == (h # None /\ tree[h] = t) \/ (h = None /\ t = EmptyTree)
      goes  == ~fails /\ ~stale /\ n >= 3
  IN  /\ leaves' = IF n >= 1 THEN leaves \cup packed ELSE leaves
      /\ trees' = IF n >= 2 THEN trees \cup {t} ELSE trees
      /\ WriteCommit(t, IF h = None THEN <<>> ELSE <<h>>, goes)
      /\ IF goes THEN MoveTip(made + 1, n - 3) ELSE UNCHANGED refs
      /\ ClearIndex(goes /\ clears /\ n >= 8)
      /\ UNCHANGED <<tagObjs, shallow, tag, stash, rebase>>

\* commit -a, or commit.autoStageAll: t is the worktree.
CommitAll(t, n) == Idle /\ CommitManifest(t, LeavesOf(t), TRUE, n)

\* commit <world>: t is some other directory, and the index is left alone.
CommitWorld(t, n) == Idle /\ CommitManifest(t, LeavesOf(t), FALSE, n)

\* commit: the staged manifest.
CommitIndex(n) ==
  /\ Idle
  /\ EffectiveReads
  /\ CommitManifest(Effective, {}, TRUE, n)

\* The tail of add_paths: a staged tree equal to HEAD's is no index file, and
\* nothing is written when nothing changed.
StoreIndex(idx, done) ==
  index' = IF ~done THEN index
           ELSE IF idx = HeadTree THEN None
           ELSE IF idx = Effective THEN index
           ELSE idx

\* add: snapshot the worktree w within scope, overlay it on the index.
Add(w, scope, n) ==
  LET idx     == [k \in Keys |-> IF k \in scope THEN w[k] ELSE Effective[k]]
      matches == \E k \in scope : w[k] # None \/ Effective[k] # None
  IN  /\ Idle
      /\ leaves' = IF n >= 1 THEN leaves \cup ({w[k] : k \in scope} \ {None})
                   ELSE leaves
      /\ IF EffectiveReads /\ HeadReadable /\ matches
         THEN StoreIndex(idx, n >= 2)
         ELSE UNCHANGED index
      /\ UNCHANGED <<made, tree, parents, commits, trees>>
      /\ UNCHANGED <<tagObjs, shallow, refs, tag, stash, rebase>>

\* restore --staged --source c: reset the entries in scope to c's.
RestoreStaged(c, scope) ==
  LET idx == [k \in Keys |-> IF k \in scope THEN tree[c][k] ELSE Effective[k]]
  IN  /\ Idle
      /\ Readable(c)
      /\ EffectiveReads /\ HeadReadable
      /\ index' = IF idx = HeadTree THEN None ELSE idx
      /\ UNCHANGED <<objects, tagObjs, shallow, refs, tag, stash, rebase>>

-----------------------------------------------------------------------------
(* checkout, branch, tag, reset.                                           *)

\* Mutant: HEAD is detached at the name given instead of the commit.
CheckoutNameDetached(c, b, isWorktree, n) ==
  /\ Idle
  /\ Readable(c)
  /\ b # None => branch[b] = c
  /\ ClearIndex(isWorktree /\ n >= 1)
  /\ head' = IF n <= 1 THEN head ELSE [on |-> None, at |-> b]
  /\ UNCHANGED <<objects, tagObjs, shallow, branch, headLog, branchLog, tag, stash, rebase>>

\* checkout: b is the branch name given, None for any other revision.  The
\* index goes when the bound worktree was rewritten; HEAD moves either way.
Checkout(c, b, isWorktree, n) ==
  LET to == IF b # None THEN [on |-> b, at |-> None] ELSE [on |-> None, at |-> c]
  IN  /\ Idle
      /\ Readable(c)
      /\ b # None => branch[b] = c
      /\ ClearIndex(isWorktree /\ n >= 1)
      /\ head' = IF n <= 1 THEN head
                 ELSE IF n = 2 THEN [on |-> None, at |-> None]
                 ELSE to
      /\ headLog' = IF n >= 4 THEN headLog \cup {c} ELSE headLog
      /\ UNCHANGED <<objects, tagObjs, shallow, branch, branchLog, tag, stash, rebase>>

CreateBranch(b, n) ==
  /\ Idle
  /\ HeadCommit # None
  /\ WriteBranch(b, HeadCommit, n)
  /\ UNCHANGED <<objects, tagObjs, shallow, head, headLog, tag, index, stash, rebase>>

\* branch -d: the ref, then its reflog.
DeleteBranch(b, n) ==
  /\ Idle
  /\ branch' = IF n >= 1 THEN [branch EXCEPT ![b] = None] ELSE branch
  /\ branchLog' = IF n >= 2 THEN [branchLog EXCEPT ![b] = {}] ELSE branchLog
  /\ UNCHANGED <<objects, tagObjs, shallow, head, headLog, tag, index, stash, rebase>>

\* tag (with -f where the name is taken): a lightweight or annotated tag.
Tag(t, c, annotated, n) ==
  /\ Idle
  /\ tagObjs' = IF annotated /\ n >= 1 THEN tagObjs \cup {<<t, c>>} ELSE tagObjs
  /\ tag' = [tag EXCEPT ![t] =
               Written(@, [annotated |-> annotated, object |-> c], n - 1)]
  /\ UNCHANGED <<objects, shallow, refs, index, stash, rebase>>

DeleteTag(t) ==
  /\ Idle
  /\ tag' = [tag EXCEPT ![t] = None]
  /\ UNCHANGED <<objects, tagObjs, shallow, refs, index, stash, rebase>>

\* reset: the tip moves before anything is read from the store.
Reset(c, soft, n) ==
  /\ Idle
  /\ MoveTip(c, n)
  /\ ClearIndex(~soft /\ n >= 5)
  /\ UNCHANGED <<objects, tagObjs, shallow, tag, stash, rebase>>

-----------------------------------------------------------------------------
(* merge, cherry-pick, revert, rebase.                                     *)

\* Write a manifest and a commit of it, then move the tip there.
CommitMerged(t, ps, n) ==
  /\ trees' = IF n >= 1 THEN trees \cup {t} ELSE trees
  /\ WriteCommit(t, ps, n >= 2)
  /\ IF n >= 2 THEN MoveTip(made + 1, n - 2) ELSE UNCHANGED refs
  /\ ClearIndex(n >= 7)
  /\ UNCHANGED <<leaves, tagObjs, shallow, tag, stash, rebase>>

\* merge: FastForward.
MergeFastForward(theirs, n) ==
  /\ Idle
  /\ HeadCommit \notin {None, theirs}
  /\ HeadCommit \in MergeBases(HeadCommit, theirs)
  /\ MoveTip(theirs, n)
  /\ ClearIndex(n >= 5 /\ Readable(theirs))
  /\ UNCHANGED <<objects, tagObjs, shallow, tag, stash, rebase>>

\* merge: Merged.  UpToDate and Conflicts change nothing.
MergeTrue(theirs, base, n) ==
  LET ours  == HeadCommit
      baseT == IF base = None THEN EmptyTree ELSE tree[base]
  IN  /\ Idle
      /\ ours \notin {None, theirs}
      /\ base \notin {ours, theirs}
      /\ base # None => Readable(base)
      /\ Readable(ours) /\ Readable(theirs)
      /\ base \in MergeBases(ours, theirs)
      /\ MapConflicts(baseT, tree[ours], tree[theirs]) = {}
      /\ CommitMerged(merge_map(baseT, tree[ours], tree[theirs]), <<ours, theirs>>, n)

\* cherry-pick: the change pick's first parent -> pick, onto HEAD.
CherryPick(pick, n) ==
  LET onto == HeadCommit
  IN  /\ Idle
      /\ onto # None
      /\ ParentReads(pick) /\ Readable(pick) /\ Readable(onto)
      /\ MapConflicts(ParentTree(pick), tree[onto], tree[pick]) = {}
      /\ CommitMerged(merge_map(ParentTree(pick), tree[onto], tree[pick]), <<onto>>, n)

\* revert: the change target -> its first parent, onto HEAD.
Revert(target, n) ==
  LET onto == HeadCommit
  IN  /\ Idle
      /\ onto # None
      /\ ParentReads(target) /\ Readable(target) /\ Readable(onto)
      /\ MapConflicts(tree[target], tree[onto], ParentTree(target)) = {}
      /\ CommitMerged(merge_map(tree[target], tree[onto], ParentTree(target)), <<onto>>, n)

\* The first-parent chain from c down to, and without, base.
ChainClosed(T, base) ==
  \A c \in T : ParentsOf(c) # <<>> /\ ParentsOf(c)[1] # base => ParentsOf(c)[1] \in T

Chain(c, base) ==
  IF c = base THEN {}
  ELSE {d \in Commits :
          \A T \in SUBSET Commits : (c \in T /\ ChainClosed(T, base)) => d \in T}

\* rebase: collect the commits to replay.
RebaseStart(upstream, base) ==
  /\ Idle
  /\ HeadCommit # None
  /\ base \in MergeBases(HeadCommit, upstream)
  /\ Chain(HeadCommit, base) \subseteq commits
  /\ rebase' = [todo |-> Chain(HeadCommit, base), onto |-> upstream]
  /\ UNCHANGED <<objects, tagObjs, shallow, refs, tag, index, stash>>

\* One turn of the replay loop: cherry-pick the oldest commit left.  A commit
\* is older than its children, so the oldest is the least id.
RebasePick(n) ==
  /\ rebase # None
  /\ \E c \in rebase.todo :
       /\ \A d \in rebase.todo : c <= d
       /\ ParentReads(c) /\ Readable(c) /\ Readable(rebase.onto)
       /\ MapConflicts(ParentTree(c), tree[rebase.onto], tree[c]) = {}
       /\ LET t == merge_map(ParentTree(c), tree[rebase.onto], tree[c])
          IN  /\ trees' = IF n >= 1 THEN trees \cup {t} ELSE trees
              /\ WriteCommit(t, <<rebase.onto>>, n >= 2)
       /\ rebase' = IF n >= 2
                    THEN [todo |-> rebase.todo \ {c}, onto |-> made + 1]
                    ELSE None
  /\ UNCHANGED <<leaves, tagObjs, shallow, refs, tag, index, stash>>

\* A conflict, a read error or a kill ends the rebase; refs have not moved.
RebaseAbort ==
  /\ rebase # None
  /\ rebase' = None
  /\ UNCHANGED <<objects, tagObjs, shallow, refs, tag, index, stash>>

RebaseFinish(n) ==
  /\ rebase # None
  /\ rebase.todo = {}
  /\ MoveTip(rebase.onto, n)
  /\ ClearIndex(n >= 5 /\ Readable(rebase.onto))
  /\ rebase' = None
  /\ UNCHANGED <<objects, tagObjs, shallow, tag, stash>>

-----------------------------------------------------------------------------
(* stash and gc.                                                           *)

\* The stash file after d of the two steps of its rewrite.
WrittenStack(new, d) == IF d <= 0 THEN stash ELSE IF d = 1 THEN <<>> ELSE new

\* stash push: t is the worktree.
StashPush(t, n) ==
  LET h    == HeadCommit
      goes == /\ h \in commits \cup {None}
              /\ h # None => tree[h] # t
              /\ n >= 3
  IN  /\ Idle
      /\ leaves' = IF n >= 1 THEN leaves \cup LeavesOf(t) ELSE leaves
      /\ trees' = IF n >= 2 THEN trees \cup {t} ELSE trees
      /\ WriteCommit(t, IF h = None THEN <<>> ELSE <<h>>, goes)
      /\ stash' = IF goes THEN WrittenStack(Append(stash, made + 1), n - 3) ELSE stash
      /\ ClearIndex(goes /\ HeadReadable /\ n >= 6)
      /\ UNCHANGED <<tagObjs, shallow, refs, tag, rebase>>

\* stash pop: the top must be readable before anything is written.
StashPop(n) ==
  /\ Idle
  /\ stash # <<>>
  /\ Readable(stash[Len(stash)])
  /\ stash' = WrittenStack(SubSeq(stash, 1, Len(stash) - 1), n)
  /\ ClearIndex(n >= 3)
  /\ UNCHANGED <<objects, tagObjs, shallow, refs, tag, rebase>>

StashDrop(n) ==
  /\ Idle
  /\ stash # <<>>
  /\ stash' = WrittenStack(SubSeq(stash, 1, Len(stash) - 1), n)
  /\ UNCHANGED <<objects, tagObjs, shallow, refs, tag, index, rebase>>

\* The roots of gc and fsck: HEAD, the names listed in refs/heads (only the
\* top directory is listed) and refs/tags.
TagTips ==
  {TagCommit(t) : t \in {u \in TagNames :
     tag[u] # None /\ (tag[u].annotated => <<u, tag[u].object>> \in tagObjs)}}

\* Mutant: tags are not roots.
TipsNoTags == ({HeadCommit} \cup {branch[b] : b \in FlatBranches}) \ {None}

Tips ==
  (({HeadCommit} \cup {branch[b] : b \in FlatBranches}) \ {None}) \cup TagTips

\* Mutant: gc keeps the commits the refs name and does not walk parents.
LiveTipsOnly == Tips \cap commits

Live == Walk(Tips) \cap commits

\* Mutant: the index is not a root.
GcNoIndex ==
  /\ Idle
  /\ commits' = Live
  /\ trees' = trees \cap {tree[c] : c \in Live}
  /\ leaves' = leaves \cap (UNION {LeavesOf(tree[c]) : c \in {d \in Live : Readable(d)}})
  /\ UNCHANGED <<made, tree, parents, tagObjs, shallow, refs, tag, index, stash, rebase>>

\* gc: keep what the tips and the index reach.
Gc ==
  /\ Idle
  /\ commits' = Live
  /\ trees' = trees \cap {tree[c] : c \in Live}
  /\ leaves' = leaves \cap ((UNION {LeavesOf(tree[c]) : c \in {d \in Live : Readable(d)}})
                            \cup (IF index = None THEN {} ELSE LeavesOf(index)))
  /\ tagObjs' = {x \in tagObjs : tag[x[1]] = [annotated |-> TRUE, object |-> x[2]]}
  /\ UNCHANGED <<made, tree, parents, shallow, refs, tag, index, stash, rebase>>

-----------------------------------------------------------------------------
Next ==
  \/ \E t \in Trees, n \in 0 .. 8 : CommitAll(t, n)
  \/ \E t \in Trees, n \in 0 .. 7 : CommitWorld(t, n)
  \/ \E n \in 0 .. 8 : CommitIndex(n)
  \/ \E w \in Trees, scope \in SUBSET Keys, n \in 0 .. 2 : Add(w, scope, n)
  \/ \E c \in Revisions, scope \in SUBSET Keys : RestoreStaged(c, scope)
  \/ \E c \in Revisions, b \in Branches \cup {None}, w \in BOOLEAN, n \in 0 .. 4 :
       Checkout(c, b, w, n)
  \/ \E b \in Branches, n \in 0 .. 3 : CreateBranch(b, n)
  \/ \E b \in Branches, n \in 0 .. 2 : DeleteBranch(b, n)
  \/ \E t \in TagNames, c \in Revisions, a \in BOOLEAN, n \in 0 .. 3 : Tag(t, c, a, n)
  \/ \E t \in TagNames : DeleteTag(t)
  \/ \E c \in Revisions, soft \in BOOLEAN, n \in 0 .. 5 : Reset(c, soft, n)
  \/ \E c \in Revisions, n \in 0 .. 5 : MergeFastForward(c, n)
  \/ \E c \in Revisions, n \in 0 .. 7 :
       \E base \in Commits \cup {None} : MergeTrue(c, base, n)
  \/ \E c \in Revisions, n \in 0 .. 7 : CherryPick(c, n)
  \/ \E c \in Revisions, n \in 0 .. 7 : Revert(c, n)
  \/ \E c \in Revisions : \E base \in Commits \cup {None} : RebaseStart(c, base)
  \/ \E n \in 0 .. 2 : RebasePick(n)
  \/ RebaseAbort
  \/ \E n \in 0 .. 5 : RebaseFinish(n)
  \/ \E t \in Trees, n \in 0 .. 6 : StashPush(t, n)
  \/ \E n \in 0 .. 3 : StashPop(n)
  \/ \E n \in 0 .. 2 : StashDrop(n)
  \/ Gc

Spec == Init /\ [][Next]_vars

-----------------------------------------------------------------------------
(* Properties.                                                             *)

\* Every variable has its type; a stored commit has been written.
ObjectsOK ==
  /\ made \in 0 .. MaxCommits
  /\ tree \in [Commits -> Trees]
  /\ parents \in [Commits -> Seq(Commits)]
  /\ commits \subseteq 1 .. made
  /\ trees \subseteq Trees
  /\ leaves \subseteq Leaves

RefsOK ==
  /\ head \in [on : Branches \cup {None}, at : Commits \cup {None}]
  /\ branch \in [Branches -> Commits \cup {None}]
  /\ headLog \subseteq Commits
  /\ branchLog \in [Branches -> SUBSET Commits]

OthersOK ==
  /\ tagObjs \subseteq TagNames \X Commits
  /\ shallow \subseteq Commits
  /\ tag \in [TagNames -> {None} \cup [annotated : BOOLEAN, object : Commits]]
  /\ index \in Trees \cup {None}
  /\ stash \in Seq(Commits)
  /\ rebase \in {None} \cup [todo : SUBSET Commits, onto : Commits]

TypeOK == ObjectsOK /\ RefsOK /\ OthersOK

\* The object store is closed: a commit that is in it can be checked out, and
\* so can all of its history down to the shallow boundary.  It takes the order
\* of the writes inside every command (leaves, manifest, commit), the reads
\* that fail before a commit is built on a missing parent, and gc's roots.
StoreClosed ==
  \A c \in commits :
    /\ tree[c] \in trees
    /\ LeavesOf(tree[c]) \subseteq leaves
    /\ ParentSet(c) \subseteq commits

\* Whatever is staged can be committed: the leaf objects of the index are in
\* the store, also when gc runs between `add` and `commit` (gc.rs: "objects
\* staged but not yet committed must survive gc").
IndexBacked == index # None => LeavesOf(index) \subseteq leaves

\* The commits that HEAD, the one-component branches and the tags name.
NamedTips ==
  ({HeadCommit} \cup {branch[b] : b \in FlatBranches}
    \cup {TagCommit(t) : t \in TagNames}) \ {None}

\* No command, killed or not, leaves HEAD, a branch or a tag at a commit the
\* store lacks, unless it was told to put it at a revision that was already
\* gone (reset and tag do not look).  In particular gc removes nothing a ref
\* names.
TipsStayReadable ==
  [][NamedTips' \subseteq commits' \cup (Revisions \ commits)]_vars

\* What one side's own work started from: the manifests of the commits that
\* both sides share and that a commit of this side alone has for a parent.
Grounds(mine, other) ==
  LET common == CommonAncestors(mine, other)
      own    == (Ancestors(mine) \ Ancestors(other)) \cap commits
  IN  IF common = {} THEN {EmptyTree}
      ELSE {tree[p] : p \in {q \in common : \E c \in own : q \in ParentSet(c)}}

\* The merge commit just made keeps every entry that `mine` has otherwise than
\* all the manifests its own work started from.
KeepsWorkOf(mine, other) ==
  \A k \in Keys :
    (\A g \in Grounds(mine, other) : g[k] # tree[mine][k])
      => tree'[made'][k] = tree[mine][k]

\* A merge undoes no change: what one side changed since the two histories
\* parted is in the merge commit, also when the other side once had, and then
\* reverted, the same entry, when the histories were merged before, or when
\* they share nothing.  It takes a base that no other common ancestor
\* descends from (merge.rs merge_base): an older one has the entry as the
\* other side still has it, and the change is taken for the other side's.
MergeUndoesNothing ==
  [][ made' > made /\ Len(parents'[made']) = 2
      => /\ KeepsWorkOf(parents'[made'][1], parents'[made'][2])
         /\ KeepsWorkOf(parents'[made'][2], parents'[made'][1]) ]_vars

-----------------------------------------------------------------------------
(* What comments and docs of the repository say and the code does not do.  *)

\* gc.rs: gc drops "everything unreachable", and a namespaced branch is a
\* branch (repository.rs allows "namespaced names like feature/foo"): a step
\* that leaves the branch where it is leaves its commit in the store.
NestedTipsStayReadable ==
  [][\A b \in NestedBranches :
       branch'[b] = branch[b] /\ branch[b] \in commits => branch[b] \in commits']_vars

=============================================================================
