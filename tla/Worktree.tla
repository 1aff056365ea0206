------------------------------ MODULE Worktree ------------------------------
(***************************************************************************)
(* The world directory and the manifests made from it and written back to  *)
(* it: snapshot.rs, checkout.rs, index.rs, status.rs, stash.rs, the region *)
(* container (anvil/region.rs) and the commands of main.rs that use them.  *)
(*                                                                         *)
(* The world has one region file, whose chunks may spill into .mcc files   *)
(* beside it, one .dat file, other files, files that are never captured    *)
(* (session.lock) and directories.  The game and the player                *)
(* change it while no command runs.  A command that rewrites it is a list  *)
(* of steps, and may be killed at any point of any of them.  HEAD and      *)
(* objects are written in one step here (Repo.tla and PackStore.tla take   *)
(* them apart), and the history is what replay needs of it: first parents. *)
(* An NBT file is its root value, and a chunk its value: their compression *)
(* and the name of the root are not kept by the code.                      *)
(***************************************************************************)
EXTENDS Integers, Sequences, Functions

CONSTANTS
  Slots,           \* chunk positions of the region, also the names of their .mcc
  Chunks,          \* chunk contents
  Schemes, ZLib,   \* compression schemes, and the one checkout writes
  GameForms,       \* <<scheme, chunk>>: how the game saves chunks
  GameSpills,      \* those of them that need more than 255 sectors
  Spills,          \* the chunks that do under the compression of checkout
  Datas,           \* contents of the other files
  Region, Dat,     \* the .mca and the .dat file
  Others, Skipped, \* other files, files never captured
  Dirs, Inside,    \* directories, and the paths inside each
  Scopes,          \* what pathspecs of `add` select
  MaxCommits, MaxTurns, MaxKills,  \* bounds: commits, edits and commands, kills
  External, None

INSTANCE ThreeWay

Paths   == {Region, Dat} \cup Slots \cup Others \cup Skipped
Commits == 1 .. MaxCommits

ASSUME FormsAssumption ==
  ZLib \in Schemes /\ GameForms \subseteq Schemes \X Chunks /\ GameSpills \subseteq GameForms
ASSUME ScopesAssumption == Scopes \subseteq SUBSET (Paths \cup Dirs)
ASSUME PathsAssumption ==
  /\ Region # Dat /\ {Region, Dat} \cap (Slots \cup Others \cup Skipped) = {}
  /\ Slots \cap Others = {} /\ Slots \cap Skipped = {} /\ Others \cap Skipped = {}
  /\ Paths \cap Dirs = {}
ASSUME InsideAssumption == Inside \in [Dirs -> SUBSET Paths]

VARIABLES
  files,    \* the bytes of each file of the world, None if it is not there
  dirs,     \* its directories
  trees,    \* trees[c]: the manifest of commit c
  parent,   \* parent[c]: its first parent, 0 for a root
  head,     \* the commit of HEAD, 0 before the first
  index,    \* the staged manifest, None: no index file
  stash,    \* the stash file
  job,      \* the command that rewrites the world, or Idle
  turns,    \* number of edits and commands
  kills,    \* number of commands killed
  fresh,    \* ghost: the commit just written to the world, 0 after anything else
  saved,    \* ghost: saved[c]: what the game saw in the world c was taken from
  shelved   \* ghost: the stash last pushed or popped, 0 after anything else

world   == <<files, dirs>>
repo    == <<trees, parent, head, index, stash>>
ghosts  == <<fresh, saved, shelved>>
bounds  == <<turns, kills>>
vars    == <<world, repo, job, bounds, ghosts>>

-----------------------------------------------------------------------------
(* Bytes of files.                                                         *)

Slot(scheme, body) == [scheme |-> scheme, body |-> body]

RegionBytes(f)        == <<"region", f>>           \* f[s]: a Slot or None
ChunkBytes(scheme, c) == <<"chunk", scheme, c>>    \* the payload of a chunk
NbtBytes(d)           == <<"nbt", d>>
RawBytes(d)           == <<"raw", d>>
Truncated             == <<"empty">>

\* RegionFile::parse: the slots of a region file; a file shorter than the
\* header has no chunks.
SlotsOf(b) == IF b[1] = "region" THEN b[2] ELSE [s \in Slots |-> None]

\* The payload of slot s: inline, or the bytes of the .mcc file.
Payload(fs, s) ==
  LET slot == SlotsOf(fs[Region])[s]
  IN  IF slot = None THEN None
      ELSE IF slot.body = External THEN fs[s] ELSE ChunkBytes(slot.scheme, slot.body)

\* codec::decode: the scheme in the region must be that of the payload.
Decodes(fs, s) ==
  LET b == Payload(fs, s)
  IN  b[1] = "chunk" /\ b[2] = SlotsOf(fs[Region])[s].scheme

\* try_chunks: a chunk whose body is missing is left out; one that cannot be
\* decoded makes the whole file a blob.
IsRegion(fs) ==
  /\ fs[Region] # None /\ fs[Region][1] \in {"region", "empty"}
  /\ \A s \in Slots : Payload(fs, s) # None => Decodes(fs, s)

try_chunks(fs) == [s \in Slots |-> IF Payload(fs, s) = None THEN None ELSE Payload(fs, s)[3]]

\* What the game reads: its chunks, and the other files it uses.
View(fs) ==
  [chunks |-> [s \in Slots |->
                 IF fs[Region] # None /\ Payload(fs, s) # None /\ Decodes(fs, s)
                 THEN Payload(fs, s)[3] ELSE None],
   rest   |-> [p \in {Dat} \cup Others |-> fs[p]]]

\* The directories some of these paths are in.
Homes(ps) == {d \in Dirs : Inside[d] \cap ps # {}}

\* read_dir finds nothing in a directory, not even a file never captured.
EmptyDirs(fs, ds) == {d \in ds : \A p \in Inside[d] : fs[p] = None}

-----------------------------------------------------------------------------
(* Manifests.                                                              *)

EmptyManifest ==
  [regions |-> None, nbt |-> None, blobs |-> [p \in Paths |-> None], empty_dirs |-> {}]

IsNbt(fs) == fs[Dat] # None /\ fs[Dat][1] = "nbt"

\* Mutant: a .mcc is taken for a part of its region.
IsBlobNoMcc(fs, p) ==
  /\ fs[p] # None /\ p \notin Skipped \cup Slots
  /\ ~(p = Region /\ IsRegion(fs))
  /\ ~(p = Dat /\ IsNbt(fs))

\* classify
IsBlob(fs, p) ==
  /\ fs[p] # None /\ p \notin Skipped
  /\ ~(p = Region /\ IsRegion(fs))
  /\ ~(p = Dat /\ IsNbt(fs))

\* build, of the files and directories in scope.
build(fs, ds, scope) ==
  [regions    |-> IF Region \in scope /\ IsRegion(fs) THEN try_chunks(fs) ELSE None,
   nbt        |-> IF Dat \in scope /\ IsNbt(fs) THEN fs[Dat][2] ELSE None,
   blobs      |-> [p \in Paths |-> IF p \in scope /\ IsBlob(fs, p) THEN fs[p] ELSE None],
   empty_dirs |-> EmptyDirs(fs, ds) \cap scope]

snapshot == build(files, dirs, Paths \cup Dirs)

\* The paths a manifest has an entry for.
Keys(m) ==
  {p \in Paths : \/ m.blobs[p] # None
                 \/ p = Region /\ m.regions # None
                 \/ p = Dat /\ m.nbt # None}

\* flatten: path to signature; a later kind hides an earlier one.
flatten(m) ==
  [p \in Paths \cup Dirs |->
                  IF p \in m.empty_dirs THEN <<"d">>
                  ELSE IF p \in Dirs THEN None
                  ELSE IF m.blobs[p] # None THEN <<"b", m.blobs[p]>>
                  ELSE IF p = Dat /\ m.nbt # None THEN <<"n", m.nbt>>
                  ELSE IF p = Region /\ m.regions # None THEN <<"r", m.regions>>
                  ELSE None]

\* head_tree, effective
TreeOf(c) == IF c = 0 THEN EmptyManifest ELSE trees[c]
Effective == IF index = None THEN TreeOf(head) ELSE index

\* diff: the paths that differ, and those in cur only.
Changed(m, cur) == {p \in Paths \cup Dirs : flatten(m)[p] # flatten(cur)[p]}
AddedIn(m, cur) == {p \in Changed(m, cur) : flatten(m)[p] = None}

\* status_full: the paths the index does not know.
Untracked == AddedIn(Effective, snapshot)

\* Result equal to HEAD: a clean index is the file's absence.
IndexFile(m) == IF m = TreeOf(head) THEN None ELSE m

\* three_way_manifest: regions chunk by chunk; a region left without chunks
\* goes; empty directories are united.
ChunksOf(m) == IF m.regions = None THEN [s \in Slots |-> None] ELSE m.regions

MergeConflicts(mb, mo, mt) ==
  \/ MapConflicts(ChunksOf(mb), ChunksOf(mo), ChunksOf(mt)) # {}
  \/ Conflicting(mb.nbt, mo.nbt, mt.nbt)
  \/ MapConflicts(mb.blobs, mo.blobs, mt.blobs) # {}

three_way_manifest(mb, mo, mt) ==
  LET chunks == merge_map(ChunksOf(mb), ChunksOf(mo), ChunksOf(mt))
  IN  [regions    |-> IF \A s \in Slots : chunks[s] = None THEN None ELSE chunks,
       nbt        |-> three_way(mb.nbt, mo.nbt, mt.nbt),
       blobs      |-> merge_map(mb.blobs, mo.blobs, mt.blobs),
       empty_dirs |-> mo.empty_dirs \cup mt.empty_dirs]

-----------------------------------------------------------------------------
(* checkout: the files each of its steps writes.                           *)

\* RegionWriter::write: the spilled chunks first, then the region.
SpillWrites(m) ==
  [s \in {s \in Slots : m.regions # None /\ m.regions[s] \in Spills} |->
     ChunkBytes(ZLib, m.regions[s])]

RegionWrites(m) ==
  [p \in {p \in {Region} : m.regions # None} |->
     RegionBytes([s \in Slots |->
       IF m.regions[s] = None THEN None
       ELSE Slot(ZLib, IF m.regions[s] \in Spills THEN External ELSE m.regions[s])])]

NbtWrites(m)  == [p \in {p \in {Dat} : m.nbt # None} |-> NbtBytes(m.nbt)]
BlobWrites(m) == [p \in {q \in Paths : m.blobs[q] # None} |-> m.blobs[p]]

\* prune_extra removes every file the manifest does not have.
PruneWrites(m) == [p \in Paths \ Keys(m) |-> None]

Writes(step, m) ==
  IF step = "spill" THEN SpillWrites(m)
  ELSE IF step = "regions" THEN RegionWrites(m)
  ELSE IF step = "nbt" THEN NbtWrites(m)
  ELSE IF step = "blobs" THEN BlobWrites(m)
  ELSE IF step = "prune" THEN PruneWrites(m)
  ELSE <<>>

\* The directories it makes: those of the files it writes (create_dir_all), and
\* at the end the manifest's empty ones.  prune_extra removes none.
DirsMade(step, m) ==
  IF step = "dirs" THEN m.empty_dirs
  ELSE Homes({p \in DOMAIN Writes(step, m) : Writes(step, m)[p] # None})

\* Mutant: the blobs are written before the files they fall back from.
CheckoutStepsBlobsFirst(prune) ==
  <<"blobs", "spill", "regions", "nbt", "dirs">> \o IF prune THEN <<"prune">> ELSE <<>>

CheckoutSteps(prune) ==
  <<"spill", "regions", "nbt", "blobs", "dirs">> \o IF prune THEN <<"prune">> ELSE <<>>

\* write_stack truncates the stash file, then fills it.
StackSteps == <<"truncate", "stack">>

\* A command: write manifest m, that of commit c, to the world; set HEAD to
\* `to` and the stash to `stack` on the way.
Idle == [todo |-> <<>>, m |-> EmptyManifest, c |-> 0, to |-> 0, stack |-> <<>>]
Job(todo, m, c, to, stack) == [todo |-> todo, m |-> m, c |-> c, to |-> to, stack |-> stack]

\* No command runs, and one may start (or the player may do something).
Turn == job = Idle /\ turns < MaxTurns /\ turns' = turns + 1 /\ UNCHANGED kills

\* The world is about to change, or may have.
Touched == fresh' = 0 /\ shelved' = 0

Made == {c \in Commits : trees[c] # None}

\* create_commit: the next commit, of manifest m.
Commit(new, m, p, view) ==
  /\ trees[new] = None /\ (new > 1 => trees[new - 1] # None)
  /\ trees' = [trees EXCEPT ![new] = m]
  /\ parent' = [parent EXCEPT ![new] = p]
  /\ saved' = [saved EXCEPT ![new] = view]

-----------------------------------------------------------------------------
Init ==
  /\ files = [p \in Paths |-> None] /\ dirs = {}
  /\ trees = [c \in Commits |-> None] /\ parent = [c \in Commits |-> 0]
  /\ head = 0 /\ index = None /\ stash = <<>>
  /\ job = Idle /\ turns = 0 /\ kills = 0
  /\ fresh = 0 /\ saved = [c \in Commits |-> None] /\ shelved = 0

(* The game and the player, while no command runs.                         *)

Edit(fs, ds) ==
  /\ Turn
  /\ fs # files \/ ds # dirs
  /\ files' = fs /\ dirs' = ds
  /\ Touched
  /\ UNCHANGED <<repo, job, saved>>

\* The game saves chunk c in slot s; it removes a .mcc it no longer needs.
SaveChunk(s, form) ==
  LET old == IF files[Region] = None THEN [t \in Slots |-> None] ELSE SlotsOf(files[Region])
      far == form \in GameSpills
  IN  Edit([files EXCEPT
              ![Region] = RegionBytes([old EXCEPT
                 ![s] = Slot(form[1], IF far THEN External ELSE form[2])]),
              ![s] = IF far THEN ChunkBytes(form[1], form[2]) ELSE None],
           dirs \cup Homes(IF far THEN {Region, s} ELSE {Region}))

\* A file is written or removed; a .mca or .dat file may be corrupt.
SaveFile(p, b) ==
  Edit([files EXCEPT ![p] = b], IF b = None THEN dirs ELSE dirs \cup Homes({p}))

\* An empty directory is made or removed.
ToggleDir(d) ==
  /\ d \in dirs => d \in EmptyDirs(files, dirs)
  /\ Edit(files, IF d \in dirs THEN dirs \ {d} ELSE dirs \cup {d})

-----------------------------------------------------------------------------
(* Commands that only read the world.                                      *)

\* add_paths: overlay what is in scope, drop what is no longer there.
Add(scope) ==
  LET partial == build(files, dirs, scope)
      present == Keys(partial)
      gone    == scope \ present
      idx     == [regions    |-> IF partial.regions # None THEN partial.regions
                                 ELSE IF Region \in gone THEN None ELSE Effective.regions,
                  nbt        |-> IF partial.nbt # None THEN partial.nbt
                                 ELSE IF Dat \in gone THEN None ELSE Effective.nbt,
                  blobs      |-> [p \in Paths |->
                                    IF partial.blobs[p] # None THEN partial.blobs[p]
                                    ELSE IF p \in gone THEN None ELSE Effective.blobs[p]],
                  empty_dirs |-> (Effective.empty_dirs \ scope) \cup partial.empty_dirs]
      changed == Changed(Effective, idx) # {}
  IN  /\ Turn
      /\ present # {} \/ scope \cap (Keys(Effective) \cup Effective.empty_dirs) # {}
      /\ index' = IF idx = TreeOf(head) THEN None ELSE IF changed THEN idx ELSE index
      /\ UNCHANGED <<world, trees, parent, head, stash, job, ghosts>>

\* m, with the entries that path p has in manifest `from`, of whatever kind.
WithEntry(m, p, from) ==
  [regions    |-> IF p = Region THEN from.regions ELSE m.regions,
   nbt        |-> IF p = Dat THEN from.nbt ELSE m.nbt,
   blobs      |-> [m.blobs EXCEPT ![p] = from.blobs[p]],
   empty_dirs |-> m.empty_dirs]

\* restore --staged
RestoreStaged(p, c) ==
  /\ Turn
  /\ index' = IndexFile(WithEntry(Effective, p, trees[c]))
  /\ UNCHANGED <<world, trees, parent, head, stash, job, ghosts>>

NothingNew(m) == IF head = 0 THEN m = EmptyManifest ELSE m = trees[head]

\* commit: the staged manifest.  What the game sees in it is not promised.
CommitIndex(new) ==
  /\ Turn /\ ~NothingNew(Effective)
  /\ Commit(new, Effective, head, None)
  /\ head' = new /\ index' = None
  /\ UNCHANGED <<world, stash, job, fresh, shelved>>

\* commit -a: the world.
CommitAll(new) ==
  /\ Turn /\ ~NothingNew(snapshot)
  /\ Commit(new, snapshot, head, View(files))
  /\ head' = new /\ index' = None
  /\ UNCHANGED <<world, stash, job, fresh, shelved>>

-----------------------------------------------------------------------------
(* Commands that rewrite the world.                                        *)

\* checkout, of the whole or (sparse) without the region.
Checkout(c) ==
  /\ Turn
  /\ job' = Job(CheckoutSteps(TRUE) \o <<"clear", "head">>, trees[c], c, c, <<>>)
  /\ Touched
  /\ UNCHANGED <<world, repo, saved>>

CheckoutSparse(c) ==
  /\ Turn
  /\ job' = Job(CheckoutSteps(FALSE) \o <<"clear", "head">>,
                [trees[c] EXCEPT !.regions = None], 0, c, <<>>)
  /\ Touched
  /\ UNCHANGED <<world, repo, saved>>

\* reset --hard: HEAD, the index, then the world.
ResetHard(c) ==
  /\ Turn
  /\ job' = Job(<<"head", "clear">> \o CheckoutSteps(TRUE), trees[c], c, c, <<>>)
  /\ Touched
  /\ UNCHANGED <<world, repo, saved>>

\* restore: one path, and nothing is pruned.
Restore(p, c) ==
  /\ Turn
  /\ job' = Job(CheckoutSteps(FALSE), WithEntry(EmptyManifest, p, trees[c]), 0, 0, <<>>)
  /\ Touched
  /\ UNCHANGED <<world, repo, saved>>

\* Mutant: HEAD is moved to a commit that was not made.
ReplayUncommitted(new, base, theirs) ==
  LET m == three_way_manifest(TreeOf(base), trees[head], TreeOf(theirs))
  IN  /\ Turn /\ head # 0
      /\ ~MergeConflicts(TreeOf(base), trees[head], TreeOf(theirs))
      /\ trees[new] = None
      /\ job' = Job(<<"head">> \o CheckoutSteps(TRUE) \o <<"clear">>, m, head, new, <<>>)
      /\ Touched
      /\ UNCHANGED <<world, repo, saved>>

\* cherry-pick (base the parent of c) and revert (base c itself).
Replay(new, base, theirs) ==
  LET m == three_way_manifest(TreeOf(base), trees[head], TreeOf(theirs))
  IN  /\ Turn /\ head # 0
      /\ ~MergeConflicts(TreeOf(base), trees[head], TreeOf(theirs))
      /\ Commit(new, m, head, None)
      /\ job' = Job(<<"head">> \o CheckoutSteps(TRUE) \o <<"clear">>, m, new, new, <<>>)
      /\ Touched
      /\ UNCHANGED <<world, head, index, stash>>

CherryPick(new, c) == Replay(new, parent[c], c)
Revert(new, c)     == Replay(new, c, parent[c])

\* Mutant: the world is reset before the stash is recorded.
StashPushResetFirst(new) ==
  /\ Turn
  /\ head # 0 => snapshot # trees[head]
  /\ Commit(new, snapshot, head, View(files))
  /\ job' = Job(CheckoutSteps(TRUE) \o StackSteps \o <<"clear">>,
                TreeOf(head), head, 0, Append(stash, new))
  /\ fresh' = 0 /\ shelved' = new
  /\ UNCHANGED <<world, head, index, stash>>

\* stash push: record the world, then put that of HEAD in its place.
StashPush(new) ==
  /\ Turn
  /\ head # 0 => snapshot # trees[head]
  /\ Commit(new, snapshot, head, View(files))
  /\ job' = Job(StackSteps \o (IF head = 0 THEN <<>> ELSE CheckoutSteps(TRUE)) \o <<"clear">>,
                TreeOf(head), head, 0, Append(stash, new))
  /\ fresh' = 0 /\ shelved' = new
  /\ UNCHANGED <<world, head, index, stash>>

\* stash pop: write the world of the last stash, then drop it.
StashPop ==
  /\ Turn /\ stash # <<>>
  /\ LET top == stash[Len(stash)]
     IN  /\ job' = Job(CheckoutSteps(TRUE) \o StackSteps \o <<"clear">>, trees[top], top, 0,
                       SubSeq(stash, 1, Len(stash) - 1))
         /\ fresh' = 0 /\ shelved' = top
  /\ UNCHANGED <<world, repo, saved>>

\* stash drop
StashDrop ==
  /\ Turn /\ stash # <<>>
  /\ job' = Job(StackSteps, EmptyManifest, 0, 0, SubSeq(stash, 1, Len(stash) - 1))
  /\ Touched
  /\ UNCHANGED <<world, repo, saved>>

\* clean --force: the untracked files; it cannot remove directories.
Clean ==
  /\ Turn
  /\ \E gone \in (SUBSET (Untracked \cap Paths)) \ {{}} :
       files' = [p \in Paths |-> IF p \in gone THEN None ELSE files[p]]
  /\ Touched
  /\ UNCHANGED <<dirs, repo, job, saved>>

\* The world after the writes w.
Written(w) == [p \in Paths |-> IF p \in DOMAIN w THEN w[p] ELSE files[p]]

\* The next step of the command.
Step ==
  /\ job # Idle
  /\ LET step == Head(job.todo)
         last == Len(job.todo) = 1
     IN  /\ files' = Written(Writes(step, job.m))
         /\ dirs'  = dirs \cup DirsMade(step, job.m)
         /\ index' = IF step = "clear" THEN None ELSE index
         /\ head'  = IF step = "head" THEN job.to ELSE head
         /\ stash' = IF step = "truncate" THEN <<>>
                     ELSE IF step = "stack" THEN job.stack ELSE stash
         /\ job'   = IF last THEN Idle ELSE [job EXCEPT !.todo = Tail(@)]
         /\ fresh' = IF last THEN job.c ELSE fresh
  /\ UNCHANGED <<trees, parent, bounds, saved, shelved>>

\* The command is killed in a step: some of its files are written (removed)
\* and of its directories made, the file it was writing is empty.
Kill(done, torn, mkdirs) ==
  /\ job # Idle
  /\ LET step == Head(job.todo)
         w    == Writes(step, job.m)
     IN  /\ done \subseteq DOMAIN w
         /\ torn \subseteq DOMAIN w \ done
         /\ step = "prune" => torn = {}
         /\ mkdirs \subseteq DirsMade(step, job.m)
         /\ step # "prune" => Homes(done \cup torn) \subseteq mkdirs
         /\ files' = [p \in Paths |-> IF p \in torn THEN Truncated
                                     ELSE IF p \in done THEN w[p] ELSE files[p]]
  /\ dirs' = dirs \cup mkdirs
  /\ job' = Idle
  /\ kills < MaxKills /\ kills' = kills + 1
  /\ UNCHANGED <<repo, turns, ghosts>>

Next ==
  \/ \E s \in Slots, form \in GameForms : SaveChunk(s, form)
  \/ \E p \in Paths, d \in Datas : SaveFile(p, RawBytes(d))
  \/ \E d \in Datas : SaveFile(Dat, NbtBytes(d))
  \/ \E p \in Paths : SaveFile(p, None)
  \/ \E d \in Dirs : ToggleDir(d)
  \/ \E scope \in Scopes : Add(scope)
  \/ \E p \in Paths, c \in Made : RestoreStaged(p, c)
  \/ \E new \in Commits : CommitIndex(new)
  \/ \E new \in Commits : CommitAll(new)
  \/ \E c \in Made : Checkout(c)
  \/ \E c \in Made : CheckoutSparse(c)
  \/ \E c \in Made : ResetHard(c)
  \/ \E p \in Paths, c \in Made : Restore(p, c)
  \/ \E new \in Commits, c \in Made : CherryPick(new, c)
  \/ \E new \in Commits, c \in Made : Revert(new, c)
  \/ \E new \in Commits : StashPush(new)
  \/ StashPop
  \/ StashDrop
  \/ Clean
  \/ Step
  \/ \E done \in SUBSET Paths, torn \in {{}} \cup {{p} : p \in Paths},
        mkdirs \in SUBSET Dirs : Kill(done, torn, mkdirs)

Spec == Init /\ [][Next]_vars

-----------------------------------------------------------------------------
(* Properties.                                                             *)

SlotValues == [scheme : Schemes, body : Chunks \cup {External}]

Bytes ==
  UNION {{RegionBytes(f) : f \in [Slots -> SlotValues \cup {None}]},
         {ChunkBytes(scheme, c) : scheme \in Schemes, c \in Chunks},
         {NbtBytes(d) : d \in Datas}, {RawBytes(d) : d \in Datas}, {Truncated}}

Manifests ==
  [regions    : [Slots -> Chunks \cup {None}] \cup {None},
   nbt        : Datas \cup {None},
   blobs      : [Paths -> Bytes \cup {None}],
   empty_dirs : SUBSET Dirs]

Views ==
  [chunks : [Slots -> Chunks \cup {None}], rest : [{Dat} \cup Others -> Bytes \cup {None}]]

ASSUME DataAssumption ==
  /\ MaxCommits \in Nat
  /\ Spills \subseteq Chunks /\ External \notin Chunks
  /\ None \notin Chunks \cup Datas \cup SlotValues \cup Bytes \cup Manifests \cup Views
  /\ None \notin [Slots -> Chunks \cup {None}]

\* The type invariant; HEAD, parents and stashes are commits that were made.
WorktreeTypeOK ==
  /\ files \in [Paths -> Bytes \cup {None}] /\ dirs \subseteq Dirs
  /\ trees \in [Commits -> Manifests \cup {None}]
  /\ parent \in [Commits -> Made \cup {0}]
  /\ head \in Made \cup {0}
  /\ index \in Manifests \cup {None}
  /\ stash \in Seq(Made)
  /\ job.m \in Manifests /\ job.stack \in Seq(Made)
  /\ {job.c, job.to, fresh, shelved} \subseteq Made \cup {0}
  /\ saved \in [Commits -> Views \cup {None}]

\* An assumption on the game: a chunk that checkout spills, the game spills
\* too, and as zlib.  Otherwise the blobs overwrite the .mcc that checkout
\* wrote, or prune, which does not know it, removes it.
ZLibSpills ==
  \A form \in GameForms : form[2] \in Spills => form \in GameSpills /\ form[1] = ZLib

\* checkout gives the game back the world that `commit -a` or `stash push`
\* took: every chunk, through .mcc files and blob fallbacks, and every file.
CheckoutGivesBack ==
  fresh # 0 /\ saved[fresh] # None => View(files) = saved[fresh]

\* The chunks of m that checkout spills are in the manifest's .mcc files, as
\* checkout would write them.
SpillsListed(m) ==
  m.regions # None /\ m.blobs[Region] = None =>
    \A s \in Slots : m.regions[s] \in Spills => m.blobs[s] = ChunkBytes(ZLib, m.regions[s])

\* After a whole checkout of any commit with its .mcc files, also of one that
\* was staged, picked or merged together and has a path in two kinds, status
\* shows no changed file, whatever lay in the world before and whatever was
\* killed over it.  (A region that was staged as a blob, since its .mcc was
\* broken, is a region again beside a .mcc that is not.)  What it may show is
\* directories: one left over without files is untracked, since prune_extra
\* removes files only, and an empty one of the manifest is missing only where
\* the manifest has a file inside it (staged there, or merged).
FreshIsClean ==
  fresh # 0 /\ SpillsListed(trees[fresh]) /\ ~IsRegion(trees[fresh].blobs) =>
    Changed(trees[fresh], snapshot)
      \subseteq (Dirs \ trees[fresh].empty_dirs) \cup Homes(Keys(trees[fresh]))

\* While a stash is pushed or popped, and after a kill, the player's work is
\* in the world or on the stash.
WorkIsSomewhere ==
  shelved # 0 => shelved \in Range(stash) \/ View(files) = saved[shelved]

=============================================================================
