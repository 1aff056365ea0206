# A TLA+ model of mcagit

mcagit is version control for Minecraft worlds: a git-like repository (`crates/repo`)
whose snapshots know about region files, chunks and NBT (`crates/anvil`, `crates/nbt`),
with diff and patch (`crates/diff`, `crates/patch`), queries (`crates/query`) and one
command-line program over all of it (`crates/cli`). This directory models the part that
can lose a player's work: the object store, the commit graph, everything that names
objects, and the protocols that copy histories between repositories.

Paths below are relative to the repository; `repo/` is `crates/repo/src/`.

## Inventory

| Component | State | Operations | What makes it correct |
|---|---|---|---|
| Local repository (`repo/repository.rs`, `index.rs`, `stash.rs`, `replay.rs`, `merge.rs`, `fsck.rs`; commands in `cli/src/main.rs`) | HEAD, refs/heads, refs/tags, reflogs, `index`, `stash`, `shallow`; commit, manifest, leaf and tag objects | commit, add, restore, checkout, branch, tag, reset, merge, cherry-pick, revert, rebase, stash, gc | a stored commit is whole; what a ref or the index names is stored; a merge undoes nothing that either side changed |
| Object store (`repo/object_store.rs`, `pack.rs`, `gc.rs`, `chunk_cache.rs`, `snapshot.rs`) | loose files, `incoming.pack.tmp`, packs and their indexes, `chunkcache.json`; per process: the packs it loaded | write, read, exists, pack, snapshot, gc | the branch is readable by whoever opens the repository next, wherever a process is or died; packs are immutable |
| Remotes (`repo/remote.rs`, `transfer.rs`, `serve.rs`) | one store and branch per repository, shallow boundary, promisor | clone (full, shallow, partial), push, fetch, pull, backfill; have, get, get_pack, put_pack, set_ref, info_refs | what is published can be cloned; what was fetched is complete, also after an interrupted fetch |
| Bucket remote (`repo/bucket.rs`) | pack blobs, `packs/manifest` and refs with ETags, HEAD | put_objects, append_to_manifest, set_branch, ensure_index, get_object | no published ref is incomplete; racing pushes lose nothing and end |
| Worktree (`repo/snapshot.rs`, `checkout.rs`, `index.rs`, `status.rs`, `stash.rs`, `pathspec.rs`; `anvil/src/region.rs`) | files of a world and their kinds, chunks spilled into `.mcc` files | snapshot, add, checkout, prune, restore, stash, clean, status | checkout gives back the world the game saw; a stash never loses the work it shelves |
| Bisect (`repo/bisect.rs`) | `BISECT_START`, `BISECT_BAD`, `BISECT_GOOD`, `BISECT_SKIP`, HEAD | start, good, bad, skip, reset, compute | the first bad commit is found, or it is said that it cannot be |
| Cloud clients (`repo/cloud.rs`) | requests and answers on the way, the ETag read, today's date | get, put_if_match, the calendar | what the `Bucket` trait promises: a write that says it won took effect on what was read, one that says it lost never does |
| Diff and patch (`nbt`, `diff`, `patch`) | two worlds, a patch, an output directory | diff, extract, apply (`--reverse`, `--force`, onto a third world) | apply after extract gives the other world; what no side changed is kept; diff and patch list the same |
| Queries (`anvil/src/chunk.rs`, `blockstate.rs`, `query`) | region files of a dimension, packed palettes | inspect, where-changed, find, map, the block edits of diff | they say what the game put there |
| Formats, cryptography, presentation (`repo/wirepack.rs`, `sign.rs`, `hooks.rs`, sectors and compressions, CLI output) | none of its own | framing, ssh-keygen, user hooks, rendering | not modelled |

How they meet: every command opens the repository (which loads the pack indexes once),
snapshots or reads objects, and finally moves a ref. Remotes are reached through the
`Transport` trait; the server opens the repository anew for every request. The bucket has
no server at all: clients meet only in conditional writes. **No lock exists anywhere**, so
processes, servers and gc share state through the file system alone.

What is hard to test here: kills between the many small writes of a command; two
processes on one repository; gc against everything; caches and pack lists that are stale
when used; interrupted fetches that leave half a history; races for the bucket manifest;
answers lost after the write was done; lists whose elements are found by identity or by
index; coordinates on the negative side and palettes at a power of two.
`PROJECT.json` lists each hazard at its line with the property that watches it.

## Modules

| Module | Models | Composes |
|---|---|---|
| `ThreeWay` | `three_way`, `merge_map` | |
| `Repo` | the local repository, one action per command | `ThreeWay` |
| `PackStore` | the object store file by file, with overlapping processes | |
| `Remote` | clients and a server, one step per request | |
| `Bucket` | clients and a bucket, one step per request | implements `Published` |
| `Published` | what a reader of a bucket relies on: objects only grow, a branch moves in one step to a whole history | |
| `Cloud` | the S3 and Azure clients, one step per message | implements `BlobStore` |
| `BlobStore` | the promise of the `Bucket` trait, which `Bucket` is built on | |
| `Worktree` | the world directory, file by file: snapshot, checkout, stash, the region container | `ThreeWay` |
| `Bisect` | a bisect session and its search | |
| `Nbt` | NBT values, identities, paths, the operations between two trees and their effect | |
| `Patch` | diff, extract and apply of whole worlds | `Nbt` |
| `ChunkPos` | blocks, chunks, regions and slots: coordinates | |
| `Blocks` | packed sections, and the queries and the map that read them | `ChunkPos` |
| `RepoProofs`, `PackStoreProofs`, `RemoteProofs`, `BucketProofs`, `CloudProofs`, `WorktreeProofs`, `BisectProofs`, `BlocksProofs` | theorems | `Repo`, `PackStore` with `MCPackStore`, `Remote`, `Bucket`, `Cloud`, `Worktree`, `Bisect`, `Blocks` with `ChunkPos` |
| `MCRepo`, `MCRepoHistory`, `MCPackStore`, `MCRemote`, `MCBucket`, `MCCloud`, `MCWorktree`, `MCBisect`, `MCPatch`, `MCBlocks` | TLC instances | |

### Repo

Commands run one at a time, and each may be killed after any of its file-system writes:
the parameter `n` of an action is the number of writes that happened, and its largest
value is a command that ran to its end. A ref, HEAD and the stash are written with
`fs::write`, which truncates first, so a kill can leave them empty; `Written` has that
state, which reads back as "no such ref". Two things are one step here and are taken apart
in `PackStore`: writing one object, and gc.

Data: a manifest is a function from keys to leaves or `None`; a key stands for a loose
file or for one chunk slot. Objects are content-addressed, so leaves and manifests are
their own ids. A commit's id is its rank in creation order. The worktree is whatever the
game left there: an arbitrary manifest, a parameter of the commands that snapshot it.
`Revisions` is what `resolve_ref` can return: refs, reflog entries and raw parents are
returned without a look at the store. A bare id is one of a stored commit here; the code
returns the id of any stored object (`repo/repository.rs:623-629`), and a command given the
id of a manifest or of a leaf fails where it reads it as a commit, which `reset` and `tag` do
not do. Of several merge bases the code takes the one with
the least hash, which the model leaves open. Histories start empty or as a `--depth 1`
clone whose older commit is missing. Rebase is a loop of its own steps (`RebaseStart`,
`RebasePick`, `RebaseFinish`, `RebaseAbort`), each commit it makes being separate writes.

### PackStore

Where `Repo` has a set of objects, `PackStore` has loose files (absent, created but not
filled, whole), pack files as inodes with contents, the directory of packs and of indexes,
the one temporary path every writer shares, the chunk cache, and for each process the
packs it loaded when it opened the repository, its writer's own offset and index, and the
HEAD it read. A pack's name is the hash of its bytes, here the bytes. `commit -a` is 15
actions from `Open` to `WriteRef`, gc another ten, an incoming push five.
`KillMidWrite` says whether a process can also die between creating a file and filling it.
`Reads` takes packs first and requires every pack that claims the object to hold it, since
the directory's order is not defined. `is_clean` is fsck's verdict: every id that is
listed is read back (`Corrupt`), and the branch is walked (`Missing`).

`Spec` lets every process run what its role allows at any time. `CarefulSpec` is the same
with an assumption on whoever runs the commands (`Careful`): no two commits at once, and
nothing else while gc runs; pushes may arrive during a commit and during each other. The
code takes no lock to see to it, and without it the store loses commits (see the
violations below). The two uses that the run `packstore` chooses from are careful ones.

### Remote

Each client runs one command at a time; every request to the server is a step, because
the server handles requests one by one and keeps nothing between them. `PutObjects` sends
any batch of what is left and `GetLeaves` asks for any batch of what is missing, keeping
what arrives of it; a kill may come anywhere. gc on the server runs only when
`Undisturbed` holds. That is an assumption on whoever runs it, not something the code
sees to: with gc during a push, objects the server reported as present are gone when the
ref moves; and a shallow client cannot send what lies behind its boundary after a forced
push and a gc removed it from the server. Without the assumption TLC refutes
`ServerComplete`. `VerifyRemote` is what `verify_remote` would report, asked while nothing
else runs; run during a push and a gc, its requests may meet a tip that is gone. The
directory of a clone that failed or was killed is thrown away.

### Bucket

Every bucket request is a step and any may fail. A pack is its set of objects, the
manifest a set of packs with an ETag, `put_if_match` the comparison with the ETag read.
`MaxTries` is the 20 of `append_to_manifest`. A client's history is a set closed under
`Reach`. The conditional put is one step, as `BlobStore` promises it.

To a reader the bucket is `Published`: `stored` is what the listed packs hold, `tips` the
refs. That mapping is the whole refinement; putting a pack, a lost race, HEAD and every
read are stutters.

### Cloud

Between `put_if_match` and its answer lie a signed request, a service and a network.
`Cloud` has each message: a request may be lost, be performed after its sender gave up, or
be performed and its answer lost. The service (external) may use the content's hash or a
version as the ETag, or send none; `Condition` is the header the client makes of what it
got, and `Meaning` how it reads the status. The clients do what `append_to_manifest` does,
read and write back with an addition. The date a request is signed with is computed by
`civil_from_days`, against a reference calendar. The refinement to `BlobStore`
takes the requests still on the way, and not the client's knowledge, for the writes that
may take effect. Left out: `list`, unconditional `put`, and the signature itself. In what is
modelled the S3 and the Azure client differ only in where they find the status.

### Nbt and Patch

A value is a tag with its payload; a list has identities when every element has a key and
no two share it (`Keyed`). `node_ops` is the walk of the comparer with the operation sink:
compounds by key, lists by identity or index. Paths are sequences of steps as they are
*parsed*: the text of a path is not escaped, so a name with a dot in it has a spelling of
two steps. `SetLast` and `RemoveLast` do what `NbtPath` does at the last step, which is
nothing where it returns false. `written` is what writing a tree does to it: a list gets
the type of its first element, and an element of another type becomes a default. The
type-tagged JSON of a patch carries a value with its tag, which is the pair used here.

`Patch` adds the files: a region with chunks inline or spilled, a `.dat`, another file.
Apply copies the base over the output directory and then does the entries in order; it may
be killed in either, with a file cut short, and given again. `RoundTrip` says that a patch
applied to the world it was taken from does not fail, meets no conflict and gives the other
world. Its exceptions are those of `Handled`:

- *not* `Addressable`: a new element in a list with identities, and a name that is read back
  as something else. The operation is done elsewhere or nowhere, and no conflict is reported;
  the first is the finding of `patch_lost`.
- *not* `Comparable`: a list by index that loses more than one element, and a NaN that is
  compared. A conflict.
- A `.mcc` that changes, goes, or comes back where the region refers to it, while the region
  file changes too. The `.mcc` is an entry of its own and is applied first, since its name sorts
  first; the operations of the region then meet the new chunk and not the one they were
  extracted from. A conflict, where the change log (`CHANGELOG.md:35`) speaks of round trips: an
  oversized chunk that the game changed and saved is one, as the region's header has the time.
- A chunk that does not decode in a region that changes: extract or apply fails.
- *not* `SpillsAlike`: the game keeps inline what checkout and apply spill, or the reverse
  (another compression scheme than zlib, see `ZLibSpills`).

`CleanAfterKill` assumes only the first and the last of these away: whenever apply reports no
conflict, the other world is there, so the rest are conflicts or failures indeed.
`AgreedIsKept` is about third worlds without spilled or broken chunks. A `.mcc` that parse
refuses (see ChunkPos and Blocks) is left out here.

### ChunkPos and Blocks

The shifts and masks of the code are `\div` and `%`, which round down in TLA+ as `>>` and
`&` do. Sections are really packed: `Blocks` writes and reads words of `WordBits` bits
with no index across two of them, and a palette that grows repacks the section as the game
does (external). The truth is kept beside the files as a function from positions to blocks;
the properties compare what the tools say with it. A chunk may fail in two ways. One that
does not decode (`Broken`) is passed over, alone. One whose `.mcc` is not a bounded regular
file (`Refused`) makes `RegionFile::parse` an error (`Parses`): inspect fails in that region,
find anywhere in the dimension, where-changed if both worlds have the region file, and map
leaves the region out without a word, although the picture does not say it is cut. The
properties say so. The map is modelled to the block and the shade of each pixel, the limit on
chunks, the window and the cut. Where a chunk's pixels start is computed on an i32 (`Wrap`,
`Base`): for a region file whose name is far outside the world border the product wraps, and
its chunks land on another's pixels, or a debug build panics. `BorderAssumption` keeps
`MapRight` to the chunks within a quarter of the blocks an i32 counts, some 33 million to
each side; the border is at 1.9 million. Left out: dimensions, entities, players, sign texts,
colours, the PNG.

### Worktree

Where `Repo` has a manifest, `Worktree` has the files it was made from. A file's bytes say
what they are: a region (each slot inline or, over 255 sectors, in a `.mcc` file beside
it), a chunk payload under some compression scheme, an NBT file, anything else, or empty
after a torn write. `classify` gives a path its kind: a region with a chunk that does not
decode, and a `.dat` that does not parse, fall back to blobs, so one path may have two
kinds in one manifest after add, merge or cherry-pick. A directory is captured, and has an
entry in status, if nothing is in it (`EmptyDirs`); checkout makes those of the manifest and
those of the files it writes, and prune removes files only. So a finished checkout may leave
an untracked empty directory, and `clean`, which removes files, leaves it too; and an empty
directory in which the same manifest has a file, after a partial add or a merge, is shown as
missing. `FreshIsClean` says that status shows nothing else. A command that rewrites the world is
a list of steps (`CheckoutSteps`): spilled chunks, regions, NBT, blobs, directories, prune,
and where the command does it HEAD, the index and the stash file. A kill may come in any
step, with any of the step's files written and one of them empty; which order the code
takes within a step is left open. The game saves chunks and the player changes files
between commands. Three ghosts are read by the properties only: `fresh` (the commit
a command just wrote to the world), `saved` (what the game saw when a commit was
taken) and `shelved` (the stash a push or pop is about).

Left out: HEAD and objects are written whole (`Repo` and `PackStore` tear them), there is
one region and one `.dat`, a pathspec is the set of paths it selects, directories are not
nested, and no path is both a file and a directory. An NBT file or chunk is its root value, since the code re-encodes
it.

### Bisect

The marks are files and a command is a series of writes; `n` is again how many happened.
`compute` is the code's: the ancestors of the bad commit less those of the good ones, the
skipped left out as candidates, and the one that splits best. The user is honest: one
culprit, every commit with it in its history is broken, and no mark says otherwise. A
world is bound, so the commit to test is checked out (with none, HEAD does not move).
HEAD is one write here. A branch that is deleted during a session is not modelled.

## Runs

| Run | Checks | Bound, and why it is enough |
|---|---|---|
| `repo` | `TypeOK`, `StoreClosed`, `IndexBacked`, `TipsStayReadable` | five commands, three commits, one key, one leaf, one branch beside detached HEADs, a tag; every kill point of every command. Losing an object takes: make it, unname it, gc, name it again. |
| `repo_history` | `MergeUndoesNothing` | six whole commands, five commits, two leaves: divergence, reverts, true merges, criss-cross, rebases over merges. For an older base to undo a change takes: a change, its revert on one side, a second head and a merge. |
| `bucket` | `PublishedComplete`, `FetchFindsAll`, `HeadNamesRef`, `CommandsEnd`, `BucketTypeOK`, `ImplementsPublished` | two clients, two commands each, two tries, three commits with a shared root: both racers can lose, retry and give up |
| `packstore` | `FsckClean`, `PacksIntact`, `NoLostCommitAlone`, `StoreTypeOK` | a user alone with commit and gc, or a commit and pushes interleaved; two commits, three pack files (two with pushes); kills between any two file operations |
| `remote` | `ServerComplete`, `BranchComplete`, `FetchComplete`, `RemoteTypeOK` | two clients, three commits, all three kinds of clone |
| `bisect` | `BisectTypeOK`, `BlameIsSound`, `Halves` | histories of five commits, a line and a merge with a second root; every kill point; no bound on commands |
| `worktree` | `CheckoutGivesBack`, `FreshIsClean`, `WorkIsSomewhere`, `WorktreeTypeOK` | from two commits, four edits or commands, a third commit, one kill; a chunk that is small, oversized only when not compressed, or always oversized; corrupt region, `.mcc` and `.dat`; a directory with the `.dat` in it or nothing; a region staged with and without its `.mcc`. Enough to edit, stash, be killed and pop. |
| `patch` | `RoundTrip`, `CleanAfterKill`, `AgreedIsKept`, `DiffAndPatchAgree`, `PatchTypeOK` | every pair of some fifty `.dat` trees (lists with, without and with repeated identities, growing and shrinking), of some forty worlds without oversized chunks, and of sixteen with one beside none or another: spilled, changed, missing or broken; forward, reverse, forced, onto either world or a third; one kill |
| `blocks` | `InspectRight`, `ChangesExact`, `FindsSigns`, `MapRight`, `BlocksTypeOK` | sections of 4 x 4 x 4, words of 16 bits, indices of 2 bits that a fifth palette entry makes 3; two chunks in a region on the negative side, one north of the other, and one in a region across zero; each may be damaged in both ways; four edits; maps of two chunks at most |
| `cloud` | `AckedStays`, `RightlyDated`, `KeepsPromise`, `CloudTypeOK` | two clients, two writes each, three ETag schemes; the ends of months, years and centuries on which one write is enough (`OneWrite`) |
| `packstore_race`, `patch_lost` | one statement of a document each | violated; see below |

`packstore` leaves out kills inside one file write and overlapping commits and gc, because
the code does not survive them. `MaxFiles` caps the pack files at one time: two commits and
a gc have one each. `serving` of `MCPackStore` chooses between the two ways to use a repository,
and never changes. The runs of `Repo` stop at a number of commands (`MaxCommands`) and say
`CHECK_DEADLOCK FALSE` for that reason; so do `bucket`, `cloud`, `worktree` and `blocks`;
`patch` ends when its command does. `Remote`,
`PackStore` and `Bisect` run without such a bound. `MCNext` of `MCWorktree` is `Next` with
fewer files for the player to write. `RepoView` leaves the count of commands out of the
state: the search is breadth-first, so a state is met first with the fewest commands.
Symmetries: clients and worlds are interchangeable in `Remote`, leaves in `MCRepoHistory`
and `MCPackStore`.

Fairness: only `bucket` checks liveness. `FairSpec` asks weak fairness of each client's
own steps: a running command waits for nobody (a lost race is a step, not a block), so it
goes on as long as its process runs, and a process that stops running is `Fail`.

### What the violation runs show

- `packstore_race`: two overlapping commits, both successful, one lost; `SECURITY.md`
  speaks of a lock.
- `patch_lost`: a list with identities gains an element. Extract writes it as an operation
  at a path that ends in the new identity; `set` finds no such element and returns false,
  apply does not look and counts the operation as applied. The new mob or chest is not in
  the output, and no conflict is reported; the change log speaks of round trips.

In the modules and refuted by TLC the same way, not kept as runs:

- `NestedTipsStayReadable` (`Repo`, with a nested branch): `branches()` lists one directory
  level, so gc drops the commits of `feature/foo`, a name the ref checks explicitly allow.
- `WriteStores` (`PackStore`, with `KillMidWrite`): an object file created but not filled is
  taken for the object by every later write.
- `CheckoutGivesBack` (`Worktree`, with `SpillForms` of `MCWorktree`, another scheme than
  zlib, for `GameForms`): checkout writes an oversized chunk to its `.mcc` as zlib and the
  region with it, and then the raw `.mcc` of the manifest over it as a blob, so the chunk no
  longer decodes. And a chunk that is inline as the game compressed it and oversized as
  checkout does would lose its `.mcc` to prune, whose list of files to keep is the
  manifest's. `ZLibSpills` says that the game does neither; `GameFormsOf` satisfies it.
- `FsckClean` (`PackStore`, with gc and a commit as roles of two processes): gc deletes
  objects before the branch names them.

Of the same kind, in the model and without a property: the stash and the reflogs are no
roots of gc; `HEAD~1` steps over the shallow boundary; pull moves a branch that has local
commits; the shared `incoming.pack.tmp` lets one writer change a pack another installed; a
killed shallow clone has a branch and no boundary; an index can become a copy of HEAD;
rebase walks first
parents until it meets the merge base, which can lie behind a merge's second parent, and
then replays from the root; both transports always ask for force, so the server's
fast-forward guard is never used; `add` leaves the entry a path had under another kind;
prune removes untracked files and `session.lock`; a kill while the stash file is rewritten
loses the older stashes; a region staged without its `.mcc` loses the spilled chunk at the
next checkout (hence `SpillsListed` in `FreshIsClean`); a region staged as a blob, because
its `.mcc` was broken, together with a `.mcc` that is not, is a region again after checkout,
and status shows it changed (hence `~IsRegion` there; it is enough to stage the region
alone while the `.mcc` beside it is damaged); a map lacks every chunk of a region file that
has one refused `.mcc`, and does not say it is cut.

## Theorems

TLAPS proves, for every value of the constants that satisfies the `ASSUME`s:

- `RepoProofs`: `InvHolds`, and from it `TypeCorrect`, `StoreStaysClosed` and
  `IndexStaysBacked`; `RefsStayReadable` and `MergesUndoNothing` for the action properties
  `TipsStayReadable` and `MergeUndoesNothing`.
  `Inv` is the conjunction of the type invariant, a closed store and a backed index. None
  is inductive alone: commit builds on HEAD's manifest and on the index, so a closed store
  needs the index's leaves, and what gc keeps is closed only because the store was. The
  argument for gc is `WalkLemma`: the least closed set that holds the roots holds the
  parents of every stored commit in it. `RefsStayReadable` needs two facts more
  (`TipInv`): an annotated tag's object is stored, so gc's roots include the tag's commit,
  and the commit a rebase stands on was a revision. `MergesUndoNothing` compares a merge with
  what each side's own work started from: the shared commits that are parents of commits the
  other side lacks (`Grounds`). A merge base is one of them (`BaseIsGround`): otherwise the
  side's walk without the base would be closed under parents still, since a shared commit
  above the base would dominate it. A clean combine then keeps what either side has otherwise
  than the base (`CombineKeeps`). Assumed: `None` is none of the other
  values, `Main` is a branch, `MaxCommits` is a number.
- `BucketProofs`: `BucketInvHolds`, `BucketTyped`, `PublishedStaysComplete`,
  `FetchesFindAll`, `HeadStaysNamed` and `BucketImplementsPublished`.
  `PublishedComplete` is not inductive: the strengthening says what a push knows at each
  point (`Sent`: all of its history is listed, in its current pack, or still to send) and
  what an ETag is worth (`Fresh`: while the manifest has the ETag that
  was read, it is the manifest that was read), from which a successful compare-and-swap
  loses no entry. The refinement follows from the same invariant: a successful append
  keeps every listed pack (`CasManifestStores`), a successful swap of a ref finds its
  history listed (`CasRefPublishes`), and no other step touches what a reader sees
  (`ReadersSame`). Assumed: `Reach` is transitive and reflexive on commits, `MaxTries` is a
  number, `None` is no other value.

- `BisectProofs`: `BisectTypeCorrect`, `BlameStaysSound` and `SearchHalves`. `BisectInv` is the type
  invariant, `BlameIsSound` and `HonestMarks`: the marks on disk agree with the culprit,
  also after a kill between two of them, which is what makes the culprit a suspect and
  the only one left the culprit. `SearchHalves` is about lines of any length:
  `ancestors_incl` is the least set closed under parents (`AncestorsLemma`), which on a line
  is every commit up to one (`LineLemma`); of an ordered finite set one element splits it in
  the middle (`MiddleLemma`), and no candidate scores better (`SplitLemma`); and the commit
  under test is the best candidate of the marks as they are (`TestIsCurrent`). Assumed: there
  is a commit, and the marks' values differ.

- `BlocksProofs`: every property of `Blocks`, for all sizes of sections, regions and words,
  all widths of indices, all palettes and all signed coordinates inside the border (the run
  `blocks` sees a few of each): `BlocksType`, `InspectIsRight`, `ChangesAreExact`, `FindFindsSigns` and
  `MapIsRight`. `ChunkRoundTrip`, `SlotRoundTrip` and `BlockRoundTrip` say that the
  conversions between blocks, chunks, regions, slots and indices within a section are
  inverses, so no two chunks share a slot; they rest on `DivMod` and on the uniqueness of
  quotient and remainder (`DivUnique`). Packing: a word is a recursive sum, and shifting and
  masking it gives every entry back (`WordLemma`, `PackLemma`), the reader's number of bits
  being the game's (`BitsLemma`), so a palette with its data reads as what was written
  (`PalettedLemma`, `SectionOfLemma`). The invariant is `BlocksInv` (`WorldsHold`): for both
  worlds, a chunk that can be read has the sections in which there is something, each section
  reads as what is there, in blocks and biomes, and the block entities are the signs; where
  a chunk is absent, broken or refused there is nothing (`WorldOK`, `ChunkOK`). None of the
  properties is inductive alone: what a placed block leaves of the other blocks of a
  section is known only because the whole section read right and its palette held all of
  them. `MapIsRight` follows from the invariant by `SurfaceIs` (a chunk's part of the
  highest blocks), `ShadeIs`, `WindowFits`, `LookedIs`, and `NoOverflow`, by which inside the
  border every block is painted at its own place (`PaintedIs`). Assumed of constants: sizes are positive and
  a biome cell divides a section; an index of every palette fits in a word; palettes have no
  entry twice, and a section is generated without signs; the biome is the same in a cell;
  `None`, `Broken` and `Refused` differ and are no other values; chunks lie inside the border
  (`BorderAssumption`).

- `CloudProofs`: `CloudTyped`, `AckedStaysTheorem` and `KeepsPromiseTheorem`, the
  refinement of `BlobStore`. `CloudInv` adds to the types what an ETag is worth
  (`RightRead`: as long as the service would accept it, the blob has the content that was
  read with it), that every write on its way was made from such a read (`MadeFrom`), that a
  write has one place (`OneWriteEach`: on its way or performed, not both) and what an answer
  says of its write (`Tells`). Without the second a late request could be accepted and drop
  what was added since. `WeekdayTheorem`, `CalendarTheorem` and `RightlyDatedTheorem`: the
  date of every day since 1970. One day is shown to follow the other through the eras, years
  and months of `civil_from_days`, and the least day that is wrong is then none. Assumed:
  `MaxCalls` is a number, days are not negative, `None` is no other value.

- `RemoteProofs`: `RemoteTyped`, `ServerCompleteTheorem`, `BranchCompleteTheorem` and
  `FetchCompleteTheorem`. `RemoteInv` says that the server is never shallow and its branch
  complete, and of each client what its command has (`Holding`): what a push does not list
  any more is on the server (`Pushing`), a fetch that is done has what it met (`Arrived`), a
  clone has neither branch nor boundary before the end (`Cloning`), and the server still has
  what lies behind a shallow clone's boundary (`Backed`), since such a client cannot send it.
  `Backed` is why gc on the server needs `Undisturbed`. Assumed: the server is no client,
  the depth of a shallow clone is positive.

- `PackStoreProofs`, in four layers. `StoreTyped`: the types, of `Spec`, with any processes
  at once and kills anywhere. `PacksIntactTheorem`, of `CarefulSpec` and also with kills
  inside a write: no process has an installed pack open (`Installed`, `PackHolds`).
  `FsckCleanTheorem`, of `CarefulSpec` without kills inside a write: `SoundInv` says that the
  branch's objects are there (`Whole`), that what is there can be read or is about to be
  (`Indexed`, `Filled`), and for every step of a commit, a push and a gc what it has stored
  so far or keeps (`CommitHolds`, `ReceiveHolds`, `GcHolds`). `NoLostCommitTheorem`, with no
  pushes besides, since a push may replace the branch: what was reported as done is in the
  history of the branch and of every commit about to replace its tip (`LastingInv`).
  `NoLostCommitAloneTheorem` says the same of the user of the run, who is careful without
  being asked as long as the server takes no push (`AloneInv`). Each assumption is needed:
  TLC refutes `NoLostCommit` for two commits at once (the run `packstore_race`), `FsckClean`
  for a gc beside a commit and for a kill inside a write. Assumed of constants: finitely
  many leaves, roles are commands, `None` is no other value.

- `WorktreeProofs`: `WorktreeTyped`, `FreshIsCleanTheorem`, and under `ZLibSpills`
  `CheckoutGivesBackTheorem` and `WorkIsSomewhereTheorem`. `Result(m)` is the world a whole
  checkout of `m` leaves, whatever was there. Two facts about operators carry the proof:
  a snapshot of `Result(m)` has the files of `m`, and its empty directories but for those in
  which `m` has a file (`CleanAfter`), and `Result` of a snapshot shows the game what it saw
  (`GivesBack`). The invariants connect them with the
  steps. `Progress`: as far as the steps of a checkout are done the world agrees with
  `Result` (`Laid`), which holds because what falls back to a blob is written before the
  blobs, and prune comes last (`Ordered`). `DirsProgress`: once that step is done the
  manifest's empty directories are there. `GivenBack`: a commit taken from a world gives it
  back. `Shelving`: a push still has the work in the world until the stash is recorded
  (`StackFirst`), a pop has all of it in the world before it touches the stash
  (`StackLast`), so a kill in any step finds it in one of the two. Types need a
  strengthening too (`Typed`): no file that is never captured gets into a manifest, no NBT
  file is there as a blob, and no chunk that checkout spills is inline (`Sane`). Assumed of
  constants: the kinds of paths are disjoint, directories among them, and each directory has
  some paths inside; what checkout spills are chunks, `None` and `External` are no other values.

`RemoteProofs` and `PackStoreProofs` reason about walks along parents, which the models
define as recursive functions on the numbers of commits. `WalkLemma` and `LineageLemma` show
for every history that such a walk gives the least set that is closed under the parents it
follows: that set solves the recursive equation, so the equation has a solution, and a least
number where a solution differed from it would contradict that parents are older.
`HistoryKept` and `AppendLemma` then say that a new commit leaves the other histories alone.

Only model-checked:

- `RoundTrip`, `CleanAfterKill`, `AgreedIsKept`, `DiffAndPatchAgree` and `PatchTypeOK`:
  `Patch` and `Nbt` use RECURSIVE operators on trees, which tlapm does not take together
  with its SMT backend, and what they compute for every tree would need induction over
  trees.
- `CommandsEnd`: liveness and `ENABLED` are out of TLAPS's reach.

## Not modelled

- The wire pack and message framing: byte formats. A pack is the set of objects that
  `parse` returns after it verified every hash. That a fetch asks for 256 leaves at once
  while the server caps a pack at 512 MiB is outside the model, and so is the 10 MiB limit
  of the HTTP library, which `get_pack` and `missing` raise and `get_object`, by which
  manifests are fetched, does not.
- Signatures and authentication: cryptography and credentials. Hooks: user programs; a
  failing pre-commit hook or signature ends a command before its first write.
- `list` of the cloud clients, which reads the first page of an answer only; the modelled
  protocol finds packs through the manifest. The Azure client tells a refused condition by
  the text of an error; the model takes the status for what it is.
- Region sectors, compressions, the binary, JSON and SNBT syntax of NBT: formats whose
  libraries do the work, or byte layouts that tests reach as well as a model would.
- Entities, points of interest, players, sign texts, colours and PNG output of the
  queries: read-only reports. Config files, glob matching of pathspecs, `verify`.
