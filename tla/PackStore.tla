----------------------------- MODULE PackStore -----------------------------
(***************************************************************************)
(* The object store of one repository on disk, file by file                *)
(* (object_store.rs, pack.rs), with the processes that use it at the same  *)
(* time: `commit -a` (snapshot.rs, main.rs), `gc` (gc.rs) and a push that  *)
(* arrives through a server or from another directory (serve.rs,           *)
(* transfer.rs).  Where Repo.tla has a set of stored objects, this module  *)
(* has loose files, pack files, their indexes, and what each process       *)
(* loaded of them when it opened the repository.                           *)
(*                                                                         *)
(* A file write is two steps, as in the code: the file is created empty or *)
(* truncated, then filled.  A process can be killed between any two steps; *)
(* KillMidWrite says whether also between those two.                       *)
(*                                                                         *)
(* Data.  A world is one leaf, a manifest is named by its leaf, a commit   *)
(* has at most one parent and every object takes one unit of a pack.  The  *)
(* name of a pack is the hash of its bytes: here, the bytes.  The branch   *)
(* is the only root of gc (Repo.tla has the others).                       *)
(***************************************************************************)
EXTENDS Integers, FiniteSets, FiniteSetsExt, Sequences, SequencesExt, Functions

CONSTANTS
  Procs,
  Roles,          \* the commands each process may run
  Leaves,
  MaxCommits,
  MaxFiles,       \* bound on the pack files that exist at one time
  KillMidWrite,
  None

ASSUME RolesAssumption ==
  Roles \in [Procs -> SUBSET {"commit", "gc", "receive"}]
ASSUME StoreBoundAssumption ==
  /\ MaxCommits \in Nat /\ MaxFiles \in Nat
  /\ KillMidWrite \in BOOLEAN
  /\ IsFiniteSet(Leaves) /\ None \notin Leaves

Leaf(l)   == <<"leaf", l>>
Tree(l)   == <<"tree", l>>
Commit(n) == <<"commit", n>>
Objects   == {Leaf(l) : l \in Leaves} \cup {Tree(l) : l \in Leaves}
               \cup {Commit(n) : n \in 1 .. MaxCommits}

Files == 1 .. MaxFiles
Hole  == <<"hole", 0>>       \* bytes nobody wrote

\* An index: the place of each object in a pack, 0 when it has none.
Indexes   == [Objects -> Nat]
NoEntries == [o \in Objects |-> 0]

ASSUME NoIndexAssumption == None \notin Indexes

VARIABLES
  loose,      \* objects/aa/rest: "absent", "torn" (created, not filled), "whole"
  file,       \* the contents of the pack files, by inode
  tmp,        \* pack/incoming.pack.tmp: its inode, 0 when absent
  packDir,    \* pack/pack-<id>.pack: the inode under each name
  idxDir,     \* pack/pack-<id>.idx: the index under each name, None if torn
  cache,      \* chunkcache.json: the leaves whose object id it knows
  tip,        \* refs/heads/main: a commit, 0 when absent or empty
  commits,    \* the commits made: parent (0 for none) and leaf of each
  done,       \* ghost: the commits whose command reported success
  proc        \* the processes

packVars == <<file, tmp, packDir, idxDir>>
vars == <<loose, packVars, cache, tip, commits, done, proc>>

Idle ==
  [pc     |-> "idle",
   view   |-> {},      \* the packs loaded: inode and index of each
   leaf   |-> None,    \* the world being committed
   file   |-> 0,       \* PackWriter: its inode, index and offset,
   index  |-> NoEntries,
   offset |-> 0,
   name   |-> None,    \*   and the name of the finished pack
   known  |-> {},      \* the cache as loaded and added to
   dirty  |-> FALSE,
   head   |-> 0,       \* the HEAD read
   new    |-> 0,       \* the commit written or received
   todo   |-> {},      \* gc: objects to keep or drop; receive: to write,
   half   |-> {},      \*   and the one whose file has been created
   old    |-> {},      \* gc: the packs that were there and are not yet removed,
   gone   |-> None]    \*   and the one whose index is to go next

\* A directory once n is an entry of it.
Entered(d, n, x) == [m \in DOMAIN d \cup {n} |-> IF m = n THEN x ELSE d[m]]

Goto(p, l) == proc' = [proc EXCEPT ![p].pc = l]
Exit(p)    == proc' = [proc EXCEPT ![p] = Idle]

Init ==
  /\ loose = [o \in Objects |-> "absent"]
  /\ file = [f \in Files |-> <<>>]
  /\ tmp = 0 /\ packDir = <<>> /\ idxDir = <<>>
  /\ cache = {} /\ tip = 0 /\ commits = <<>> /\ done = {}
  /\ proc = [p \in Procs |-> Idle]

-----------------------------------------------------------------------------
(* Reading.                                                                *)

\* load_packs: every index that parses and whose pack opens.
LoadPacks ==
  {[file |-> packDir[n], index |-> idxDir[n]] :
     n \in {m \in DOMAIN packDir \cap DOMAIN idxDir : idxDir[m] # None}}

Hits(v, o) == {k \in v : k.index[o] # 0}

\* Packfile::read: the slice the index names still holds the object.
Intact(k, o) ==
  /\ k.index[o] <= Len(file[k.file])
  /\ file[k.file][k.index[o]] = o

\* exists: in the index of a loaded pack, or a loose file.
Exists(v, o) == Hits(v, o) # {} \/ loose[o] # "absent"

\* read: the packs first, in whatever order the directory listed them.
Reads(v, o) ==
  IF Hits(v, o) # {} THEN \A k \in Hits(v, o) : Intact(k, o)
                     ELSE loose[o] = "whole"

\* The commits met from each commit back, going on from those in on.
Lineage(on) ==
  LET from[n \in 0 .. MaxCommits] ==
        IF n \notin DOMAIN commits THEN {}
        ELSE {n} \cup IF n \in on THEN from[commits[n].parent] ELSE {}
  IN from

\* Back to the root, and as far as the commits can be read.
History   == Lineage(DOMAIN commits)
Walked(v) == Lineage({n \in DOMAIN commits : Reads(v, Commit(n))})[tip]

TreeOf(n) == Tree(commits[n].leaf)
LeafOf(n) == Leaf(commits[n].leaf)
ObjectsOf(n) == {Commit(n), TreeOf(n), LeafOf(n)}

\* The objects the gc walk keeps: it goes no further where it cannot read.
Reachable(v) ==
  LET got   == {n \in Walked(v) : Reads(v, Commit(n))}
      trees == {n \in got : Reads(v, TreeOf(n))}
  IN {Commit(n) : n \in {m \in Walked(v) : Exists(v, Commit(m))}}
       \cup {TreeOf(n) : n \in got} \cup {LeafOf(n) : n \in trees}

\* fsck: what cannot be read of all that is listed, and what the walk from the
\* branch misses.
Corrupt(v) == {o \in Objects : Exists(v, o) /\ ~Reads(v, o)}

Missing(v) ==
  LET got   == {n \in Walked(v) : Reads(v, Commit(n))}
      trees == {n \in got : Reads(v, TreeOf(n))}
  IN {Commit(n) : n \in Walked(v) \ got} \cup {TreeOf(n) : n \in got \ trees}
       \cup {LeafOf(n) : n \in {m \in trees : ~Exists(v, LeafOf(m))}}

is_clean(v) == Corrupt(v) = {} /\ Missing(v) = {}

-----------------------------------------------------------------------------
(* PackWriter.                                                             *)

FreeFiles ==
  Files \ ({tmp} \cup Range(packDir)
    \cup UNION {{k.file : k \in proc[p].view} \cup {proc[p].file} : p \in Procs})

\* new: File::create of incoming.pack.tmp.  A file already there is
\* truncated, under whoever has it open, and reused.
NewWriter(p, l) ==
  \E f \in Files :
    /\ IF tmp # 0 THEN f = tmp ELSE FreeFiles # {} /\ f = Min(FreeFiles)
    /\ tmp' = f
    /\ file' = [file EXCEPT ![f] = <<>>]
    /\ proc' = [proc EXCEPT ![p].pc = l, ![p].file = f]
    /\ UNCHANGED <<packDir, idxDir>>

\* A write of s at offset `at` of a file.
Overlay(bytes, at, s) ==
  [i \in 1 .. (IF at + Len(s) > Len(bytes) THEN at + Len(s) ELSE Len(bytes)) |->
     IF i \in at + 1 .. at + Len(s) THEN s[i - at]
     ELSE IF i \in DOMAIN bytes THEN bytes[i] ELSE Hole]

\* push_packed of the objects of s: each goes to this writer's own offset.
PushPacked(w, s) ==
  [w EXCEPT !.index  = [o \in Objects |->
                          IF o \in ToSet(s)
                          THEN w.offset + (CHOOSE i \in DOMAIN s : s[i] = o)
                          ELSE w.index[o]],
            !.offset = w.offset + Len(s)]

\* finish: read the bytes at the tmp path for the pack's name.
FinishHash(p) ==
  /\ proc[p].pc = "hash"
  /\ IF tmp = 0 THEN Exit(p)
     ELSE proc' = [proc EXCEPT ![p].pc = "rename", ![p].name = file[tmp]]
  /\ UNCHANGED <<loose, packVars, cache, tip, commits, done>>

\* Mutant: the pack is linked under its name and the tmp path stays.
RenameLinked(p) ==
  /\ proc[p].pc = "rename"
  /\ packDir' = Entered(packDir, proc[p].name, tmp)
  /\ Goto(p, "idx")
  /\ UNCHANGED <<loose, file, tmp, idxDir, cache, tip, commits, done>>

\* finish: rename the tmp path.
Rename(p) ==
  /\ proc[p].pc = "rename"
  /\ IF tmp = 0 THEN Exit(p) /\ UNCHANGED <<tmp, packDir>>
     ELSE /\ packDir' = Entered(packDir, proc[p].name, tmp)
          /\ tmp' = 0
          /\ Goto(p, "idx")
  /\ UNCHANGED <<loose, file, idxDir, cache, tip, commits, done>>

\* finish: create or truncate the index, then write it.
CreateIdx(p) ==
  /\ proc[p].pc = "idx"
  /\ idxDir' = Entered(idxDir, proc[p].name, None)
  /\ Goto(p, "fillIdx")
  /\ UNCHANGED <<loose, file, tmp, packDir, cache, tip, commits, done>>

FillIdx(p) ==
  /\ proc[p].pc = "fillIdx"
  /\ idxDir' = IF proc[p].name \in DOMAIN idxDir
               THEN [idxDir EXCEPT ![proc[p].name] = proc[p].index]
               ELSE idxDir
  /\ Goto(p, IF proc[p].leaf = None THEN "drop" ELSE "save")
  /\ UNCHANGED <<loose, file, tmp, packDir, cache, tip, commits, done>>

-----------------------------------------------------------------------------
(* Loose objects: create_new, then write_all.  A file that is there is     *)
(* taken for the object.                                                   *)

CreateLoose(p, o, fill, next) ==
  /\ loose' = [loose EXCEPT ![o] = IF @ = "absent" THEN "torn" ELSE @]
  /\ Goto(p, IF loose[o] = "absent" THEN fill ELSE next)

\* A file unlinked meanwhile is filled in vain.
FillLoose(o) == loose' = [loose EXCEPT ![o] = IF @ = "torn" THEN "whole" ELSE @]

-----------------------------------------------------------------------------
(* commit -a                                                               *)

Open(p, command, l) ==
  /\ proc[p].pc = "idle"
  /\ command \in Roles[p]
  /\ proc' = [proc EXCEPT ![p] =
                [Idle EXCEPT !.pc = command, !.view = LoadPacks, !.leaf = l]]
  /\ UNCHANGED <<loose, packVars, cache, tip, commits, done>>

\* snapshot_inner: start a pack, load the chunk cache.
Snapshot(p) ==
  /\ proc[p].pc = "commit"
  /\ NewWriter(p, "load")
  /\ UNCHANGED <<loose, cache, tip, commits, done>>

LoadCache(p) ==
  /\ proc[p].pc = "load"
  /\ proc' = [proc EXCEPT ![p].pc = "put", ![p].known = cache]
  /\ UNCHANGED <<loose, packVars, cache, tip, commits, done>>

\* Mutant: a cache hit is trusted without looking for the object.
PutTrustsCache(p) ==
  LET l == proc[p].leaf IN
  /\ proc[p].pc = "put"
  /\ IF l \in proc[p].known \/ Exists(proc[p].view, Leaf(l))
     THEN /\ proc' = [proc EXCEPT ![p].pc = "save", ![p].known = @ \cup {l}]
          /\ UNCHANGED file
     ELSE /\ file' = [file EXCEPT ![proc[p].file] =
                        Overlay(@, proc[p].offset, <<Leaf(l)>>)]
          /\ proc' = [proc EXCEPT ![p] =
                        [PushPacked(proc[p], <<Leaf(l)>>) EXCEPT !.pc = "hash",
                           !.known = proc[p].known \cup {l}, !.dirty = TRUE]]
  /\ UNCHANGED <<loose, tmp, packDir, idxDir, cache, tip, commits, done>>

\* try_chunks and put: the leaf is written unless the store has it; a cache
\* hit only counts if the store has it.
Put(p) ==
  LET l == proc[p].leaf IN
  /\ proc[p].pc = "put"
  /\ IF Exists(proc[p].view, Leaf(l))
     THEN /\ proc' = [proc EXCEPT ![p].pc = "save", ![p].known = @ \cup {l},
                                 ![p].dirty = l \notin proc[p].known]
          /\ UNCHANGED file
     ELSE /\ file' = [file EXCEPT ![proc[p].file] =
                        Overlay(@, proc[p].offset, <<Leaf(l)>>)]
          /\ proc' = [proc EXCEPT ![p] =
                        [PushPacked(proc[p], <<Leaf(l)>>) EXCEPT !.pc = "hash",
                           !.known = proc[p].known \cup {l}, !.dirty = TRUE]]
  /\ UNCHANGED <<loose, tmp, packDir, idxDir, cache, tip, commits, done>>

\* The new pack is loaded, and the cache is saved (tmp file and rename).
Save(p) ==
  /\ proc[p].pc = "save"
  /\ cache' = IF proc[p].dirty THEN proc[p].known ELSE cache
  /\ proc' = [proc EXCEPT ![p].pc = "tree",
                          ![p].view = IF proc[p].name = None THEN @ ELSE LoadPacks]
  /\ UNCHANGED <<loose, packVars, tip, commits, done>>

WriteManifest(p) ==
  /\ proc[p].pc = "tree"
  /\ CreateLoose(p, Tree(proc[p].leaf), "fillTree", "head")
  /\ UNCHANGED <<packVars, cache, tip, commits, done>>

FillManifest(p) ==
  /\ proc[p].pc = "fillTree"
  /\ FillLoose(Tree(proc[p].leaf))
  /\ Goto(p, "head")
  /\ UNCHANGED <<packVars, cache, tip, commits, done>>

\* Mutant: the commit is made without its parent.
ReadHeadOrphan(p) ==
  /\ proc[p].pc = "head"
  /\ IF tip # 0 /\ commits[tip].leaf = proc[p].leaf THEN Exit(p) ELSE Goto(p, "write")
  /\ UNCHANGED <<loose, packVars, cache, tip, commits, done>>

\* head_commit: the parent; an error if it cannot be read, and nothing to
\* commit if it has the same manifest.
ReadHead(p) ==
  /\ proc[p].pc = "head"
  /\ IF tip # 0 /\ (~Reads(proc[p].view, Commit(tip))
                      \/ commits[tip].leaf = proc[p].leaf)
     THEN Exit(p)
     ELSE proc' = [proc EXCEPT ![p].pc = "write", ![p].head = tip]
  /\ UNCHANGED <<loose, packVars, cache, tip, commits, done>>

WriteCommit(p) ==
  /\ proc[p].pc = "write"
  /\ Len(commits) < MaxCommits
  /\ LET n == Len(commits) + 1 IN
       /\ commits' = Append(commits, [parent |-> proc[p].head, leaf |-> proc[p].leaf])
       /\ loose' = [loose EXCEPT ![Commit(n)] = "torn"]
       /\ proc' = [proc EXCEPT ![p].pc = "fillCommit", ![p].new = n]
  /\ UNCHANGED <<packVars, cache, tip, done>>

FillCommit(p) ==
  /\ proc[p].pc = "fillCommit"
  /\ FillLoose(Commit(proc[p].new))
  /\ Goto(p, "ref")
  /\ UNCHANGED <<packVars, cache, tip, commits, done>>

\* write_branch: truncate the ref, then write it.
TruncateRef(p) ==
  /\ proc[p].pc = "ref"
  /\ tip' = 0
  /\ Goto(p, "setRef")
  /\ UNCHANGED <<loose, packVars, cache, commits, done>>

\* Mutant: the ref is written with the wrong id.
WriteRefNext(p) ==
  /\ proc[p].pc = "setRef"
  /\ tip' = proc[p].new + 1
  /\ done' = done \cup {proc[p].new}
  /\ Exit(p)
  /\ UNCHANGED <<loose, packVars, cache, commits>>

WriteRef(p) ==
  /\ proc[p].pc = "setRef"
  /\ tip' = proc[p].new
  /\ done' = done \cup {proc[p].new}
  /\ Exit(p)
  /\ UNCHANGED <<loose, packVars, cache, commits>>

-----------------------------------------------------------------------------
(* gc                                                                      *)

Walk(p) ==
  /\ proc[p].pc = "gc"
  /\ proc' = [proc EXCEPT ![p].pc = "list", ![p].todo = Reachable(proc[p].view)]
  /\ UNCHANGED <<loose, packVars, cache, tip, commits, done>>

ListPacks(p) ==
  /\ proc[p].pc = "list"
  /\ proc' = [proc EXCEPT ![p].pc = "pack", ![p].old = DOMAIN packDir]
  /\ UNCHANGED <<loose, packVars, cache, tip, commits, done>>

NewPack(p) ==
  /\ proc[p].pc = "pack"
  /\ NewWriter(p, "copy")
  /\ UNCHANGED <<loose, cache, tip, commits, done>>

\* What can be read goes into the new pack; no pack is made of nothing.
Copy(p) ==
  LET s == SetToSeq({o \in proc[p].todo : Reads(proc[p].view, o)}) IN
  /\ proc[p].pc = "copy"
  /\ file' = [file EXCEPT ![proc[p].file] = Overlay(@, proc[p].offset, s)]
  /\ proc' = [proc EXCEPT ![p] =
                [PushPacked(proc[p], s) EXCEPT !.pc = IF s = <<>> THEN "drop" ELSE "hash"]]
  /\ UNCHANGED <<loose, tmp, packDir, idxDir, cache, tip, commits, done>>

\* An old pack is removed and then its index, unless it is the new one again.
DropPack(p) ==
  /\ proc[p].pc = "drop"
  /\ \E n \in proc[p].old \ {proc[p].name} :
       /\ packDir' = Restrict(packDir, DOMAIN packDir \ {n})
       /\ proc' = [proc EXCEPT ![p].pc = "dropIdx", ![p].old = @ \ {n}, ![p].gone = n]
  /\ UNCHANGED <<loose, file, tmp, idxDir, cache, tip, commits, done>>

DropIdx(p) ==
  /\ proc[p].pc = "dropIdx"
  /\ idxDir' = Restrict(idxDir, DOMAIN idxDir \ {proc[p].gone})
  /\ proc' = [proc EXCEPT ![p].pc = "drop", ![p].gone = None]
  /\ UNCHANGED <<loose, file, tmp, packDir, cache, tip, commits, done>>

PacksDropped(p) ==
  /\ proc[p].pc = "drop"
  /\ proc[p].old \subseteq {proc[p].name}
  /\ proc' = [proc EXCEPT ![p].pc = "loose",
                          ![p].todo = {o \in Objects : loose[o] # "absent"}]
  /\ UNCHANGED <<loose, packVars, cache, tip, commits, done>>

\* delete_loose: every loose file that was there, and any that appears in a
\* directory not listed yet.
DropLoose(p) ==
  /\ proc[p].pc = "loose"
  /\ \E o \in {x \in Objects : loose[x] # "absent"} :
       loose' = [loose EXCEPT ![o] = "absent"]
  /\ UNCHANGED <<packVars, cache, tip, commits, done, proc>>

GcDone(p) ==
  /\ proc[p].pc = "loose"
  /\ \A o \in proc[p].todo : loose[o] = "absent"
  /\ Exit(p)
  /\ UNCHANGED <<loose, packVars, cache, tip, commits, done>>

-----------------------------------------------------------------------------
(* receive: a push from a client that has the tip, or an unrelated         *)
(* history.  The repository is opened anew for every request.              *)

Receive(p, l, parent) ==
  /\ proc[p].pc = "receive"
  /\ Len(commits) < MaxCommits
  /\ commits' = Append(commits, [parent |-> parent, leaf |-> l])
  /\ proc' = [proc EXCEPT ![p].pc = "have", ![p].new = Len(commits) + 1]
  /\ UNCHANGED <<loose, packVars, cache, tip, done>>

\* op_have: the client sends what a fresh look at the store does not find.
Have(p) ==
  /\ proc[p].pc = "have"
  /\ proc' = [proc EXCEPT ![p].pc = "recv",
       ![p].todo = {o \in UNION {ObjectsOf(n) : n \in History[proc[p].new]} :
                      ~Exists(LoadPacks, o)}]
  /\ UNCHANGED <<loose, packVars, cache, tip, commits, done>>

\* op_put_pack: one object after the other, as a loose file.
PutObject(p) ==
  /\ proc[p].pc = "recv"
  /\ \E o \in proc[p].todo :
       IF loose[o] = "absent"
       THEN /\ loose' = [loose EXCEPT ![o] = "torn"]
            /\ proc' = [proc EXCEPT ![p].pc = "fillRecv", ![p].half = {o}]
       ELSE /\ UNCHANGED loose
            /\ proc' = [proc EXCEPT ![p].todo = @ \ {o}]
  /\ UNCHANGED <<packVars, cache, tip, commits, done>>

FillObject(p) ==
  /\ proc[p].pc = "fillRecv"
  /\ \E o \in proc[p].half :
       /\ FillLoose(o)
       /\ proc' = [proc EXCEPT ![p].pc = "recv", ![p].todo = @ \ {o}, ![p].half = {}]
  /\ UNCHANGED <<packVars, cache, tip, commits, done>>

\* op_set_ref: the ref moves if the commit object itself is there.
SetRef(p) ==
  /\ proc[p].pc = "recv"
  /\ proc[p].todo = {}
  /\ IF Exists(LoadPacks, Commit(proc[p].new)) THEN Goto(p, "ref") ELSE Exit(p)
  /\ UNCHANGED <<loose, packVars, cache, tip, commits, done>>

-----------------------------------------------------------------------------
MidWrite == {"fillIdx", "fillTree", "fillCommit", "fillRecv", "setRef"}

Kill(p) ==
  /\ proc[p].pc # "idle"
  /\ proc[p].pc \in MidWrite => KillMidWrite
  /\ Exit(p)
  /\ UNCHANGED <<loose, packVars, cache, tip, commits, done>>

Step(p) ==
  \/ Snapshot(p) \/ LoadCache(p) \/ Put(p) \/ Save(p)
  \/ FinishHash(p) \/ Rename(p) \/ CreateIdx(p) \/ FillIdx(p)
  \/ WriteManifest(p) \/ FillManifest(p) \/ ReadHead(p)
  \/ WriteCommit(p) \/ FillCommit(p) \/ TruncateRef(p) \/ WriteRef(p)
  \/ Walk(p) \/ ListPacks(p) \/ NewPack(p) \/ Copy(p)
  \/ DropPack(p) \/ DropIdx(p) \/ PacksDropped(p) \/ DropLoose(p) \/ GcDone(p)
  \/ \E l \in Leaves, parent \in {0, tip} : Receive(p, l, parent)
  \/ Have(p) \/ PutObject(p) \/ FillObject(p) \/ SetRef(p)

Start(p) ==
  \/ \E l \in Leaves : Open(p, "commit", l)
  \/ Open(p, "gc", None)
  \/ Open(p, "receive", None)

Next == \E p \in Procs : Start(p) \/ Step(p) \/ Kill(p)

Spec == Init /\ [][Next]_vars

Committing(p) == proc[p].leaf # None
Collecting(p) ==
  /\ proc[p].leaf = None
  /\ proc[p].pc \in {"gc", "list", "pack", "copy", "hash", "rename", "idx", "fillIdx",
                     "drop", "dropIdx", "loose"}

\* An assumption on whoever runs the commands: no two commits at once, and
\* nothing else during gc.  The code takes no lock to see to it.
Careful ==
  \A p, q \in Procs :
    p # q => ~(Committing(p) /\ Committing(q)) /\ (Collecting(p) => proc[q].pc = "idle")

CarefulSpec == Init /\ [][Next /\ Careful']_vars

-----------------------------------------------------------------------------
(* Properties.                                                             *)

PCs ==
  {"idle", "commit", "load", "put", "save", "hash", "rename", "idx", "fillIdx",
   "tree", "fillTree", "head", "write", "fillCommit", "ref", "setRef",
   "gc", "list", "pack", "copy", "drop", "dropIdx", "loose",
   "receive", "have", "recv", "fillRecv"}

\* The bytes and names of packs, and what a process has of them.
Bytes == Seq(Objects \cup {Hole})

Processes ==
  [pc : PCs, view : SUBSET [file : Files, index : Indexes], leaf : Leaves \cup {None},
   file : Files \cup {0}, index : Indexes, offset : Nat, name : {None} \cup Bytes,
   known : SUBSET Leaves, dirty : BOOLEAN, head : 0 .. MaxCommits, new : 0 .. MaxCommits,
   todo : SUBSET Objects, half : SUBSET Objects, old : SUBSET Bytes, gone : {None} \cup Bytes]

\* Directories, as functions from names.
IsDirectory(d, contents) ==
  d = [n \in DOMAIN d |-> d[n]] /\ DOMAIN d \subseteq Bytes /\ \A n \in DOMAIN d : d[n] \in contents

StoreTypeOK ==
  /\ loose \in [Objects -> {"absent", "torn", "whole"}]
  /\ file \in [Files -> Bytes]
  /\ tmp \in Files \cup {0}
  /\ IsDirectory(packDir, Files) /\ IsDirectory(idxDir, Indexes \cup {None})
  /\ cache \subseteq Leaves
  /\ commits \in Seq([parent : 0 .. MaxCommits, leaf : Leaves]) /\ Len(commits) <= MaxCommits
  /\ \A n \in DOMAIN commits : commits[n].parent < n
  /\ tip \in 0 .. Len(commits) /\ done \subseteq DOMAIN commits
  /\ proc \in [Procs -> Processes]
  /\ \A p \in Procs : proc[p].head <= Len(commits) /\ proc[p].new <= Len(commits)

\* No process is between the two halves of a file write.
Quiet == \A p \in Procs : proc[p].pc \notin MidWrite

\* Whoever opens the repository now finds it sound, as fsck does: the whole
\* history of the branch is there, and of what is listed, reachable or not,
\* everything can be read, wherever commit, gc or a push has got to or was
\* killed, and whatever the chunk cache remembers of objects gc has dropped.
FsckClean == Quiet => is_clean(LoadPacks)

\* An installed pack keeps the bytes it is named by: it "is content-addressed
\* and treated as read-only" (Packfile::open).
PacksIntact == \A n \in DOMAIN packDir : file[packDir[n]] = n

\* A commit that reported success stays in the history of the branch.
NoLostCommit == Quiet => done \subseteq History[tip]

\* When write has returned for the manifest of a commit, the manifest is
\* stored.
WriteStores ==
  \A p \in Procs : proc[p].pc = "head" => Reads(LoadPacks, Tree(proc[p].leaf))

=============================================================================
