----------------------------- MODULE MCWorktree -----------------------------
(***************************************************************************)
(* Worktree.tla for TLC: a region with one chunk, which is small, or       *)
(* oversized when it is not compressed, or oversized always; the region,   *)
(* its .mcc or the .dat file may be corrupt.                               *)
(***************************************************************************)
EXTENDS Worktree

CONSTANTS small, mid, big, plain, datum, lock, data

\* mid is oversized only when it is not compressed; big always is.
GameFormsOf   == {<<ZLib, small>>, <<plain, mid>>, <<ZLib, big>>}
GameSpillsOf  == {<<plain, mid>>, <<ZLib, big>>}

\* The game does not compress, and big is oversized compressed or not.
SpillForms    == {<<plain, big>>}

\* The .dat file lies in a directory of its own.
InsideOf      == [d \in {data} |-> {Dat}]

AllScopes     == {{Region}, Paths \cup Dirs, {Region} \cup Slots, {Dat}}

\* The worlds of the two commits a run starts from.
World(chunk, mcc, dat) ==
  [p \in Paths |-> CASE p = Region -> chunk [] p \in Slots -> mcc [] p = Dat -> dat
                     [] OTHER -> None]
OneChunk(scheme, body) == RegionBytes([s \in Slots |-> Slot(scheme, body)])

Small == World(OneChunk(ZLib, small), None, None)
Plain == World(OneChunk(plain, External), ChunkBytes(plain, mid), NbtBytes(datum))
Large == World(OneChunk(ZLib, External), ChunkBytes(ZLib, big), RawBytes(datum))
Junk  == World(RawBytes(datum), None, NbtBytes(datum))

\* Two worlds have been committed, with `commit -a`; the game has left
\* its session.lock.
MCInit ==
  \E w \in {<<Small, Large>>, <<Plain, Junk>>, <<Large, Plain>>} :
    /\ files = [w[2] EXCEPT ![lock] = RawBytes(datum)] /\ dirs = Dirs
    /\ trees = [c \in Commits |-> IF c = 1 THEN build(w[1], {data}, Paths \cup Dirs)
                                  ELSE IF c = 2 THEN build(w[2], Dirs, Paths \cup Dirs)
                                  ELSE None]
    /\ saved = [c \in Commits |-> IF c \in {1, 2} THEN View(w[c]) ELSE None]
    /\ parent = [c \in Commits |-> IF c = 2 THEN 1 ELSE 0]
    /\ head = 2 /\ index = None /\ stash = <<>>
    /\ job = Idle /\ turns = 0 /\ kills = 0
    /\ fresh = 0 /\ shelved = 0

\* Next, with the player's hand on fewer files.
MCNext ==
  \/ \E s \in Slots, form \in GameForms : SaveChunk(s, form)
  \/ SaveFile(Region, RawBytes(datum)) \/ \E p \in Slots : SaveFile(p, RawBytes(datum))
  \/ SaveFile(Dat, NbtBytes(datum))
  \/ \E p \in Slots : SaveFile(p, None)
  \/ ToggleDir(data)
  \/ \E scope \in Scopes : Add(scope)
  \/ \E c \in Made : RestoreStaged(Region, c)
  \/ \E new \in Commits : CommitIndex(new)
  \/ \E new \in Commits : CommitAll(new)
  \/ \E c \in Made : Checkout(c)
  \/ \E c \in Made : CheckoutSparse(c)
  \/ \E c \in Made : ResetHard(c)
  \/ \E c \in Made : Restore(Region, c)
  \/ \E new \in Commits, c \in Made : CherryPick(new, c)
  \/ \E new \in Commits, c \in Made : Revert(new, c)
  \/ \E new \in Commits : StashPush(new)
  \/ StashPop
  \/ StashDrop
  \/ Clean
  \/ Step
  \/ \E done \in SUBSET Paths, torn \in {{}} \cup {{p} : p \in Paths},
        mkdirs \in SUBSET Dirs : Kill(done, torn, mkdirs)

MCSpec == MCInit /\ [][MCNext]_vars

=============================================================================
