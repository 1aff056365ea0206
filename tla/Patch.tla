------------------------------- MODULE Patch -------------------------------
(***************************************************************************)
(* Diff, extract and apply of whole worlds (diff/world.rs,                 *)
(* patch/extract.rs, patch/apply.rs; Cmd::Diff, Extract and Apply).        *)
(*                                                                         *)
(* A patch is extracted from two worlds and applied, forward or in         *)
(* reverse, to one of them or to a third, into an output directory.  A run *)
(* of apply may be killed anywhere and the command given again; what it    *)
(* left in the output directory is still there then.                       *)
(*                                                                         *)
(* A world has one region file with chunk slots, each inline or spilled    *)
(* into a .mcc file named after it, one .dat file and one other file.  A   *)
(* .dat file has a form beside its value: its compression and its bytes.   *)
(***************************************************************************)
EXTENDS Nbt

CONSTANTS
  Slots,           \* chunk positions, also the names of their .mcc files
  Region, Dat, Other,
  Spills,          \* chunks that need more than 255 sectors
  Broken,          \* a chunk that cannot be decoded
  Worlds,          \* <<from, to>>: pairs of worlds a patch is extracted from
  Bases,           \* other worlds a patch may be applied to
  MaxKills,        \* bound: kills
  Killed           \* bound: the pairs whose apply may be killed

Files == {Region, Dat, Other} \cup Slots

VARIABLES
  from, to,        \* the worlds compared
  base,            \* the world the patch is applied to
  out,             \* the output directory
  patch,           \* the entries of the patch, None when extract gave up
  reverse, force,  \* the options of apply
  todo,            \* entries still to apply
  clean,           \* no conflict so far
  phase,           \* "extract", "ready", "copy", "apply", "done" or "failed"
  kills

inputs == <<from, to>>
vars   == <<inputs, base, out, patch, reverse, force, todo, clean, phase, kills>>

-----------------------------------------------------------------------------
(* Bytes.                                                                  *)

RegionBytes(f)  == <<"region", f>>      \* f[s]: None, <<"inline", v>> or <<"external">>
ChunkBytes(v)   == <<"chunk", v>>       \* a .mcc file
NbtBytes(form, v) == <<"nbt", form, v>>
RawBytes(d)     == <<"raw", d>>
Truncated       == <<"empty">>

\* RegionFile::parse: the chunk in a slot, None if it is not there.  A .mcc that
\* is no chunk is taken as it is.
ChunkIn(w, s) ==
  LET slot == IF w[Region] # None /\ w[Region][1] = "region" THEN w[Region][2][s] ELSE None
  IN  CASE slot = None -> None
        [] slot # None /\ slot[1] = "inline" -> slot[2]
        [] slot = <<"external">> /\ w[s] = None -> None
        [] OTHER -> IF w[s][1] = "chunk" THEN w[s][2] ELSE w[s]

\* codec::decode fails.
IsBroken(c) == c # None /\ (c = Broken \/ c[1] \in {"raw", "empty"})

\* codec::load_nbt_file, None where it fails.
NbtIn(w) == IF w[Dat] # None /\ w[Dat][1] = "nbt" THEN w[Dat][3] ELSE None

-----------------------------------------------------------------------------
(* diff and extract.                                                       *)

Entry(file, kind, status, ops, chunks, old, new) ==
  [file |-> file, kind |-> kind, status |-> status, ops |-> ops, chunks |-> chunks,
   old |-> old, new |-> new]

NoChunks == [s \in Slots |-> <<>>]

\* whole_add, whole_remove, node_ops: the operations between two roots.
RootOps(u, v) ==
  CASE u = None -> <<Op(<<>>, None, v)>>
    [] v = None -> <<Op(<<>>, u, None)>>
    [] OTHER -> node_ops(u, v)

\* region_patches: a chunk with the same bytes is skipped.
Chunks(a, b) ==
  [s \in Slots |-> IF ChunkIn(a, s) = ChunkIn(b, s) THEN <<>>
                   ELSE RootOps(ChunkIn(a, s), ChunkIn(b, s))]

\* A chunk that has to be decoded cannot be: the command fails.
Undecodable(a, b) ==
  \E s \in Slots : /\ ChunkIn(a, s) # ChunkIn(b, s)
                   /\ IsBroken(ChunkIn(a, s)) \/ IsBroken(ChunkIn(b, s))

StatusOf(a, b, f) == CASE a[f] = None -> "added" [] b[f] = None -> "removed"
                       [] OTHER -> "modified"

BlobEntry(a, b, f) == Entry(f, "blob", StatusOf(a, b, f), <<>>, NoChunks, a[f], b[f])

\* A .dat file is a blob when a side that is there does not parse.
NbtFails(a, b) == \/ a[Dat] # None /\ NbtIn(a) = None
                  \/ b[Dat] # None /\ NbtIn(b) = None

\* extract_one: the entry for a file, if any, as a sequence.
extract_one(a, b, f) ==
  LET status == StatusOf(a, b, f)
      ops    == RootOps(NbtIn(a), NbtIn(b))
  IN  CASE a[f] = b[f] -> <<>>
        [] f = Region /\ a[f] # b[f] ->
             IF status = "modified" /\ Chunks(a, b) = NoChunks THEN <<>>
             ELSE <<Entry(f, "region", status, <<>>, Chunks(a, b), None, None)>>
        [] f = Dat /\ a[f] # b[f] /\ ~NbtFails(a, b) ->
             IF ops = <<>> THEN <<>>
             ELSE <<Entry(f, "nbt", status, ops, NoChunks, None, None)>>
        [] OTHER -> <<BlobEntry(a, b, f)>>

\* The order of file names: a .mcc sorts before the region it belongs to.
FileOrder == <<Other, Dat>> \o SetToSeq(Slots) \o <<Region>>

\* extract
extract(a, b) ==
  IF a[Region] # b[Region] /\ Undecodable(a, b) THEN None
  ELSE FlattenSeq([i \in DOMAIN FileOrder |-> extract_one(a, b, FileOrder[i])])

\* diff_region: the chunks that differ.
diff_region(a, b) ==
  {s \in Slots : LET u == ChunkIn(a, s) v == ChunkIn(b, s)
                 IN  u # v /\ (u = None \/ v = None \/ node_ops(u, v) # <<>>)}

\* Chunks of one side only are not decoded by diff.
DiffFails(a, b) ==
  /\ a[Region] # None /\ b[Region] # None /\ a[Region] # b[Region]
  /\ \E s \in Slots : LET u == ChunkIn(a, s) v == ChunkIn(b, s)
                      IN  u # v /\ None \notin {u, v} /\ (IsBroken(u) \/ IsBroken(v))

\* Mutant: a pair of files of which one does not parse is taken for unchanged.
DiffersUnlessParsed(a, b, f) ==
  /\ a[f] # b[f]
  /\ \/ None \in {a[f], b[f]}
     \/ f = Region /\ diff_region(a, b) # {}
     \/ f = Dat /\ NbtIn(a) # None /\ NbtIn(b) # None /\ node_ops(NbtIn(a), NbtIn(b)) # <<>>
     \/ f \notin {Region, Dat}

\* diff_one: the file is listed.
diff_one(a, b, f) ==
  /\ a[f] # b[f]
  /\ \/ None \in {a[f], b[f]}
     \/ f = Region /\ diff_region(a, b) # {}
     \/ f = Dat /\ (NbtFails(a, b) \/ node_ops(NbtIn(a), NbtIn(b)) # <<>>)
     \/ f \notin {Region, Dat}

diff(a, b) == {f \in Files : diff_one(a, b, f)}

-----------------------------------------------------------------------------
(* apply: one entry.  Each returns the output directory and whether it was *)
(* clean, or fails.                                                        *)

flip(status, rev) == CASE rev /\ status = "added" -> "removed"
                       [] rev /\ status = "removed" -> "added"
                       [] OTHER -> status

\* RegionWriter::write: spilled chunks go to their .mcc files.
WriteRegion(w, chunks) ==
  [f \in Files |->
     CASE f = Region -> RegionBytes([s \in Slots |->
            CASE chunks[s] = None -> None
              [] chunks[s] # None /\ chunks[s] \in Spills -> <<"external">>
              [] OTHER -> <<"inline", written(chunks[s])>>])
       [] f \in Slots /\ chunks[f] # None /\ chunks[f] \in Spills -> ChunkBytes(written(chunks[f]))
       [] OTHER -> w[f]]

ApplyRegion(w, e) ==
  LET r == [s \in Slots |-> ApplyAll(ChunkIn(w, s), e.chunks[s], reverse, force)]
  IN  [out |-> WriteRegion(w, [s \in Slots |-> r[s].slot]),
       clean |-> \A s \in Slots : r[s].clean]

\* A .dat file left without a root is removed.
ApplyNbt(w, e) ==
  LET r == ApplyAll(NbtIn(w), e.ops, reverse, force)
  IN  [out |-> [w EXCEPT ![Dat] = IF r.slot = None THEN None
                                  ELSE NbtBytes("gzip", written(r.slot))],
       clean |-> r.clean]

\* Mutant: bytes are written whatever is there.
ApplyBlobUnguarded(w, e) ==
  [out |-> [w EXCEPT ![e.file] = IF reverse THEN e.old ELSE e.new], clean |-> TRUE]

ApplyBlob(w, e) ==
  LET old == IF reverse THEN e.new ELSE e.old
      new == IF reverse THEN e.old ELSE e.new
  IN  IF w[e.file] # old /\ ~force THEN [out |-> w, clean |-> FALSE]
      ELSE [out |-> [w EXCEPT ![e.file] = new], clean |-> TRUE]

\* apply_entry; a removed region or .dat file is removed as it is.
apply_entry(w, e) ==
  CASE e.kind = "blob" -> ApplyBlob(w, e)
    [] e.kind # "blob" /\ flip(e.status, reverse) = "removed" ->
         [out |-> [w EXCEPT ![e.file] = None], clean |-> TRUE]
    [] e.kind = "region" /\ flip(e.status, reverse) # "removed" -> ApplyRegion(w, e)
    [] OTHER -> ApplyNbt(w, e)

\* Applying a region entry decodes every chunk of the region.
EntryFails(w, e) ==
  /\ e.kind = "region" /\ flip(e.status, reverse) # "removed"
  /\ \E s \in Slots : IsBroken(ChunkIn(w, s))

-----------------------------------------------------------------------------
Init ==
  /\ \E p \in Worlds : from = p[1] /\ to = p[2]
  /\ base = from /\ out = [f \in Files |-> None]
  /\ patch = <<>> /\ todo = <<>> /\ clean = TRUE
  /\ reverse = FALSE /\ force = FALSE
  /\ phase = "extract" /\ kills = 0

\* Mutant: a region that cannot be decoded is not an error.
ExtractAnyway ==
  /\ phase = "extract"
  /\ patch' = extract(from, to)
  /\ phase' = "ready"
  /\ UNCHANGED <<inputs, base, out, reverse, force, todo, clean, kills>>

Extract ==
  /\ phase = "extract"
  /\ patch' = extract(from, to)
  /\ phase' = IF patch' = None THEN "failed" ELSE "ready"
  /\ UNCHANGED <<inputs, base, out, reverse, force, todo, clean, kills>>

\* apply is started, with its options, on a world.
Begin(w, rev, frc) ==
  /\ phase = "ready"
  /\ base' = w /\ reverse' = rev /\ force' = frc
  /\ phase' = "copy"
  /\ UNCHANGED <<inputs, out, patch, todo, clean, kills>>

Copied(fs) == [f \in Files |-> IF f \in fs /\ base[f] # None THEN base[f] ELSE out[f]]

\* Mutant: files that are there already are not copied again.
CopyMissing ==
  /\ phase = "copy"
  /\ out' = [f \in Files |-> IF out[f] = None THEN base[f] ELSE out[f]]
  /\ todo' = patch /\ clean' = TRUE
  /\ phase' = "apply"
  /\ UNCHANGED <<inputs, base, patch, reverse, force, kills>>

\* copy_world overwrites, and removes nothing.
Copy ==
  /\ phase = "copy"
  /\ out' = Copied(Files)
  /\ todo' = patch /\ clean' = TRUE
  /\ phase' = "apply"
  /\ UNCHANGED <<inputs, base, patch, reverse, force, kills>>

ApplyEntry ==
  /\ phase = "apply" /\ todo # <<>>
  /\ IF EntryFails(out, todo[1])
     THEN phase' = "failed" /\ UNCHANGED <<out, clean, todo>>
     ELSE LET r == apply_entry(out, todo[1])
          IN  /\ out' = r.out /\ clean' = (clean /\ r.clean)
              /\ todo' = Tail(todo)
              /\ UNCHANGED phase
  /\ UNCHANGED <<inputs, base, patch, reverse, force, kills>>

Finish ==
  /\ phase = "apply" /\ todo = <<>>
  /\ phase' = "done"
  /\ UNCHANGED <<inputs, base, out, patch, reverse, force, todo, clean, kills>>

\* The command is killed, and given again.
Killing ==
  /\ kills < MaxKills /\ <<from, to>> \in Killed
  /\ kills' = kills + 1
  /\ phase' = "copy"
  /\ UNCHANGED <<inputs, base, patch, reverse, force, todo, clean>>

\* Killed while it copies, with some files copied and one gone or empty.
KillCopy(copied, torn, left) ==
  /\ phase = "copy" /\ Killing
  /\ \A f \in torn : base[f] # None
  /\ out' = [f \in Files |-> IF f \in torn THEN left ELSE Copied(copied)[f]]

\* The files an entry opens, where `new` is what it makes of the directory.
Opens(e, new) ==
  IF EntryFails(out, e) \/ (e.kind # "blob" /\ flip(e.status, reverse) = "removed") THEN {}
  ELSE {f \in {e.file} : new[f] # None /\ (e.kind = "blob" => new[f] # out[f])}
         \cup {s \in Slots : e.kind = "region" /\ new[Region][2][s] = <<"external">>}

\* Killed between entries, or in one that wrote some of its files and left one
\* empty; a region is written after the chunks it spills.
KillApply ==
  /\ phase = "apply" /\ Killing
  /\ \/ UNCHANGED out
     \/ /\ todo # <<>>
        /\ LET new   == apply_entry(out, todo[1]).out
               opens == Opens(todo[1], new)
           IN  \E torn \in {{}} \cup {{f} : f \in opens}, done \in SUBSET opens :
                 /\ todo[1].file \in torn => opens \ torn \subseteq done
                 /\ out' = [f \in Files |-> IF f \in torn THEN Truncated
                                            ELSE IF f \in done THEN new[f] ELSE out[f]]

Next ==
  \/ Extract
  \/ \E w \in {from, to} \cup Bases, rev, frc \in BOOLEAN : Begin(w, rev, frc)
  \/ Copy
  \/ ApplyEntry
  \/ Finish
  \/ \E copied \in SUBSET Files, torn \in {{}} \cup {{f} : f \in Files}, left \in {None, Truncated} :
       KillCopy(copied, torn, left)
  \/ KillApply

Spec == Init /\ [][Next]_vars

-----------------------------------------------------------------------------
(* Properties.                                                             *)

Source == IF reverse THEN to ELSE from
Target == IF reverse THEN from ELSE to

\* The operations between u and v find what they are about: no name is read
\* back as something else, and no element of a list with identities is new.
RECURSIVE Addressable(_, _)
Addressable(u, v) ==
  u = v \/ u[1] # v[1] \/
  CASE u[1] = "compound" ->
         \A k \in DOMAIN u[2] \cup DOMAIN v[2] :
           /\ Spelled[k] = <<Key(k)>>
           /\ k \in DOMAIN u[2] \cap DOMAIN v[2] => Addressable(u[2][k], v[2][k])
    [] u[1] = "list" /\ Keyed(u[2]) /\ Keyed(v[2]) ->
         \A x \in ToSet(v[2]) : LET i == Find(u[2], identity_key(x))
                                IN  i > 0 /\ Addressable(u[2][i], x)
    [] u[1] = "list" /\ ~(Keyed(u[2]) /\ Keyed(v[2])) ->
         \A i \in DOMAIN u[2] \cap DOMAIN v[2] : Addressable(u[2][i], v[2][i])
    [] OTHER -> TRUE

\* They find what they compare with: no other list loses more than one element,
\* since the rest would shift, and nothing that is compared is a NaN.
RECURSIVE Comparable(_, _)
Comparable(u, v) ==
  IF u = v \/ u[1] # v[1] THEN ~HasNaN(u)
  ELSE CASE u[1] = "compound" ->
              \A k \in DOMAIN u[2] : IF k \in DOMAIN v[2] THEN Comparable(u[2][k], v[2][k])
                                     ELSE ~HasNaN(u[2][k])
         [] u[1] = "list" /\ Keyed(u[2]) /\ Keyed(v[2]) ->
              \A x \in ToSet(u[2]) : LET j == Find(v[2], identity_key(x))
                                     IN  IF j > 0 THEN Comparable(x, v[2][j]) ELSE ~HasNaN(x)
         [] u[1] = "list" /\ ~(Keyed(u[2]) /\ Keyed(v[2])) ->
              /\ Len(u[2]) <= Len(v[2]) + 1
              /\ \A i \in DOMAIN u[2] :
                   IF i \in DOMAIN v[2] THEN Comparable(u[2][i], v[2][i]) ELSE ~HasNaN(u[2][i])
         [] OTHER -> ~HasNaN(u)

Slotted(w, s) == IF w[Region] # None /\ w[Region][1] = "region" THEN w[Region][2][s] ELSE None

\* The game spills the chunks that apply spills.
SpillsAlike(w) ==
  \A s \in Slots : Slotted(w, s) # None =>
    Slotted(w, s) = <<"external">> <=>
      ChunkIn(w, s) \in Spills \cup {None} \/ (IsBroken(ChunkIn(w, s)) /\ w[s] # None)

Readable(c) == c # None /\ ~IsBroken(c)

\* Two chunks or roots that are there, and differ, satisfy R.
Pairwise(R(_, _), w, x) ==
  /\ \A s \in Slots : /\ w[Region] # x[Region] /\ ChunkIn(w, s) # ChunkIn(x, s)
                      /\ Readable(ChunkIn(w, s)) /\ Readable(ChunkIn(x, s))
                      => R(ChunkIn(w, s), ChunkIn(x, s))
  /\ NbtIn(w) # None /\ NbtIn(x) # None => R(NbtIn(w), NbtIn(x))

\* The patch is applied to w and gives x.  Where the region changes, its chunks
\* are decoded; a chunk to be removed is compared first; and a .mcc that the
\* region of w refers to stays as it is, since it is an entry of its own that
\* is applied before the operations of the region, which then meet its new
\* chunk and not the one they were extracted from.
Handled(w, x) ==
  /\ SpillsAlike(w) /\ SpillsAlike(x)
  /\ Pairwise(Addressable, w, x) /\ Pairwise(Comparable, w, x)
  /\ w[Region] # x[Region] =>
       \A s \in Slots :
         /\ ~IsBroken(ChunkIn(w, s)) /\ ~IsBroken(ChunkIn(x, s))
         /\ x[Region] # None =>
              /\ Slotted(w, s) = <<"external">> => w[s] = x[s]
              /\ ChunkIn(w, s) # None /\ ChunkIn(x, s) = None => ~HasNaN(ChunkIn(w, s))

\* No chunk is spilled, and none is broken.
Inline(w) == \A s \in Slots : w[s] = None /\ ChunkIn(w, s) \notin Spills /\ ~IsBroken(ChunkIn(w, s))

\* What the .dat file of w has under a top name.
AtName(w, k) == IF k \in DOMAIN NbtIn(w)[2] THEN NbtIn(w)[2][k] ELSE None

\* Two chunks are the same up to the order of lists with identities.
Alike(u, v) == u = v \/ (Readable(u) /\ Readable(v) /\ Canon(u) = Canon(v))

\* Two worlds are the same up to the order of lists with identities and to the
\* form of .dat files.
SameWorld(w, x) ==
  /\ \A f \in Files : (w[f] = None) = (x[f] = None)
  /\ \A s \in Slots : Alike(ChunkIn(w, s), ChunkIn(x, s))
  /\ (NbtIn(w) # None /\ Alike(NbtIn(w), NbtIn(x))) \/ w[Dat] = x[Dat]
  /\ w[Other] = x[Other]

\* The type invariant.
PatchTypeOK ==
  /\ DOMAIN out = Files /\ DOMAIN base = Files
  /\ patch # None => \A i \in DOMAIN patch : patch[i].file \in Files
  /\ {reverse, force, clean} \subseteq BOOLEAN
  /\ kills \in 0 .. MaxKills
  /\ phase \in {"extract", "ready", "copy", "apply", "done", "failed"}
  /\ patch = None => phase = "failed"

\* extract and apply are inverse, both ways, but for the exceptions of Handled:
\* neither fails, there is no conflict, and the other world comes out.
RoundTrip ==
  phase \in {"done", "failed"} /\ kills = 0 /\ base = Source /\ Handled(Source, Target)
    => phase = "done" /\ clean /\ SameWorld(out, Target)

\* A clean report can be believed, also where Handled excludes that there is
\* one (lists that lose several elements, NaNs, .mcc files that change together
\* with their region), and also when earlier runs into the same directory were
\* killed: what they left is overwritten or reported.  Only operations that are
\* not Addressable are lost without a conflict (see CleanMeansApplied).
CleanAfterKill ==
  /\ phase = "done" /\ clean /\ ~force /\ base = Source
  /\ SpillsAlike(Source) /\ SpillsAlike(Target) /\ Pairwise(Addressable, Source, Target)
  => SameWorld(out, Target)

\* Three-way: what the two worlds agree on is in the output as the base has
\* it, whatever the base is, conflicts or not: files, chunks and top names.
\* What was neither's is not overwritten unless forced: a file without structure
\* and a top name that changed as a whole stay, and are reported as conflicts
\* if the base does not have them as the source has.
AgreedIsKept ==
  phase = "done" /\ kills = 0 /\ Inline(base) /\ Inline(from) /\ Inline(to) =>
    /\ \A f \in Files : from[f] = to[f] => out[f] = base[f]
    /\ ~force /\ base[Other] # Source[Other] =>
         out[Other] = base[Other] /\ (from[Other] # to[Other] => ~clean)
    /\ \A s \in Slots : /\ ChunkIn(from, s) = ChunkIn(to, s)
                        /\ out[Region] # None
                        => Alike(ChunkIn(out, s), ChunkIn(base, s))
    /\ /\ None \notin {NbtIn(from), NbtIn(to), NbtIn(base), NbtIn(out)}
       /\ \A n \in DOMAIN NbtIn(from)[2] \cup DOMAIN NbtIn(to)[2] : Spelled[n] = <<Key(n)>>
       => \A k \in DOMAIN NbtIn(base)[2] \cup DOMAIN NbtIn(from)[2] \cup DOMAIN NbtIn(to)[2] :
            LET f == AtName(from, k) t == AtName(to, k) b == AtName(base, k)
            IN  /\ f = t /\ b # None /\ ~HasNaN(NbtIn(from)) => AtName(out, k) = b
                /\ ~force /\ f # t /\ (None \in {f, t} \/ f[1] # t[1]) /\ b # AtName(Source, k) =>
                     AtName(out, k) = b /\ ~clean

\* The display and the patch cannot drift: they list the same files and chunks.
DiffAndPatchAgree ==
  phase = "ready" =>
    /\ ~DiffFails(from, to)
    /\ diff(from, to) = {patch[i].file : i \in DOMAIN patch}
    /\ \A i \in DOMAIN patch :
         patch[i].status = "modified" /\ patch[i].kind = "region" =>
           diff_region(from, to) = {s \in Slots : patch[i].chunks[s] # <<>>}

-----------------------------------------------------------------------------
(* What the change log says and the code does not do.                      *)

\* "Patch extract/apply now reproduces real worlds round-trip": a patch that
\* was applied without a conflict to the world it was taken from gives the
\* other world.
CleanMeansApplied ==
  phase = "done" /\ kills = 0 /\ clean /\ ~force /\ base = Source
    => SameWorld(out, Target)

=============================================================================
