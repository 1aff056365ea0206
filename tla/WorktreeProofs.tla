--------------------------- MODULE WorktreeProofs ---------------------------
(***************************************************************************)
(* Proofs about Worktree.tla, for any number of slots, chunks, files and   *)
(* commits, any pathspecs, and any number of edits, commands and kills:    *)
(*   WorktreeTyped             the type invariant,                         *)
(*   FreshIsCleanTheorem       a finished checkout shows no changed file,  *)
(*   CheckoutGivesBackTheorem  it gives the game back what was taken,      *)
(*   WorkIsSomewhereTheorem    a stash never loses the work it shelves.    *)
(*                                                                         *)
(* Result(m) is the world that a whole checkout of manifest m leaves; that *)
(* its snapshot differs from m in no file (CleanAfter) and that the game   *)
(* sees in it what it saw in the world m was taken from (GivesBack) are    *)
(* facts about operators.  The invariants then say that the world of a     *)
(* command on its way agrees with Result as far as its steps are done      *)
(* (Laid, Progress, DirsProgress), that the commits taken from a world     *)
(* give it back (GivenBack), and where the work of a stash is at each step *)
(* of a push or a pop (Shelving).                                          *)
(***************************************************************************)
EXTENDS Worktree, SequenceTheorems, TLAPS

-----------------------------------------------------------------------------
(* Bytes and manifests.                                                    *)

\* Bytes in which no chunk that checkout spills is inline, or in a .mcc file
\* under another scheme.
Sane(b) ==
  /\ b[1] = "region" => \A s \in Slots : b[2][s] # None => b[2][s].body \notin Spills
  /\ b[1] = "chunk" /\ b[3] \in Spills => b[2] = ZLib

Good == IF ZLibSpills THEN {b \in Bytes : Sane(b)} ELSE Bytes

\* Files that are never captured are in no manifest, and an NBT file is no blob.
GoodBlobs ==
  {f \in [Paths -> Good \cup {None}] :
     /\ \A p \in Skipped : f[p] = None
     /\ f[Dat] # None => f[Dat][1] # "nbt"}

GoodManifests ==
  [regions    : [Slots -> Chunks \cup {None}] \cup {None},
   nbt        : Datas \cup {None},
   blobs      : GoodBlobs,
   empty_dirs : SUBSET Dirs]

\* The kinds of bytes.
LEMMA BytesLemma ==
  /\ \A f \in [Slots -> SlotValues \cup {None}] : RegionBytes(f) \in Bytes
  /\ \A scheme \in Schemes, c \in Chunks : ChunkBytes(scheme, c) \in Bytes
  /\ \A d \in Datas : NbtBytes(d) \in Bytes /\ RawBytes(d) \in Bytes
  /\ Truncated \in Bytes
BY DEF Bytes

LEMMA KindsLemma ==
  ASSUME NEW b \in Bytes
  PROVE  \/ \E f \in [Slots -> SlotValues \cup {None}] : b = RegionBytes(f)
         \/ \E scheme \in Schemes, c \in Chunks : b = ChunkBytes(scheme, c)
         \/ \E d \in Datas : b = NbtBytes(d)
         \/ \E d \in Datas : b = RawBytes(d)
         \/ b = Truncated
BY DEF Bytes

LEMMA GoodLemma ==
  /\ Good \subseteq Bytes /\ None \notin Good
  /\ \A d \in Datas : NbtBytes(d) \in Good /\ RawBytes(d) \in Good
  /\ Truncated \in Good
<1>1. \A d \in Datas : Sane(NbtBytes(d)) /\ Sane(RawBytes(d))
  BY DEF Sane, NbtBytes, RawBytes
<1>2. Sane(Truncated)
  BY DEF Sane, Truncated
<1> QED
  BY <1>1, <1>2, BytesLemma, DataAssumption DEF Good

LEMMA GoodManifestsLemma ==
  /\ GoodManifests \subseteq Manifests
  /\ EmptyManifest \in GoodManifests
  /\ None \notin GoodManifests
<1>1. GoodManifests \subseteq Manifests
  BY GoodLemma DEF GoodManifests, Manifests, GoodBlobs
<1>2. EmptyManifest \in GoodManifests
  BY PathsAssumption DEF EmptyManifest, GoodManifests, GoodBlobs, Paths
<1> QED
  BY <1>1, <1>2, DataAssumption

\* What checkout writes of a manifest.
RegionOf(m) ==
  RegionBytes([s \in Slots |->
       IF m.regions[s] = None THEN None
       ELSE Slot(ZLib, IF m.regions[s] \in Spills THEN External ELSE m.regions[s])])

LEMMA WritesGood ==
  ASSUME NEW m \in GoodManifests
  PROVE  /\ \A s \in Slots : m.regions # None /\ m.regions[s] \in Spills =>
               ChunkBytes(ZLib, m.regions[s]) \in Good
         /\ m.regions # None => RegionOf(m) \in Good
         /\ m.nbt # None => NbtBytes(m.nbt) \in Good
         /\ \A p \in Paths : m.blobs[p] \in Good \cup {None}
<1>1. ASSUME NEW s \in Slots, m.regions # None, m.regions[s] \in Spills
      PROVE  ChunkBytes(ZLib, m.regions[s]) \in Good
  <2>1. ChunkBytes(ZLib, m.regions[s]) \in Bytes
    BY <1>1, BytesLemma, DataAssumption, FormsAssumption
  <2>2. Sane(ChunkBytes(ZLib, m.regions[s]))
    BY DEF Sane, ChunkBytes
  <2> QED
    BY <2>1, <2>2 DEF Good
<1>2. ASSUME m.regions # None PROVE RegionOf(m) \in Good
  <2> DEFINE f == [s \in Slots |->
       IF m.regions[s] = None THEN None
       ELSE Slot(ZLib, IF m.regions[s] \in Spills THEN External ELSE m.regions[s])]
  <2>1. m.regions \in [Slots -> Chunks \cup {None}]
    BY <1>2 DEF GoodManifests
  <2>2. f \in [Slots -> SlotValues \cup {None}]
    BY <2>1, FormsAssumption DEF Slot, SlotValues
  <2>3. \A s \in Slots : f[s] # None => f[s].body \notin Spills
    BY <2>1, DataAssumption DEF Slot
  <2>4. RegionOf(m) = RegionBytes(f) /\ RegionBytes(f) \in Bytes
    BY <2>2, BytesLemma DEF RegionOf
  <2> HIDE DEF f
  <2>5. Sane(RegionBytes(f))
    BY <2>3 DEF Sane, RegionBytes
  <2> QED
    BY <2>4, <2>5 DEF Good
<1> QED
  BY <1>1, <1>2, GoodLemma DEF GoodManifests, GoodBlobs

LEMMA ChunkKind ==
  ASSUME NEW b \in Bytes, b[1] = "chunk"
  PROVE  b[2] \in Schemes /\ b[3] \in Chunks /\ b = ChunkBytes(b[2], b[3])
BY KindsLemma DEF RegionBytes, ChunkBytes, NbtBytes, RawBytes, Truncated

LEMMA RegionKind ==
  ASSUME NEW b \in Bytes
  PROVE  /\ SlotsOf(b) \in [Slots -> SlotValues \cup {None}]
         /\ b[1] = "region" => b = RegionBytes(b[2])
BY KindsLemma DEF SlotsOf, RegionBytes, ChunkBytes, NbtBytes, RawBytes, Truncated

\* The body of a chunk that is there.
LEMMA PayloadLemma ==
  ASSUME NEW fs \in [Paths -> Bytes \cup {None}], fs[Region] # None, NEW s \in Slots
  PROVE  /\ Payload(fs, s) \in Bytes \cup {None}
         /\ Payload(fs, s) # None /\ Decodes(fs, s) =>
              Payload(fs, s)[3] \in Chunks /\ Payload(fs, s)[3] # None
<1>1. fs[Region] \in Bytes /\ s \in Paths /\ fs[s] \in Bytes \cup {None}
  BY DEF Paths
<1>2. SlotsOf(fs[Region])[s] \in SlotValues \cup {None}
  BY <1>1, RegionKind
<1>3. Payload(fs, s) \in Bytes \cup {None}
  BY <1>1, <1>2, BytesLemma DEF Payload, SlotValues
<1>4. ASSUME Payload(fs, s) # None, Decodes(fs, s)
      PROVE  Payload(fs, s)[3] \in Chunks
  BY <1>3, <1>4, ChunkKind DEF Decodes
<1> QED
  BY <1>3, <1>4, DataAssumption

LEMMA ViewLemma ==
  ASSUME NEW fs \in [Paths -> Bytes \cup {None}]
  PROVE  View(fs) \in Views
<1> DEFINE ch == [s \in Slots |->
                   IF fs[Region] # None /\ Payload(fs, s) # None /\ Decodes(fs, s)
                   THEN Payload(fs, s)[3] ELSE None]
           re == [p \in {Dat} \cup Others |-> fs[p]]
<1>1. ch \in [Slots -> Chunks \cup {None}]
  BY PayloadLemma
<1>2. re \in [{Dat} \cup Others -> Bytes \cup {None}]
  BY DEF Paths
<1>3. View(fs) = [chunks |-> ch, rest |-> re]
  BY Zenon DEF View
<1> QED
  BY <1>1, <1>2, <1>3 DEF Views

\* A snapshot is a manifest.
LEMMA BuildGood ==
  ASSUME NEW fs \in [Paths -> Good \cup {None}], NEW ds \in SUBSET Dirs, NEW scope
  PROVE  build(fs, ds, scope) \in GoodManifests
<1>0. fs \in [Paths -> Bytes \cup {None}]
  BY GoodLemma
<1> DEFINE re == IF Region \in scope /\ IsRegion(fs) THEN try_chunks(fs) ELSE None
           nb == IF Dat \in scope /\ IsNbt(fs) THEN fs[Dat][2] ELSE None
           bl == [p \in Paths |-> IF p \in scope /\ IsBlob(fs, p) THEN fs[p] ELSE None]
           ed == EmptyDirs(fs, ds) \cap scope
<1>1. re \in [Slots -> Chunks \cup {None}] \cup {None}
  BY <1>0, PayloadLemma DEF IsRegion, try_chunks
<1>2. nb \in Datas \cup {None}
  <2> SUFFICES ASSUME IsNbt(fs) PROVE fs[Dat][2] \in Datas
    OBVIOUS
  <2>1. fs[Dat] \in Bytes /\ fs[Dat][1] = "nbt"
    BY <1>0 DEF IsNbt, Paths
  <2> QED
    BY <2>1, KindsLemma DEF RegionBytes, ChunkBytes, NbtBytes, RawBytes, Truncated
<1>3. bl \in GoodBlobs
  <2>1. bl \in [Paths -> Good \cup {None}]
    OBVIOUS
  <2>2. \A p \in Skipped : bl[p] = None
    BY DEF IsBlob, Paths
  <2>3. bl[Dat] # None => bl[Dat][1] # "nbt"
    BY DEF IsBlob, IsNbt, Paths
  <2> QED
    BY <2>1, <2>2, <2>3 DEF GoodBlobs
<1>4. build(fs, ds, scope) = [regions |-> re, nbt |-> nb, blobs |-> bl, empty_dirs |-> ed]
  BY Zenon DEF build
<1>5. ed \in SUBSET Dirs
  BY DEF EmptyDirs
<1> HIDE DEF re, nb, bl, ed
<1> QED
  BY <1>1, <1>2, <1>3, <1>4, <1>5 DEF GoodManifests

\* A merged manifest is one.
LEMMA MergeGood ==
  ASSUME NEW mb \in GoodManifests, NEW mo \in GoodManifests, NEW mt \in GoodManifests
  PROVE  three_way_manifest(mb, mo, mt) \in GoodManifests
<1> DEFINE chunks == merge_map(ChunksOf(mb), ChunksOf(mo), ChunksOf(mt))
           re == IF \A s \in Slots : chunks[s] = None THEN None ELSE chunks
           nb == three_way(mb.nbt, mo.nbt, mt.nbt)
           bl == merge_map(mb.blobs, mo.blobs, mt.blobs)
           ed == mo.empty_dirs \cup mt.empty_dirs
<1>1. \A m \in GoodManifests : ChunksOf(m) \in [Slots -> Chunks \cup {None}]
  BY DEF GoodManifests, ChunksOf
<1>2. chunks \in [Slots -> Chunks \cup {None}]
  BY <1>1 DEF merge_map, three_way
<1>3. nb \in Datas \cup {None}
  BY DEF three_way, GoodManifests
<1>4. bl \in GoodBlobs
  <2>1. /\ mb.blobs \in [Paths -> Good \cup {None}]
        /\ mo.blobs \in [Paths -> Good \cup {None}] /\ mt.blobs \in [Paths -> Good \cup {None}]
    BY DEF GoodManifests, GoodBlobs
  <2>2. /\ bl \in [Paths -> Good \cup {None}]
        /\ \A p \in Paths : bl[p] \in {None, mo.blobs[p], mt.blobs[p]}
    BY <2>1 DEF merge_map, three_way
  <2>3. \A p \in Skipped : bl[p] = None
    BY <2>2 DEF GoodManifests, GoodBlobs, Paths
  <2>4. bl[Dat] # None => bl[Dat][1] # "nbt"
    BY <2>2 DEF GoodManifests, GoodBlobs, Paths
  <2> QED
    BY <2>2, <2>3, <2>4 DEF GoodBlobs
<1>5. three_way_manifest(mb, mo, mt)
        = [regions |-> re, nbt |-> nb, blobs |-> bl, empty_dirs |-> ed]
  BY Zenon DEF three_way_manifest
<1>6. ed \in SUBSET Dirs
  BY DEF GoodManifests
<1> HIDE DEF chunks, nb, bl, ed
<1> QED
  BY <1>2, <1>3, <1>4, <1>5, <1>6 DEF GoodManifests

-----------------------------------------------------------------------------
(* The world a whole checkout leaves behind, whatever was there before.     *)

Result(m) ==
  [p \in Paths |-> IF m.blobs[p] # None THEN m.blobs[p]
                   ELSE IF p = Dat /\ m.nbt # None THEN NbtBytes(m.nbt)
                   ELSE IF p = Region /\ m.regions # None THEN RegionOf(m)
                   ELSE None]

LEMMA ResultGood ==
  ASSUME NEW m \in GoodManifests
  PROVE  Result(m) \in [Paths -> Good \cup {None}]
BY WritesGood DEF Result

\* The slots of the region that checkout writes.
LEMMA RegionSlots ==
  ASSUME NEW m \in GoodManifests, m.regions # None, NEW s \in Slots
  PROVE  /\ RegionOf(m)[1] = "region" /\ RegionOf(m) # None
         /\ m.regions[s] = None => SlotsOf(RegionOf(m))[s] = None
         /\ m.regions[s] # None =>
              /\ SlotsOf(RegionOf(m))[s] # None /\ SlotsOf(RegionOf(m))[s].scheme = ZLib
              /\ m.regions[s] \in Spills => SlotsOf(RegionOf(m))[s].body = External
              /\ m.regions[s] \notin Spills =>
                   /\ SlotsOf(RegionOf(m))[s].body = m.regions[s]
                   /\ SlotsOf(RegionOf(m))[s].body # External
<1>1. m.regions \in [Slots -> Chunks \cup {None}]
  BY DEF GoodManifests
<1> DEFINE f == [t \in Slots |->
       IF m.regions[t] = None THEN None
       ELSE Slot(ZLib, IF m.regions[t] \in Spills THEN External ELSE m.regions[t])]
<1>2. RegionOf(m) = <<"region", f>>
  BY DEF RegionOf, RegionBytes
<1>3. SlotsOf(RegionOf(m)) = f
  BY <1>2 DEF SlotsOf
<1>4. RegionOf(m) # None
  BY WritesGood, GoodLemma
<1>5. m.regions[s] # None =>
        f[s] = Slot(ZLib, IF m.regions[s] \in Spills THEN External ELSE m.regions[s])
  BY <1>1
<1>6. m.regions[s] # None => f[s] \in SlotValues /\ f[s] # None
  BY <1>1, <1>5, FormsAssumption, DataAssumption DEF Slot, SlotValues
<1>7. m.regions[s] = None => f[s] = None
  BY <1>1
<1>8. m.regions[s] # None =>
        f[s].scheme = ZLib /\ f[s].body = IF m.regions[s] \in Spills THEN External ELSE m.regions[s]
  BY <1>5 DEF Slot
<1>9. m.regions[s] # None => m.regions[s] # External
  BY <1>1, DataAssumption
<1> HIDE DEF f
<1> QED
  BY <1>2, <1>3, <1>4, <1>6, <1>7, <1>8, <1>9

\* What the chunks of a region that checkout wrote are, beside the .mcc files
\* they need.
LEMMA RegionReads ==
  ASSUME NEW m \in GoodManifests, m.regions # None, NEW fs, fs[Region] = RegionOf(m),
         NEW s \in Slots,
         m.regions[s] \in Spills => fs[s] = ChunkBytes(ZLib, m.regions[s])
  PROVE  IF m.regions[s] = None THEN Payload(fs, s) = None
         ELSE /\ Payload(fs, s) = ChunkBytes(ZLib, m.regions[s]) /\ Payload(fs, s) # None
              /\ Decodes(fs, s) /\ Payload(fs, s)[3] = m.regions[s]
<1>1. CASE m.regions[s] = None
  BY <1>1, RegionSlots DEF Payload
<1>2. CASE m.regions[s] # None
  <2>1. Payload(fs, s) = ChunkBytes(ZLib, m.regions[s])
    BY <1>2, RegionSlots DEF Payload
  <2>2. ChunkBytes(ZLib, m.regions[s]) \in Bytes
    BY <1>2, BytesLemma, FormsAssumption DEF GoodManifests
  <2>3. Payload(fs, s) # None
    BY <2>1, <2>2, DataAssumption
  <2>4. Decodes(fs, s)
    BY <1>2, <2>1, RegionSlots DEF Decodes, ChunkBytes
  <2> QED
    BY <1>2, <2>1, <2>3, <2>4 DEF ChunkBytes
<1> QED
  BY <1>1, <1>2

\* The game sees the chunks and files it has, and nothing else matters.
LEMMA ViewSame ==
  ASSUME NEW fs, NEW gs, \A p \in {Region, Dat} \cup Slots \cup Others : fs[p] = gs[p]
  PROVE  View(fs) = View(gs)
<1>1. \A s \in Slots : Payload(fs, s) = Payload(gs, s)
  BY DEF Payload
<1>2. \A s \in Slots : Decodes(fs, s) = Decodes(gs, s)
  BY <1>1 DEF Decodes
<1>3. [s \in Slots |-> IF fs[Region] # None /\ Payload(fs, s) # None /\ Decodes(fs, s)
                       THEN Payload(fs, s)[3] ELSE None]
      = [s \in Slots |-> IF gs[Region] # None /\ Payload(gs, s) # None /\ Decodes(gs, s)
                         THEN Payload(gs, s)[3] ELSE None]
  BY <1>1, <1>2
<1>4. [p \in {Dat} \cup Others |-> fs[p]] = [p \in {Dat} \cup Others |-> gs[p]]
  OBVIOUS
<1> QED
  BY <1>3, <1>4, Zenon DEF View

\* A snapshot written back is the world the game saw.
LEMMA GivesBack ==
  ASSUME ZLibSpills, NEW fs \in [Paths -> Good \cup {None}], NEW ds \in SUBSET Dirs
  PROVE  View(Result(build(fs, ds, Paths \cup Dirs))) = View(fs)
<1> DEFINE m == build(fs, ds, Paths \cup Dirs)
           r == Result(m)
<1>0. m \in GoodManifests /\ fs \in [Paths -> Bytes \cup {None}]
  BY BuildGood, GoodLemma
<1>1. /\ m.regions = IF IsRegion(fs) THEN try_chunks(fs) ELSE None
      /\ m.nbt = IF IsNbt(fs) THEN fs[Dat][2] ELSE None
      /\ m.blobs = [p \in Paths |-> IF IsBlob(fs, p) THEN fs[p] ELSE None]
  BY DEF build, Paths
<1>2. r = [p \in Paths |-> IF m.blobs[p] # None THEN m.blobs[p]
                   ELSE IF p = Dat /\ m.nbt # None THEN NbtBytes(m.nbt)
                   ELSE IF p = Region /\ m.regions # None THEN RegionOf(m)
                   ELSE None]
  BY DEF Result
<1> HIDE DEF m, r
<1>3. \A p \in Slots \cup Others : r[p] = fs[p]
  BY <1>1, <1>2, PathsAssumption DEF IsBlob, Paths
<1>4. r[Dat] = fs[Dat]
  <2>1. CASE IsNbt(fs)
    <3>1. fs[Dat] \in Bytes /\ fs[Dat][1] = "nbt"
      BY <1>0, <2>1 DEF IsNbt, Paths
    <3>2. fs[Dat][2] \in Datas /\ fs[Dat] = NbtBytes(fs[Dat][2])
      BY <3>1, KindsLemma DEF RegionBytes, ChunkBytes, NbtBytes, RawBytes, Truncated
    <3>3. m.nbt = fs[Dat][2] /\ m.nbt # None /\ m.blobs[Dat] = None
      BY <1>1, <2>1, <3>2, DataAssumption DEF IsBlob, Paths
    <3> QED
      BY <1>2, <3>2, <3>3 DEF Paths
  <2>2. CASE ~IsNbt(fs)
    BY <1>1, <1>2, <2>2, PathsAssumption DEF IsBlob, Paths
  <2> QED
    BY <2>1, <2>2
<1>5. CASE ~IsRegion(fs)
  <2>1. r[Region] = fs[Region]
    BY <1>1, <1>2, <1>5, PathsAssumption DEF IsBlob, Paths
  <2> QED
    BY <1>3, <1>4, <2>1, ViewSame DEF m, r
<1>6. CASE IsRegion(fs)
  <2>1. m.regions = try_chunks(fs) /\ fs[Region] # None /\ fs[Region] \in Bytes
    BY <1>0, <1>1, <1>6 DEF IsRegion, Paths
  <2>2. m.regions # None
    BY <2>1, <1>0, PayloadLemma, DataAssumption, <1>6 DEF try_chunks, IsRegion
  <2>3. r[Region] = RegionOf(m) /\ RegionOf(m) # None
    <3>1. m.blobs[Region] = None
      BY <1>1, <1>6 DEF IsBlob, Paths
    <3> QED
      BY <1>0, <1>2, <2>2, <3>1, PathsAssumption, WritesGood, GoodLemma DEF Paths
  <2>4. ASSUME NEW s \in Slots
        PROVE  /\ m.regions[s] = IF Payload(fs, s) = None THEN None ELSE Payload(fs, s)[3]
               /\ m.regions[s] \in Spills => fs[s] = ChunkBytes(ZLib, m.regions[s])
               /\ Payload(fs, s) # None => m.regions[s] # None /\ Decodes(fs, s)
    <3>1. m.regions[s] = IF Payload(fs, s) = None THEN None ELSE Payload(fs, s)[3]
      BY <2>1 DEF try_chunks
    <3>2. Payload(fs, s) # None => m.regions[s] # None /\ Decodes(fs, s)
      BY <3>1, <1>0, <2>1, <1>6, PayloadLemma DEF IsRegion
    <3>3. ASSUME m.regions[s] \in Spills PROVE fs[s] = ChunkBytes(ZLib, m.regions[s])
      <4> DEFINE slot == SlotsOf(fs[Region])[s]
                 b == Payload(fs, s)
      <4>1. b # None /\ b[3] \in Spills /\ b \in Bytes /\ b[1] = "chunk"
        BY <3>1, <3>2, <3>3, <1>0, <2>1, DataAssumption, PayloadLemma DEF Decodes
      <4>2. slot # None /\ slot.body # External => slot.body \notin Spills
        <5>1. Sane(fs[Region])
          BY <2>1 DEF Good, Paths
        <5> QED
          BY <5>1 DEF Sane, SlotsOf
      <4>3. slot # None /\ slot.body # External => b = ChunkBytes(slot.scheme, slot.body)
        BY DEF Payload
      <4>4. slot # None /\ slot.body = External
        BY <4>1, <4>2, <4>3 DEF Payload, ChunkBytes
      <4>5. b = fs[s] /\ s \in Paths
        BY <4>4 DEF Payload, Paths
      <4>6. Sane(b)
        BY <4>1, <4>5 DEF Good
      <4>7. b[2] = ZLib
        BY <4>1, <4>6 DEF Sane
      <4> QED
        BY <3>1, <4>1, <4>5, <4>7, ChunkKind
    <3> QED
      BY <3>1, <3>2, <3>3
  <2>5. ASSUME NEW s \in Slots
        PROVE  IF m.regions[s] = None THEN Payload(r, s) = None
               ELSE /\ Payload(r, s) # None /\ Decodes(r, s)
                    /\ Payload(r, s)[3] = m.regions[s]
    <3>1. m.regions[s] \in Spills => r[s] = ChunkBytes(ZLib, m.regions[s])
      BY <1>3, <2>4
    <3> QED
      BY <1>0, <2>2, <2>3, <3>1, RegionReads, ZenonT(60)
  <2>6. \A s \in Slots :
          (IF r[Region] # None /\ Payload(r, s) # None /\ Decodes(r, s)
           THEN Payload(r, s)[3] ELSE None)
          = (IF fs[Region] # None /\ Payload(fs, s) # None /\ Decodes(fs, s)
             THEN Payload(fs, s)[3] ELSE None)
    BY <2>1, <2>3, <2>4, <2>5
  <2>7. [s \in Slots |-> IF r[Region] # None /\ Payload(r, s) # None /\ Decodes(r, s)
                         THEN Payload(r, s)[3] ELSE None]
        = [s \in Slots |-> IF fs[Region] # None /\ Payload(fs, s) # None /\ Decodes(fs, s)
                           THEN Payload(fs, s)[3] ELSE None]
    BY <2>6, Zenon
  <2>8. [p \in {Dat} \cup Others |-> r[p]] = [p \in {Dat} \cup Others |-> fs[p]]
    BY <1>3, <1>4
  <2>9. View(r) = View(fs)
    BY <2>7, <2>8, Zenon DEF View
  <2> QED
    BY <2>9 DEF r, m
<1> QED
  BY <1>5, <1>6

\* Whether a region decodes depends on it and its .mcc files.
LEMMA IsRegionSame ==
  ASSUME NEW fs, NEW gs, \A p \in {Region} \cup Slots : fs[p] = gs[p]
  PROVE  IsRegion(fs) = IsRegion(gs)
<1>1. \A s \in Slots : Payload(fs, s) = Payload(gs, s)
  BY DEF Payload
<1>2. \A s \in Slots : Decodes(fs, s) = Decodes(gs, s)
  BY <1>1 DEF Decodes
<1> QED
  BY <1>1, <1>2 DEF IsRegion

\* A world written from a manifest that lists what it spills is classified as
\* the manifest has it, but for directories left over and for those in which
\* the manifest has a file.
LEMMA CleanAfter ==
  ASSUME NEW m \in GoodManifests, SpillsListed(m), ~IsRegion(m.blobs),
         NEW ds \in SUBSET Dirs, m.empty_dirs \subseteq ds
  PROVE  Changed(m, build(Result(m), ds, Paths \cup Dirs))
           \subseteq (Dirs \ m.empty_dirs) \cup Homes(Keys(m))
<1> DEFINE r == Result(m)
           n == build(r, ds, Paths \cup Dirs)
<1>0. m.blobs \in GoodBlobs /\ m.blobs \in [Paths -> Good \cup {None}]
  BY DEF GoodManifests, GoodBlobs
<1>1. r = [p \in Paths |-> IF m.blobs[p] # None THEN m.blobs[p]
                   ELSE IF p = Dat /\ m.nbt # None THEN NbtBytes(m.nbt)
                   ELSE IF p = Region /\ m.regions # None THEN RegionOf(m)
                   ELSE None]
  BY DEF Result
<1>2. /\ n.regions = IF IsRegion(r) THEN try_chunks(r) ELSE None
      /\ n.nbt = IF IsNbt(r) THEN r[Dat][2] ELSE None
      /\ n.blobs = [p \in Paths |-> IF IsBlob(r, p) THEN r[p] ELSE None]
  BY DEF build, Paths
<1>2d. n.empty_dirs = EmptyDirs(r, ds) /\ n.empty_dirs \subseteq Dirs
  BY DEF build, EmptyDirs
<1> HIDE DEF r, n
<1>3. \A p \in Slots \cup Others \cup Skipped : p \in Paths /\ r[p] = m.blobs[p]
  BY <1>1, PathsAssumption DEF Paths
<1>4. \A p \in Slots \cup Others \cup Skipped : n.blobs[p] = m.blobs[p] /\ p # Region /\ p # Dat
  <2>1. \A p \in Skipped : m.blobs[p] = None
    BY <1>0 DEF GoodBlobs
  <2> QED
    BY <1>2, <1>3, <2>1, PathsAssumption DEF IsBlob
<1>5. /\ n.blobs[Dat] = m.blobs[Dat]
      /\ m.blobs[Dat] = None => n.nbt = m.nbt
  <2>0. Dat \in Paths /\ Dat # Region /\ Dat \notin Skipped
    BY PathsAssumption DEF Paths
  <2>1. CASE m.blobs[Dat] # None
    <3>1. r[Dat] = m.blobs[Dat] /\ ~IsNbt(r)
      BY <1>0, <1>1, <2>0, <2>1 DEF GoodBlobs, IsNbt
    <3> QED
      BY <1>2, <2>0, <2>1, <3>1 DEF IsBlob
  <2>2. CASE m.blobs[Dat] = None /\ m.nbt # None
    <3>1. r[Dat] = NbtBytes(m.nbt) /\ r[Dat] # None
      BY <1>1, <2>0, <2>2, WritesGood, GoodLemma
    <3>2. IsNbt(r) /\ r[Dat][2] = m.nbt
      BY <3>1 DEF IsNbt, NbtBytes
    <3> QED
      BY <1>2, <2>0, <2>2, <3>2 DEF IsBlob
  <2>3. CASE m.blobs[Dat] = None /\ m.nbt = None
    <3>1. r[Dat] = None
      BY <1>1, <2>0, <2>3
    <3> QED
      BY <1>2, <2>0, <2>3, <3>1 DEF IsBlob, IsNbt
  <2> QED
    BY <2>1, <2>2, <2>3
<1>6. /\ n.blobs[Region] = m.blobs[Region]
      /\ m.blobs[Region] = None => n.regions = m.regions
  <2>0. Region \in Paths /\ Dat # Region /\ Region \notin Skipped
    BY PathsAssumption DEF Paths
  <2>1. CASE m.blobs[Region] # None
    <3>1. r[Region] = m.blobs[Region]
      BY <1>1, <2>0, <2>1
    <3>2. ~IsRegion(r)
      BY <1>3, <3>1, IsRegionSame
    <3> QED
      BY <1>2, <2>0, <2>1, <3>1, <3>2 DEF IsBlob
  <2>2. CASE m.blobs[Region] = None /\ m.regions # None
    <3>1. r[Region] = RegionOf(m) /\ r[Region] # None
      BY <1>1, <2>0, <2>2, WritesGood, GoodLemma
    <3>2. m.regions \in [Slots -> Chunks \cup {None}] /\ RegionOf(m)[1] = "region"
      BY <2>2 DEF GoodManifests, RegionOf, RegionBytes
    <3>3. ASSUME NEW s \in Slots
          PROVE  IF m.regions[s] = None THEN Payload(r, s) = None
                 ELSE /\ Payload(r, s) # None /\ Decodes(r, s)
                      /\ Payload(r, s)[3] = m.regions[s]
      <4>1. m.regions[s] \in Spills => r[s] = ChunkBytes(ZLib, m.regions[s])
        BY <1>3, <2>2 DEF SpillsListed
      <4> QED
        BY <2>2, <3>1, <4>1, RegionReads, Zenon
    <3>4. IsRegion(r)
      BY <3>1, <3>2, <3>3 DEF IsRegion
    <3>5. try_chunks(r) = m.regions
      BY <3>2, <3>3 DEF try_chunks
    <3> QED
      BY <1>2, <2>0, <2>2, <3>4, <3>5 DEF IsBlob
  <2>3. CASE m.blobs[Region] = None /\ m.regions = None
    <3>1. r[Region] = None
      BY <1>1, <2>0, <2>3
    <3> QED
      BY <1>2, <2>0, <2>3, <3>1 DEF IsBlob, IsRegion
  <2> QED
    BY <2>1, <2>2, <2>3
<1>7. \A p \in Paths : flatten(m)[p] = flatten(n)[p]
  <2> SUFFICES ASSUME NEW p \in Paths PROVE flatten(m)[p] = flatten(n)[p]
    OBVIOUS
  <2>1. n.blobs[p] = m.blobs[p]
    BY <1>4, <1>5, <1>6 DEF Paths
  <2>2. p \notin Dirs /\ p \notin m.empty_dirs /\ p \notin n.empty_dirs
    BY <1>2d, PathsAssumption DEF GoodManifests
  <2> QED
    BY <1>5, <1>6, <2>1, <2>2 DEF flatten
<1>8. ASSUME NEW d \in m.empty_dirs, d \notin Homes(Keys(m))
      PROVE  flatten(m)[d] = flatten(n)[d]
  <2>1. d \in Dirs /\ d \in ds
    BY DEF GoodManifests
  <2>2. \A p \in Inside[d] : p \in Paths \ Keys(m)
    BY <1>8, <2>1, InsideAssumption DEF Homes
  <2>3. \A p \in Paths \ Keys(m) : r[p] = None
    BY <1>1 DEF Keys
  <2>4. d \in n.empty_dirs
    BY <1>2d, <2>1, <2>2, <2>3 DEF EmptyDirs
  <2> QED
    BY <2>1, <2>4 DEF flatten
<1>9. Changed(m, n) \subseteq (Dirs \ m.empty_dirs) \cup Homes(Keys(m))
  BY <1>7, <1>8 DEF Changed
<1> QED
  BY <1>9 DEF n, r

-----------------------------------------------------------------------------
(* The steps of a command.                                                 *)

FileSteps == {"spill", "regions", "nbt", "blobs", "prune"}
StepNames == FileSteps \cup {"dirs", "clear", "head", "truncate", "stack"}

Pending(todo, x) == \E i \in 1 .. Len(todo) : todo[i] = x

\* Blobs are written after what they fall back from, and prune comes last.
Ordered(todo) ==
  \A i \in 1 .. Len(todo) :
    /\ todo[i] \in {"spill", "regions", "nbt"} => \E j \in i + 1 .. Len(todo) : todo[j] = "blobs"
    /\ todo[i] \in FileSteps \ {"prune"} => \E j \in i + 1 .. Len(todo) : todo[j] = "prune"

\* A push: the stack is rewritten before any file is.
StackFirst(todo) ==
  /\ \A i, j \in 1 .. Len(todo) :
       i < j /\ todo[i] \in FileSteps => todo[j] \notin {"truncate", "stack"}
  /\ \A i \in 1 .. Len(todo) :
       todo[i] = "truncate" => \E j \in i + 1 .. Len(todo) : todo[j] = "stack"

\* A pop: it is rewritten after all of them are.
StackLast(todo) ==
  \A i, j \in 1 .. Len(todo) :
    i < j /\ todo[i] \in {"truncate", "stack"} => todo[j] \notin FileSteps

\* All that a checkout of a whole commit is to do.
Full(todo) ==
  Ordered(todo) /\ \A x \in {"regions", "nbt", "blobs", "dirs", "prune"} : Pending(todo, x)

\* The first step, and what is left after it.
LEMMA TailLemma ==
  ASSUME NEW todo \in Seq(StepNames), todo # <<>>
  PROVE  /\ Head(todo) \in StepNames /\ Tail(todo) \in Seq(StepNames)
         /\ Len(todo) = 1 => Tail(todo) = <<>>
         /\ Len(todo) # 1 => Tail(todo) # <<>>
         /\ \A x : Pending(todo, x) <=> x = Head(todo) \/ Pending(Tail(todo), x)
<1>1. /\ Head(todo) \in StepNames /\ Tail(todo) \in Seq(StepNames)
      /\ Len(Tail(todo)) = Len(todo) - 1 /\ Len(todo) \in Nat /\ Len(todo) > 0
      /\ \A i \in 1 .. Len(todo) - 1 : Tail(todo)[i] = todo[i + 1]
      /\ Head(todo) = todo[1]
  BY HeadTailProperties, EmptySeq, LenProperties
<1>2. (Len(todo) = 1 => Tail(todo) = <<>>) /\ (Len(todo) # 1 => Tail(todo) # <<>>)
  <2>1. \A s \in Seq(StepNames) : s = <<>> <=> Len(s) = 0
    BY EmptySeq
  <2>2. Tail(todo) = <<>> <=> Len(Tail(todo)) = 0
    BY <1>1, <2>1, Zenon
  <2>3. Len(todo) = 1 <=> Len(Tail(todo)) = 0
    BY <1>1
  <2> QED
    BY <2>2, <2>3, Zenon
<1>3. ASSUME NEW x PROVE Pending(todo, x) <=> x = Head(todo) \/ Pending(Tail(todo), x)
  <2>1. ASSUME Pending(todo, x), x # Head(todo) PROVE Pending(Tail(todo), x)
    <3>1. PICK i \in 1 .. Len(todo) : todo[i] = x
      BY <2>1 DEF Pending
    <3>2. i - 1 \in 1 .. Len(Tail(todo)) /\ Tail(todo)[i - 1] = x
      BY <1>1, <2>1, <3>1
    <3> QED
      BY <3>2 DEF Pending
  <2>2. ASSUME Pending(Tail(todo), x) PROVE Pending(todo, x)
    <3>1. PICK i \in 1 .. Len(Tail(todo)) : Tail(todo)[i] = x
      BY <2>2 DEF Pending
    <3>2. i + 1 \in 1 .. Len(todo) /\ todo[i + 1] = x
      BY <1>1, <3>1
    <3> QED
      BY <3>2 DEF Pending
  <2>3. Pending(todo, Head(todo))
    BY <1>1 DEF Pending
  <2> QED
    BY <2>1, <2>2, <2>3
<1> QED
  BY <1>1, <1>2, <1>3

\* The orders are those of the rest, too.
LEMMA TailOrders ==
  ASSUME NEW todo \in Seq(StepNames), todo # <<>>
  PROVE  /\ Ordered(todo) =>
              /\ Ordered(Tail(todo))
              /\ Head(todo) \in {"spill", "regions", "nbt"} => Pending(Tail(todo), "blobs")
              /\ Head(todo) \in FileSteps \ {"prune"} => Pending(Tail(todo), "prune")
         /\ StackFirst(todo) =>
              /\ StackFirst(Tail(todo))
              /\ Head(todo) \in FileSteps =>
                   ~Pending(Tail(todo), "truncate") /\ ~Pending(Tail(todo), "stack")
              /\ Head(todo) = "truncate" => Pending(Tail(todo), "stack")
         /\ StackLast(todo) =>
              /\ StackLast(Tail(todo))
              /\ Head(todo) \in {"truncate", "stack"} =>
                   \A x \in FileSteps : ~Pending(Tail(todo), x)
<1> DEFINE t == Tail(todo)
           n == Len(t)
<1>1. /\ n \in Nat /\ Len(todo) = n + 1
      /\ \A i \in 1 .. n : t[i] = todo[i + 1]
      /\ Head(todo) = todo[1]
  BY HeadTailProperties, EmptySeq, LenProperties
<1> HIDE DEF t, n
<1>2. ASSUME NEW i \in 1 .. n, NEW x
      PROVE  (\E j \in (i + 1) + 1 .. n + 1 : todo[j] = x) => \E j \in i + 1 .. n : t[j] = x
  <2> SUFFICES ASSUME NEW j \in (i + 1) + 1 .. n + 1, todo[j] = x
               PROVE  \E k \in i + 1 .. n : t[k] = x
    OBVIOUS
  <2>1. j - 1 \in i + 1 .. n /\ t[j - 1] = x
    BY <1>1
  <2> QED
    BY <2>1
<1>3. ASSUME NEW x
      PROVE  (\E j \in 1 + 1 .. n + 1 : todo[j] = x) => \E j \in 1 .. n : t[j] = x
  <2> SUFFICES ASSUME NEW j \in 1 + 1 .. n + 1, todo[j] = x
               PROVE  \E k \in 1 .. n : t[k] = x
    OBVIOUS
  <2>1. j - 1 \in 1 .. n /\ t[j - 1] = x
    BY <1>1
  <2> QED
    BY <2>1
<1>4. \A i \in 1 .. n : i + 1 \in 1 .. n + 1 /\ todo[i + 1] = t[i]
  BY <1>1
<1>5. ASSUME Ordered(todo)
      PROVE  /\ Ordered(t)
             /\ Head(todo) \in {"spill", "regions", "nbt"} => Pending(t, "blobs")
             /\ Head(todo) \in FileSteps \ {"prune"} => Pending(t, "prune")
  <2>1. ASSUME NEW i \in 1 .. n, t[i] \in {"spill", "regions", "nbt"}
        PROVE  \E j \in i + 1 .. n : t[j] = "blobs"
    <3>1. \E j \in (i + 1) + 1 .. n + 1 : todo[j] = "blobs"
      BY <1>1, <1>4, <1>5, <2>1 DEF Ordered
    <3> QED
      BY <3>1, <1>2
  <2>2. ASSUME NEW i \in 1 .. n, t[i] \in FileSteps \ {"prune"}
        PROVE  \E j \in i + 1 .. n : t[j] = "prune"
    <3>1. \E j \in (i + 1) + 1 .. n + 1 : todo[j] = "prune"
      BY <1>1, <1>4, <1>5, <2>2 DEF Ordered
    <3> QED
      BY <3>1, <1>2
  <2>3. 1 \in 1 .. n + 1
    BY <1>1
  <2>4. Head(todo) \in {"spill", "regions", "nbt"} => \E j \in 1 + 1 .. n + 1 : todo[j] = "blobs"
    BY <1>1, <1>5, <2>3 DEF Ordered
  <2>5. Head(todo) \in FileSteps \ {"prune"} => \E j \in 1 + 1 .. n + 1 : todo[j] = "prune"
    BY <1>1, <1>5, <2>3 DEF Ordered
  <2> QED
    BY <2>1, <2>2, <2>4, <2>5, <1>3 DEF Ordered, Pending, n
<1>6. ASSUME StackFirst(todo)
      PROVE  /\ StackFirst(t)
             /\ Head(todo) \in FileSteps => ~Pending(t, "truncate") /\ ~Pending(t, "stack")
             /\ Head(todo) = "truncate" => Pending(t, "stack")
  <2>1. ASSUME NEW i \in 1 .. n, NEW j \in 1 .. n, i < j, t[i] \in FileSteps
        PROVE  t[j] \notin {"truncate", "stack"}
    <3>1. i + 1 < j + 1
      BY <2>1, <1>1
    <3> QED
      BY <1>1, <1>4, <1>6, <2>1, <3>1 DEF StackFirst
  <2>2. ASSUME NEW i \in 1 .. n, t[i] = "truncate" PROVE \E j \in i + 1 .. n : t[j] = "stack"
    <3>1. \E j \in (i + 1) + 1 .. n + 1 : todo[j] = "stack"
      BY <1>1, <1>4, <1>6, <2>2 DEF StackFirst
    <3> QED
      BY <3>1, <1>2
  <2>3. 1 \in 1 .. n + 1
    BY <1>1
  <2>4. ASSUME NEW j \in 1 .. n, Head(todo) \in FileSteps PROVE t[j] \notin {"truncate", "stack"}
    <3>1. 1 < j + 1
      BY <1>1
    <3> QED
      BY <1>1, <1>4, <1>6, <2>3, <2>4, <3>1 DEF StackFirst
  <2>5. Head(todo) = "truncate" => \E j \in 1 + 1 .. n + 1 : todo[j] = "stack"
    BY <1>1, <1>6, <2>3 DEF StackFirst
  <2> QED
    BY <2>1, <2>2, <2>4, <2>5, <1>3 DEF StackFirst, Pending, n
<1>7. ASSUME StackLast(todo)
      PROVE  /\ StackLast(t)
             /\ Head(todo) \in {"truncate", "stack"} => \A x \in FileSteps : ~Pending(t, x)
  <2>1. ASSUME NEW i \in 1 .. n, NEW j \in 1 .. n, i < j, t[i] \in {"truncate", "stack"}
        PROVE  t[j] \notin FileSteps
    <3>1. i + 1 < j + 1
      BY <2>1, <1>1
    <3> QED
      BY <1>1, <1>4, <1>7, <2>1, <3>1 DEF StackLast
  <2>3. 1 \in 1 .. n + 1
    BY <1>1
  <2>4. ASSUME NEW j \in 1 .. n, Head(todo) \in {"truncate", "stack"} PROVE t[j] \notin FileSteps
    <3>1. 1 < j + 1
      BY <1>1
    <3> QED
      BY <1>1, <1>4, <1>7, <2>3, <2>4, <3>1 DEF StackLast
  <2> QED
    BY <2>1, <2>4 DEF StackLast, Pending, n
<1> QED
  BY <1>5, <1>6, <1>7 DEF t

\* What is pending in two lists in a row, and in which order.
LEMMA ConcatOrders ==
  ASSUME NEW a \in Seq(StepNames), NEW b \in Seq(StepNames)
  PROVE  /\ a \o b \in Seq(StepNames)
         /\ \A x : Pending(a \o b, x) <=> Pending(a, x) \/ Pending(b, x)
         /\ Ordered(a) /\ Ordered(b) => Ordered(a \o b)
         /\ /\ StackFirst(a) /\ StackFirst(b)
            /\ \/ \A x \in FileSteps : ~Pending(a, x)
               \/ ~Pending(b, "truncate") /\ ~Pending(b, "stack")
            => StackFirst(a \o b)
         /\ /\ StackLast(a) /\ StackLast(b)
            /\ \/ \A x \in FileSteps : ~Pending(b, x)
               \/ ~Pending(a, "truncate") /\ ~Pending(a, "stack")
            => StackLast(a \o b)
<1> DEFINE w == a \o b
           k == Len(a)
           n == Len(b)
<1>1. /\ w \in Seq(StepNames) /\ Len(w) = k + n /\ k \in Nat /\ n \in Nat
      /\ \A i \in 1 .. k + n : w[i] = IF i <= k THEN a[i] ELSE b[i - k]
  BY ConcatProperties, LenProperties
<1> HIDE DEF w, k, n
<1>2. \A i \in 1 .. k : i \in 1 .. k + n /\ w[i] = a[i]
  BY <1>1
<1>3. \A i \in 1 .. n : k + i \in 1 .. k + n /\ w[k + i] = b[i]
  <2> SUFFICES ASSUME NEW i \in 1 .. n PROVE k + i \in 1 .. k + n /\ w[k + i] = b[i]
    OBVIOUS
  <2>1. k + i \in 1 .. k + n /\ ~(k + i <= k) /\ (k + i) - k = i
    BY <1>1
  <2>2. w[k + i] = IF k + i <= k THEN a[k + i] ELSE b[(k + i) - k]
    BY <1>1, <2>1
  <2> QED
    BY <2>1, <2>2
<1>4. \A i \in 1 .. k + n : \/ i \in 1 .. k /\ w[i] = a[i]
                            \/ i - k \in 1 .. n /\ w[i] = b[i - k]
  BY <1>1
<1>5. ASSUME NEW x PROVE Pending(w, x) <=> Pending(a, x) \/ Pending(b, x)
  BY <1>1, <1>2, <1>3, <1>4, ZenonT(60) DEF Pending, k, n
<1>6. ASSUME NEW i \in 1 .. k, NEW x, \E j \in i + 1 .. k : a[j] = x
      PROVE  \E j \in i + 1 .. k + n : w[j] = x
  <2>1. PICK j \in i + 1 .. k : a[j] = x
    BY <1>6
  <2>2. j \in 1 .. k /\ j \in i + 1 .. k + n
    BY <1>1
  <2> QED
    BY <1>2, <2>1, <2>2
<1>7. ASSUME NEW i \in 1 .. k + n, i - k \in 1 .. n, NEW x, \E j \in (i - k) + 1 .. n : b[j] = x
      PROVE  \E j \in i + 1 .. k + n : w[j] = x
  <2>1. PICK j \in (i - k) + 1 .. n : b[j] = x
    BY <1>7
  <2>2. j \in 1 .. n /\ k + j \in i + 1 .. k + n
    BY <1>1, <1>7
  <2> QED
    BY <1>3, <2>1, <2>2
<1>8. ASSUME Ordered(a), Ordered(b) PROVE Ordered(w)
  <2>1. ASSUME NEW i \in 1 .. k + n, w[i] \in {"spill", "regions", "nbt"}
        PROVE  \E j \in i + 1 .. k + n : w[j] = "blobs"
    <3>1. CASE i \in 1 .. k /\ w[i] = a[i]
      BY <1>6, <1>8, <2>1, <3>1 DEF Ordered, k
    <3>2. CASE i - k \in 1 .. n /\ w[i] = b[i - k]
      BY <1>7, <1>8, <2>1, <3>2 DEF Ordered, n
    <3> QED
      BY <1>4, <3>1, <3>2
  <2>2. ASSUME NEW i \in 1 .. k + n, w[i] \in FileSteps \ {"prune"}
        PROVE  \E j \in i + 1 .. k + n : w[j] = "prune"
    <3>1. CASE i \in 1 .. k /\ w[i] = a[i]
      BY <1>6, <1>8, <2>2, <3>1 DEF Ordered, k
    <3>2. CASE i - k \in 1 .. n /\ w[i] = b[i - k]
      BY <1>7, <1>8, <2>2, <3>2 DEF Ordered, n
    <3> QED
      BY <1>4, <3>1, <3>2
  <2> QED
    BY <1>1, <2>1, <2>2 DEF Ordered
<1>9. ASSUME StackFirst(a), StackFirst(b),
             \/ \A x \in FileSteps : ~Pending(a, x)
             \/ ~Pending(b, "truncate") /\ ~Pending(b, "stack")
      PROVE  StackFirst(w)
  <2>1. ASSUME NEW i \in 1 .. k + n, NEW j \in 1 .. k + n, i < j, w[i] \in FileSteps
        PROVE  w[j] \notin {"truncate", "stack"}
    <3>1. CASE i \in 1 .. k /\ j \in 1 .. k
      BY <1>2, <1>9, <2>1, <3>1 DEF StackFirst, k
    <3>2. CASE i \in 1 .. k /\ j - k \in 1 .. n
      <4>1. Pending(a, w[i])
        BY <1>2, <3>2 DEF Pending, k
      <4>2. Pending(b, w[j])
        <5>1. w[j] = b[j - k]
          BY <1>1, <3>2
        <5> QED
          BY <3>2, <5>1 DEF Pending, n
      <4> QED
        BY <1>9, <2>1, <4>1, <4>2
    <3>3. CASE i - k \in 1 .. n
      <4>1. j - k \in 1 .. n /\ i - k < j - k
        BY <1>1, <2>1, <3>3
      <4>2. w[i] = b[i - k] /\ w[j] = b[j - k]
        BY <1>1, <3>3, <4>1
      <4> QED
        BY <1>9, <2>1, <3>3, <4>1, <4>2 DEF StackFirst, n
    <3> QED
      BY <1>4, <3>1, <3>2, <3>3
  <2>2. ASSUME NEW i \in 1 .. k + n, w[i] = "truncate"
        PROVE  \E j \in i + 1 .. k + n : w[j] = "stack"
    <3>1. CASE i \in 1 .. k /\ w[i] = a[i]
      BY <1>6, <1>9, <2>2, <3>1 DEF StackFirst, k
    <3>2. CASE i - k \in 1 .. n /\ w[i] = b[i - k]
      BY <1>7, <1>9, <2>2, <3>2 DEF StackFirst, n
    <3> QED
      BY <1>4, <3>1, <3>2
  <2> QED
    BY <1>1, <2>1, <2>2 DEF StackFirst
<1>10. ASSUME StackLast(a), StackLast(b),
              \/ \A x \in FileSteps : ~Pending(b, x)
              \/ ~Pending(a, "truncate") /\ ~Pending(a, "stack")
       PROVE  StackLast(w)
  <2>1. ASSUME NEW i \in 1 .. k + n, NEW j \in 1 .. k + n, i < j, w[i] \in {"truncate", "stack"}
        PROVE  w[j] \notin FileSteps
    <3>1. CASE i \in 1 .. k /\ j \in 1 .. k
      BY <1>2, <1>10, <2>1, <3>1 DEF StackLast, k
    <3>2. CASE i \in 1 .. k /\ j - k \in 1 .. n
      <4>1. Pending(a, w[i])
        BY <1>2, <3>2 DEF Pending, k
      <4>2. Pending(b, w[j])
        <5>1. w[j] = b[j - k]
          BY <1>1, <3>2
        <5> QED
          BY <3>2, <5>1 DEF Pending, n
      <4> QED
        BY <1>10, <2>1, <4>1, <4>2
    <3>3. CASE i - k \in 1 .. n
      <4>1. j - k \in 1 .. n /\ i - k < j - k
        BY <1>1, <2>1, <3>3
      <4>2. w[i] = b[i - k] /\ w[j] = b[j - k]
        BY <1>1, <3>3, <4>1
      <4> QED
        BY <1>10, <2>1, <3>3, <4>1, <4>2 DEF StackLast, n
    <3> QED
      BY <1>4, <3>1, <3>2, <3>3
  <2> QED
    BY <1>1, <2>1 DEF StackLast
<1> QED
  BY <1>1, <1>5, <1>8, <1>9, <1>10 DEF w

\* A whole checkout, spelled out.
LEMMA CheckoutList ==
  CheckoutSteps(TRUE) = <<"spill", "regions", "nbt", "blobs", "dirs", "prune">>
<1> DEFINE a == <<"spill", "regions", "nbt", "blobs", "dirs">>
           b == <<"prune">>
           u == <<"spill", "regions", "nbt", "blobs", "dirs", "prune">>
           w == a \o b
<1>1. a \in Seq(StepNames) /\ b \in Seq(StepNames) /\ u \in Seq(StepNames)
  BY DEF StepNames, FileSteps
<1>2. Len(a) = 5 /\ Len(b) = 1 /\ Len(u) = 6
  OBVIOUS
<1>3. ASSUME NEW i \in 1 .. 6 PROVE u[i] = IF i <= 5 THEN a[i] ELSE b[i - 5]
  <2>1. i = 1 \/ i = 2 \/ i = 3 \/ i = 4 \/ i = 5 \/ i = 6
    OBVIOUS
  <2> QED
    BY <2>1
<1> HIDE DEF a, b, u
<1>0. /\ w \in Seq(StepNames) /\ Len(w) = Len(a) + Len(b)
      /\ \A i \in 1 .. Len(a) + Len(b) : w[i] = IF i <= Len(a) THEN a[i] ELSE b[i - Len(a)]
  BY <1>1, ConcatProperties
<1> HIDE DEF w
<1>4. /\ w \in Seq(StepNames) /\ Len(w) = 6
      /\ \A i \in 1 .. 6 : w[i] = IF i <= 5 THEN a[i] ELSE b[i - 5]
  BY <1>0, <1>2
<1>5. Len(w) = Len(u) /\ \A i \in 1 .. Len(w) : w[i] = u[i]
  BY <1>2, <1>3, <1>4
<1>6. w = u
  BY <1>1, <1>4, <1>5, SeqEqual, Zenon
<1> QED
  BY <1>6 DEF CheckoutSteps, a, b, u, w

\* It has everything to do, in order, and does not touch the stack.
LEMMA CheckoutOrders ==
  /\ CheckoutSteps(TRUE) \in Seq(StepNames) /\ Full(CheckoutSteps(TRUE))
  /\ StackFirst(CheckoutSteps(TRUE)) /\ StackLast(CheckoutSteps(TRUE))
  /\ ~Pending(CheckoutSteps(TRUE), "truncate") /\ ~Pending(CheckoutSteps(TRUE), "stack")
<1> DEFINE u == <<"spill", "regions", "nbt", "blobs", "dirs", "prune">>
<1>1. u \in Seq(StepNames) /\ Len(u) = 6
  BY DEF StepNames, FileSteps
<1>2. /\ u[1] = "spill" /\ u[2] = "regions" /\ u[3] = "nbt" /\ u[4] = "blobs"
      /\ u[5] = "dirs" /\ u[6] = "prune"
  OBVIOUS
<1> HIDE DEF u
<1>3. \A i \in 1 .. 6 : i = 1 \/ i = 2 \/ i = 3 \/ i = 4 \/ i = 5 \/ i = 6
  OBVIOUS
<1>4. \A i \in 1 .. 6 : u[i] \notin {"truncate", "stack"}
  BY <1>2, <1>3
<1>5. \A x \in {"regions", "nbt", "blobs", "dirs", "prune"} : \E i \in 1 .. 6 : u[i] = x
  BY <1>2
<1>6. ASSUME NEW i \in 1 .. 6, u[i] \in {"spill", "regions", "nbt"}
      PROVE  \E j \in i + 1 .. 6 : u[j] = "blobs"
  <2>1. 4 \in i + 1 .. 6
    BY <1>2, <1>3, <1>6
  <2> QED
    BY <1>2, <2>1
<1>7. ASSUME NEW i \in 1 .. 6, u[i] \in FileSteps \ {"prune"}
      PROVE  \E j \in i + 1 .. 6 : u[j] = "prune"
  <2>1. 6 \in i + 1 .. 6
    BY <1>2, <1>3, <1>7
  <2> QED
    BY <1>2, <2>1
<1>8. /\ Full(u) /\ StackFirst(u) /\ StackLast(u)
      /\ ~Pending(u, "truncate") /\ ~Pending(u, "stack")
  BY <1>1, <1>4, <1>5, <1>6, <1>7 DEF Full, Ordered, StackFirst, StackLast, Pending
<1> QED
  BY <1>1, <1>8, CheckoutList DEF u

LEMMA FullConcat ==
  ASSUME NEW a \in Seq(StepNames), NEW b \in Seq(StepNames),
         \/ Full(a) /\ Ordered(b)
         \/ Ordered(a) /\ Full(b)
  PROVE  a \o b \in Seq(StepNames) /\ Full(a \o b)
BY ConcatOrders, Zenon DEF Full

LEMMA PendingSome ==
  ASSUME NEW todo, NEW x, Pending(todo, x)
  PROVE  todo # <<>>
BY DEF Pending

\* The lists of the commands.
IsTodo(todo) == todo \in Seq(StepNames) /\ todo # <<>>

LEMMA SmallLists ==
  ASSUME NEW todo \in {<<"clear", "head">>, <<"head", "clear">>, <<"head">>, <<"clear">>, <<>>}
  PROVE  /\ todo \in Seq(StepNames) /\ Ordered(todo) /\ StackFirst(todo) /\ StackLast(todo)
         /\ \A x \in FileSteps : ~Pending(todo, x)
         /\ ~Pending(todo, "truncate") /\ ~Pending(todo, "stack")
<1>1. /\ todo \in Seq(StepNames) /\ Len(todo) \in {0, 1, 2}
      /\ \A i \in 1 .. Len(todo) : todo[i] \in {"clear", "head"}
  <2>1. CASE todo = <<"clear", "head">>
    BY <2>1 DEF StepNames
  <2>2. CASE todo = <<"head", "clear">>
    BY <2>2 DEF StepNames
  <2>3. CASE todo = <<"head">>
    BY <2>3 DEF StepNames
  <2>4. CASE todo = <<"clear">>
    BY <2>4 DEF StepNames
  <2>5. CASE todo = <<>>
    BY <2>5
  <2> QED
    BY <2>1, <2>2, <2>3, <2>4, <2>5
<1>2. \A i \in 1 .. Len(todo) : todo[i] \notin FileSteps \cup {"truncate", "stack"}
  BY <1>1 DEF FileSteps
<1> QED
  BY <1>1, <1>2 DEF Ordered, StackFirst, StackLast, Pending, FileSteps

LEMMA StackLists ==
  /\ StackSteps \in Seq(StepNames) /\ StackSteps # <<>>
  /\ Ordered(StackSteps) /\ StackFirst(StackSteps) /\ StackLast(StackSteps)
  /\ \A x \in FileSteps : ~Pending(StackSteps, x)
  /\ Pending(StackSteps, "stack")
<1>1. /\ StackSteps \in Seq(StepNames) /\ Len(StackSteps) = 2 /\ StackSteps # <<>>
      /\ StackSteps[1] = "truncate" /\ StackSteps[2] = "stack"
  BY DEF StackSteps, StepNames
<1>2. \A i \in 1 .. 2 : i = 1 \/ i = 2
  OBVIOUS
<1>3. \A i \in 1 .. 2 : StackSteps[i] \notin FileSteps
  BY <1>1, <1>2 DEF FileSteps
<1>4. \A i \in 1 .. 2 : StackSteps[i] = "truncate" => \E j \in i + 1 .. 2 : StackSteps[j] = "stack"
  BY <1>1, <1>2
<1> QED
  BY <1>1, <1>3, <1>4 DEF Ordered, StackFirst, StackLast, Pending, FileSteps

LEMMA CommandLists ==
  /\ IsTodo(CheckoutSteps(FALSE)) /\ IsTodo(CheckoutSteps(FALSE) \o <<"clear", "head">>)
  /\ LET todo == CheckoutSteps(TRUE) \o <<"clear", "head">> IN IsTodo(todo) /\ Full(todo)
  /\ LET todo == <<"head", "clear">> \o CheckoutSteps(TRUE) IN IsTodo(todo) /\ Full(todo)
  /\ LET todo == <<"head">> \o CheckoutSteps(TRUE) \o <<"clear">> IN IsTodo(todo) /\ Full(todo)
<1>1. CheckoutSteps(FALSE) = <<"spill", "regions", "nbt", "blobs", "dirs">> \o <<>>
  BY DEF CheckoutSteps
<1>2. LET s == <<"spill", "regions", "nbt", "blobs", "dirs">>
      IN  s \in Seq(StepNames) /\ Pending(s, "blobs")
  <2> DEFINE s == <<"spill", "regions", "nbt", "blobs", "dirs">>
  <2>1. s \in Seq(StepNames) /\ Len(s) = 5 /\ s[4] = "blobs"
    BY DEF StepNames, FileSteps
  <2> HIDE DEF s
  <2>2. Pending(s, "blobs")
    BY <2>1 DEF Pending
  <2> QED
    BY <2>1, <2>2 DEF s
<1>3. CheckoutSteps(FALSE) \in Seq(StepNames) /\ Pending(CheckoutSteps(FALSE), "blobs")
  <2> DEFINE s == <<"spill", "regions", "nbt", "blobs", "dirs">>
  <2>1. s \in Seq(StepNames) /\ Pending(s, "blobs") /\ CheckoutSteps(FALSE) = s \o <<>>
    BY <1>1, <1>2
  <2> HIDE DEF s
  <2>2. <<>> \in Seq(StepNames)
    OBVIOUS
  <2> QED
    BY <2>1, <2>2, ConcatOrders, Zenon
<1>4. LET todo == CheckoutSteps(FALSE) \o <<"clear", "head">>
      IN  todo \in Seq(StepNames) /\ Pending(todo, "blobs")
  BY <1>3, SmallLists, ConcatOrders, Zenon
<1>5. LET todo == CheckoutSteps(TRUE) \o <<"clear", "head">>
      IN  todo \in Seq(StepNames) /\ Full(todo)
  BY CheckoutOrders, SmallLists, ConcatOrders, Zenon DEF Full
<1>6. LET todo == <<"head", "clear">> \o CheckoutSteps(TRUE)
      IN  todo \in Seq(StepNames) /\ Full(todo)
  BY CheckoutOrders, SmallLists, ConcatOrders, Zenon DEF Full
<1>7. LET todo == <<"head">> \o CheckoutSteps(TRUE)
      IN  todo \in Seq(StepNames) /\ Full(todo)
  BY CheckoutOrders, SmallLists, ConcatOrders, Zenon DEF Full
<1>8. LET todo == <<"head">> \o CheckoutSteps(TRUE) \o <<"clear">>
      IN  todo \in Seq(StepNames) /\ Full(todo)
  BY <1>7, SmallLists, ConcatOrders, ZenonT(60) DEF Full
<1> QED
  BY <1>3, <1>4, <1>5, <1>6, <1>8, PendingSome DEF IsTodo, Full

LEMMA StashLists ==
  /\ LET todo == StackSteps \o <<>> \o <<"clear">>
     IN  IsTodo(todo) /\ StackFirst(todo) /\ Pending(todo, "stack")
  /\ LET todo == StackSteps \o CheckoutSteps(TRUE) \o <<"clear">>
     IN  IsTodo(todo) /\ Full(todo) /\ StackFirst(todo) /\ Pending(todo, "stack")
  /\ LET todo == CheckoutSteps(TRUE) \o StackSteps \o <<"clear">>
     IN  IsTodo(todo) /\ Full(todo) /\ StackLast(todo)
<1>1. LET todo == StackSteps \o <<>>
      IN  todo \in Seq(StepNames) /\ StackFirst(todo) /\ Pending(todo, "stack")
  BY StackLists, SmallLists, ConcatOrders, ZenonT(60)
<1>2. LET todo == StackSteps \o <<>> \o <<"clear">>
      IN  todo \in Seq(StepNames) /\ StackFirst(todo) /\ Pending(todo, "stack")
  BY <1>1, SmallLists, ConcatOrders, ZenonT(60)
<1>3. LET todo == StackSteps \o CheckoutSteps(TRUE)
      IN  todo \in Seq(StepNames) /\ Full(todo) /\ StackFirst(todo) /\ Pending(todo, "stack")
  <2>1. LET todo == StackSteps \o CheckoutSteps(TRUE)
        IN  StackFirst(todo) /\ Pending(todo, "stack")
    BY StackLists, CheckoutOrders, ConcatOrders, ZenonT(60)
  <2> QED
    BY <2>1, StackLists, CheckoutOrders, FullConcat, ZenonT(60)
<1>4. LET todo == StackSteps \o CheckoutSteps(TRUE) \o <<"clear">>
      IN  todo \in Seq(StepNames) /\ Full(todo) /\ StackFirst(todo) /\ Pending(todo, "stack")
  <2>1. LET todo == StackSteps \o CheckoutSteps(TRUE) \o <<"clear">>
        IN  StackFirst(todo) /\ Pending(todo, "stack")
    BY <1>3, SmallLists, ConcatOrders, ZenonT(60)
  <2>2. <<"clear">> \in Seq(StepNames) /\ Ordered(<<"clear">>)
    BY SmallLists, ZenonT(60)
  <2> DEFINE a == StackSteps \o CheckoutSteps(TRUE)
             b == <<"clear">>
  <2>3. a \in Seq(StepNames) /\ Full(a) /\ b \in Seq(StepNames) /\ Ordered(b)
    BY <1>3, <2>2, ZenonT(60)
  <2> HIDE DEF a, b
  <2>4. a \o b \in Seq(StepNames) /\ Full(a \o b)
    BY <2>3, FullConcat
  <2> QED
    BY <2>1, <2>4, ZenonT(60) DEF a, b
<1>5. LET todo == CheckoutSteps(TRUE) \o StackSteps
      IN  todo \in Seq(StepNames) /\ Full(todo) /\ StackLast(todo)
  BY StackLists, CheckoutOrders, ConcatOrders, ZenonT(60) DEF Full
<1>6. LET todo == CheckoutSteps(TRUE) \o StackSteps \o <<"clear">>
      IN  todo \in Seq(StepNames) /\ Full(todo) /\ StackLast(todo)
  BY <1>5, SmallLists, ConcatOrders, Zenon DEF Full
<1> QED
  BY <1>2, <1>4, <1>6, PendingSome DEF IsTodo, Full

-----------------------------------------------------------------------------
(* Types.                                                                  *)

Jobs ==
  [todo : Seq(StepNames), m : GoodManifests, c : Made \cup {0}, to : Made \cup {0},
   stack : Seq(Made)]

Typed ==
  /\ files \in [Paths -> Good \cup {None}] /\ dirs \in SUBSET Dirs
  /\ trees \in [Commits -> GoodManifests \cup {None}]
  /\ parent \in [Commits -> Made \cup {0}]
  /\ head \in Made \cup {0}
  /\ index \in GoodManifests \cup {None}
  /\ stash \in Seq(Made)
  /\ job \in Jobs /\ (job # Idle => job.todo # <<>>)
  /\ fresh \in Made \cup {0} /\ shelved \in Made \cup {0}
  /\ saved \in [Commits -> Views \cup {None}]

LEMMA TypedGives == Typed => WorktreeTypeOK
<1> SUFFICES ASSUME Typed PROVE WorktreeTypeOK
  OBVIOUS
<1>1. files \in [Paths -> Bytes \cup {None}]
  BY GoodLemma DEF Typed
<1>2. trees \in [Commits -> Manifests \cup {None}] /\ index \in Manifests \cup {None}
  BY GoodManifestsLemma DEF Typed
<1>3. job.m \in Manifests /\ job.stack \in Seq(Made) /\ {job.c, job.to} \subseteq Made \cup {0}
  BY GoodManifestsLemma DEF Typed, Jobs
<1> QED
  BY <1>1, <1>2, <1>3 DEF Typed, WorktreeTypeOK

LEMMA IdleJob == Idle \in Jobs /\ Idle.todo = <<>>
BY GoodManifestsLemma, EmptySeq DEF Idle, Jobs

\* What is made of the trees that are there.
LEMMA MadeTrees ==
  ASSUME Typed
  PROVE  /\ \A c \in Made : c \in Commits /\ trees[c] \in GoodManifests
         /\ \A c \in Made \cup {0} : TreeOf(c) \in GoodManifests
         /\ Effective \in GoodManifests
         /\ 0 \notin Commits
         /\ snapshot \in GoodManifests
         /\ View(files) \in Views
<1>1. \A c \in Made : c \in Commits /\ trees[c] \in GoodManifests
  BY DEF Typed, Made
<1>2. \A c \in Made \cup {0} : TreeOf(c) \in GoodManifests
  BY <1>1, GoodManifestsLemma DEF TreeOf
<1>3. Effective \in GoodManifests
  BY <1>2 DEF Effective, Typed
<1>4. snapshot \in GoodManifests
  BY BuildGood DEF snapshot, Typed
<1>5. View(files) \in Views
  BY GoodLemma, ViewLemma DEF Typed
<1> QED
  BY <1>1, <1>2, <1>3, <1>4, <1>5, DataAssumption DEF Commits

\* A new commit: what was made stays as it is.
LEMMA CommitLemma ==
  ASSUME Typed, NEW new \in Commits, NEW m \in GoodManifests, NEW p \in Made \cup {0},
         NEW v \in Views \cup {None}, Commit(new, m, p, v)
  PROVE  /\ Made' = Made \cup {new} /\ new \notin Made
         /\ trees' \in [Commits -> GoodManifests \cup {None}]
         /\ parent' \in [Commits -> Made' \cup {0}]
         /\ saved' \in [Commits -> Views \cup {None}]
         /\ trees'[new] = m /\ saved'[new] = v
         /\ \A c \in Made : trees'[c] = trees[c] /\ saved'[c] = saved[c]
<1>1. /\ trees[new] = None /\ trees' = [trees EXCEPT ![new] = m]
      /\ parent' = [parent EXCEPT ![new] = p] /\ saved' = [saved EXCEPT ![new] = v]
  BY DEF Commit
<1>2. /\ trees' \in [Commits -> GoodManifests \cup {None}]
      /\ saved' \in [Commits -> Views \cup {None}]
      /\ trees'[new] = m /\ saved'[new] = v
      /\ \A c \in Commits \ {new} : trees'[c] = trees[c] /\ saved'[c] = saved[c]
  BY <1>1 DEF Typed
<1>3. m # None
  BY GoodManifestsLemma
<1>4. Made' = Made \cup {new} /\ new \notin Made
  BY <1>1, <1>2, <1>3 DEF Made
<1>5. parent' \in [Commits -> Made' \cup {0}]
  BY <1>1, <1>4 DEF Typed
<1> QED
  BY <1>1, <1>2, <1>4, <1>5 DEF Made

LEMMA SeqGrows ==
  ASSUME NEW S, NEW T, S \subseteq T, NEW s \in Seq(S)
  PROVE  s \in Seq(T)
BY SeqMonotonic

\* Nothing is committed: what a command has to see to.
LEMMA TypedSame ==
  ASSUME Typed, UNCHANGED <<trees, parent, saved>>,
         files' \in [Paths -> Good \cup {None}], dirs' \in SUBSET Dirs,
         head' \in Made \cup {0}, index' \in GoodManifests \cup {None},
         stash' \in Seq(Made), job' \in Jobs, job' # Idle => job'.todo # <<>>,
         fresh' \in Made \cup {0}, shelved' \in Made \cup {0}
  PROVE  Typed'
<1>1. Made' = Made
  BY DEF Made
<1>2. Jobs' = Jobs
  BY <1>1 DEF Jobs
<1>3. Idle' = Idle
  BY DEF Idle, EmptyManifest
<1> QED
  BY <1>1, <1>2, <1>3 DEF Typed

\* One commit is made.
LEMMA TypedCommit ==
  ASSUME Typed, NEW new \in Commits, NEW m \in GoodManifests, NEW p \in Made \cup {0},
         NEW v \in Views \cup {None}, Commit(new, m, p, v), UNCHANGED <<files, dirs>>,
         head' \in Made' \cup {0}, index' \in GoodManifests \cup {None},
         stash' \in Seq(Made'), job' \in Jobs', job' # Idle => job'.todo # <<>>,
         fresh' \in Made' \cup {0}, shelved' \in Made' \cup {0}
  PROVE  Typed'
BY CommitLemma DEF Typed

\* A job of typed parts.
LEMMA JobLemma ==
  ASSUME NEW S, NEW todo, IsTodo(todo), NEW m \in GoodManifests,
         NEW c \in S \cup {0}, NEW to \in S \cup {0}, NEW stack \in Seq(S)
  PROVE  /\ Job(todo, m, c, to, stack) \in
              [todo : Seq(StepNames), m : GoodManifests, c : S \cup {0}, to : S \cup {0},
               stack : Seq(S)]
         /\ Job(todo, m, c, to, stack).todo = todo /\ Job(todo, m, c, to, stack).todo # <<>>
         /\ Job(todo, m, c, to, stack) # Idle
         /\ Job(todo, m, c, to, stack).m = m /\ Job(todo, m, c, to, stack).c = c
         /\ Job(todo, m, c, to, stack).stack = stack
BY DEF Job, IsTodo, Idle

\* A file of the world is written, or removed.
LEMMA WritesTyped ==
  ASSUME NEW m \in GoodManifests, NEW step
  PROVE  /\ \A p \in DOMAIN Writes(step, m) : Writes(step, m)[p] \in Good \cup {None}
         /\ step \notin FileSteps => DOMAIN Writes(step, m) = {}
<1>1. \A p \in DOMAIN SpillWrites(m) : SpillWrites(m)[p] \in Good
  BY WritesGood DEF SpillWrites
<1>2. \A p \in DOMAIN RegionWrites(m) : RegionWrites(m)[p] \in Good
  BY WritesGood DEF RegionWrites, RegionOf
<1>3. \A p \in DOMAIN NbtWrites(m) : NbtWrites(m)[p] \in Good
  BY WritesGood DEF NbtWrites
<1>4. \A p \in DOMAIN BlobWrites(m) : BlobWrites(m)[p] \in Good
  BY WritesGood DEF BlobWrites
<1>5. \A p \in DOMAIN PruneWrites(m) : PruneWrites(m)[p] = None
  BY DEF PruneWrites
<1>6. DOMAIN <<>> = {}
  OBVIOUS
<1>7. step \notin FileSteps => Writes(step, m) = <<>>
  BY DEF Writes, FileSteps
<1>8. step \in FileSteps =>
        Writes(step, m) \in {SpillWrites(m), RegionWrites(m), NbtWrites(m), BlobWrites(m),
                             PruneWrites(m)}
  BY DEF Writes, FileSteps
<1> QED
  BY <1>1, <1>2, <1>3, <1>4, <1>5, <1>6, <1>7, <1>8

LEMMA EditTyped ==
  ASSUME Typed, NEW fs \in [Paths -> Good \cup {None}], NEW ds \in SUBSET Dirs, Edit(fs, ds)
  PROVE  Typed'
<1>1. /\ files' = fs /\ dirs' = ds /\ fresh' = 0 /\ shelved' = 0
      /\ UNCHANGED <<trees, parent, head, index, stash, job, saved>>
  BY DEF Edit, Touched, repo
<1> QED
  BY <1>1, TypedSame DEF Typed

LEMMA SaveChunkTyped ==
  ASSUME Typed, NEW s \in Slots, NEW form \in GameForms, SaveChunk(s, form)
  PROVE  Typed'
<1> DEFINE old == IF files[Region] = None THEN [t \in Slots |-> None] ELSE SlotsOf(files[Region])
           far == form \in GameSpills
           val == Slot(form[1], IF far THEN External ELSE form[2])
           slots == [old EXCEPT ![s] = val]
           mcc == IF far THEN ChunkBytes(form[1], form[2]) ELSE None
           fs == [files EXCEPT ![Region] = RegionBytes(slots), ![s] = mcc]
<1>1. /\ form[1] \in Schemes /\ form[2] \in Chunks /\ s \in Paths /\ Region \in Paths
      /\ s # Region /\ form = <<form[1], form[2]>>
  BY FormsAssumption, PathsAssumption DEF Paths
<1>2. val \in SlotValues /\ val.body = IF far THEN External ELSE form[2]
  BY <1>1 DEF Slot, SlotValues
<1>3. old \in [Slots -> SlotValues \cup {None}]
  BY RegionKind, GoodLemma DEF Typed, Paths
<1>4. slots \in [Slots -> SlotValues \cup {None}]
  BY <1>2, <1>3
<1>5. RegionBytes(slots) \in Bytes
  BY <1>4, BytesLemma
<1>6. ZLibSpills => Sane(RegionBytes(slots))
  <2> SUFFICES ASSUME ZLibSpills, NEW t \in Slots, slots[t] # None
               PROVE  slots[t].body \notin Spills
    BY DEF Sane, RegionBytes
  <2>1. CASE t = s
    <3>1. slots[t] = val
      BY <1>3, <2>1
    <3> QED
      BY <1>2, <3>1, DataAssumption DEF ZLibSpills
  <2>2. CASE t # s
    <3>1. slots[t] = old[t]
      BY <1>3, <2>2
    <3>2. files[Region] # None /\ old[t] = SlotsOf(files[Region])[t] /\ old[t] # None
      BY <3>1
    <3>3. Sane(files[Region])
      BY <3>2, <1>1 DEF Typed, Good
    <3>4. files[Region][1] = "region"
      BY <3>2 DEF SlotsOf
    <3> QED
      BY <3>1, <3>2, <3>3, <3>4 DEF Sane, SlotsOf
  <2> QED
    BY <2>1, <2>2
<1>7. mcc \in Good \cup {None}
  <2>1. far => ChunkBytes(form[1], form[2]) \in Bytes
    BY <1>1, BytesLemma
  <2>2. ZLibSpills => Sane(ChunkBytes(form[1], form[2]))
    BY <1>1 DEF Sane, ChunkBytes, ZLibSpills
  <2> QED
    BY <2>1, <2>2 DEF Good
<1>8. RegionBytes(slots) \in Good
  BY <1>5, <1>6 DEF Good
<1> DEFINE ds == dirs \cup Homes(IF far THEN {Region, s} ELSE {Region})
<1>9. Edit(fs, ds)
  BY Zenon DEF SaveChunk
<1>11. ds \in SUBSET Dirs
  BY DEF Typed, Homes
<1> HIDE DEF old, far, val, slots, mcc, ds
<1>10. fs \in [Paths -> Good \cup {None}]
  BY <1>1, <1>7, <1>8 DEF Typed
<1> HIDE DEF fs
<1> QED
  BY <1>9, <1>10, <1>11, EditTyped

LEMMA SaveFileTyped ==
  ASSUME Typed, NEW p \in Paths, NEW b \in Good \cup {None}, SaveFile(p, b)
  PROVE  Typed'
<1>1. [files EXCEPT ![p] = b] \in [Paths -> Good \cup {None}]
  BY DEF Typed
<1> DEFINE ds == IF b = None THEN dirs ELSE dirs \cup Homes({p})
<1>2. ds \in SUBSET Dirs /\ Edit([files EXCEPT ![p] = b], ds)
  BY DEF Typed, Homes, SaveFile
<1> HIDE DEF ds
<1> QED
  BY <1>1, <1>2, EditTyped

LEMMA ToggleDirTyped ==
  ASSUME Typed, NEW d \in Dirs, ToggleDir(d)
  PROVE  Typed'
<1> DEFINE ds == IF d \in dirs THEN dirs \ {d} ELSE dirs \cup {d}
<1>1. ds \in SUBSET Dirs /\ Edit(files, ds)
  BY DEF Typed, ToggleDir
<1> QED
  BY <1>1, EditTyped DEF Typed

LEMMA CleanTyped ==
  ASSUME Typed, Clean
  PROVE  Typed'
<1>1. /\ dirs' = dirs /\ fresh' = 0 /\ shelved' = 0
      /\ UNCHANGED <<trees, parent, head, index, stash, job, saved>>
  BY DEF Clean, Touched, repo
<1>2. files' \in [Paths -> Good \cup {None}]
  BY DEF Clean, Typed
<1> QED
  BY <1>1, <1>2, TypedSame DEF Typed

LEMMA AddTyped ==
  ASSUME Typed, NEW scope, Add(scope)
  PROVE  Typed'
<1> DEFINE partial == build(files, dirs, scope)
           gone    == scope \ Keys(partial)
           re == IF partial.regions # None THEN partial.regions
                 ELSE IF Region \in gone THEN None ELSE Effective.regions
           nb == IF partial.nbt # None THEN partial.nbt
                 ELSE IF Dat \in gone THEN None ELSE Effective.nbt
           bl == [p \in Paths |-> IF partial.blobs[p] # None THEN partial.blobs[p]
                                  ELSE IF p \in gone THEN None ELSE Effective.blobs[p]]
           ed == (Effective.empty_dirs \ scope) \cup partial.empty_dirs
           idx == [regions |-> re, nbt |-> nb, blobs |-> bl, empty_dirs |-> ed]
<1>1. /\ index' \in {None, idx, index}
      /\ UNCHANGED <<files, dirs, trees, parent, head, stash, job, fresh, saved, shelved>>
  BY Zenon DEF Add, world, ghosts
<1>2. partial \in GoodManifests /\ Effective \in GoodManifests
  BY MadeTrees, BuildGood DEF Typed
<1> HIDE DEF partial, gone
<1>3. /\ re \in [Slots -> Chunks \cup {None}] \cup {None} /\ nb \in Datas \cup {None}
      /\ ed \in SUBSET Dirs
  BY <1>2 DEF GoodManifests
<1>4. bl \in GoodBlobs
  <2>1. partial.blobs \in GoodBlobs /\ Effective.blobs \in GoodBlobs
    BY <1>2 DEF GoodManifests
  <2>2. \A p \in Paths : bl[p] \in {None, partial.blobs[p], Effective.blobs[p]}
    OBVIOUS
  <2>3. bl \in [Paths -> Good \cup {None}]
    BY <2>1 DEF GoodBlobs
  <2>4. Dat \in Paths /\ Skipped \subseteq Paths
    BY DEF Paths
  <2> HIDE DEF bl
  <2> QED
    BY <2>1, <2>2, <2>3, <2>4 DEF GoodBlobs
<1> HIDE DEF re, nb, bl, ed
<1>5. idx \in GoodManifests
  BY <1>3, <1>4 DEF GoodManifests
<1> HIDE DEF idx
<1> QED
  BY <1>1, <1>5, TypedSame DEF Typed

LEMMA WithEntryGood ==
  ASSUME NEW m \in GoodManifests, NEW from \in GoodManifests, NEW p \in Paths
  PROVE  WithEntry(m, p, from) \in GoodManifests
<1> DEFINE re == IF p = Region THEN from.regions ELSE m.regions
           nb == IF p = Dat THEN from.nbt ELSE m.nbt
           bl == [m.blobs EXCEPT ![p] = from.blobs[p]]
<1>1. re \in [Slots -> Chunks \cup {None}] \cup {None} /\ nb \in Datas \cup {None}
  BY DEF GoodManifests
<1>2. bl \in GoodBlobs
  <2>1. m.blobs \in GoodBlobs /\ from.blobs \in GoodBlobs
    BY DEF GoodManifests
  <2>2. bl \in [Paths -> Good \cup {None}] /\ \A q \in Paths : bl[q] \in {m.blobs[q], from.blobs[q]}
    BY <2>1 DEF GoodBlobs
  <2>3. Dat \in Paths /\ Skipped \subseteq Paths
    BY DEF Paths
  <2> HIDE DEF bl
  <2> QED
    BY <2>1, <2>2, <2>3 DEF GoodBlobs
<1>3. m.empty_dirs \in SUBSET Dirs
  BY DEF GoodManifests
<1>4. WithEntry(m, p, from) = [regions |-> re, nbt |-> nb, blobs |-> bl, empty_dirs |-> m.empty_dirs]
  BY Zenon DEF WithEntry
<1> HIDE DEF re, nb, bl
<1> QED
  BY <1>1, <1>2, <1>3, <1>4 DEF GoodManifests

LEMMA RestoreStagedTyped ==
  ASSUME Typed, NEW p \in Paths, NEW c \in Made, RestoreStaged(p, c)
  PROVE  Typed'
<1>1. /\ index' \in {None, WithEntry(Effective, p, trees[c])}
      /\ UNCHANGED <<files, dirs, trees, parent, head, stash, job, fresh, saved, shelved>>
  BY DEF RestoreStaged, IndexFile, world, ghosts
<1>2. WithEntry(Effective, p, trees[c]) \in GoodManifests
  BY MadeTrees, WithEntryGood
<1> QED
  BY <1>1, <1>2, TypedSame DEF Typed

\* A commit of the index or of the world.
CommitStep(new, m, v) ==
  /\ Commit(new, m, head, v) /\ head' = new /\ index' = None
  /\ UNCHANGED <<files, dirs, stash, job, fresh, shelved>>

LEMMA CommitStepTyped ==
  ASSUME Typed, NEW new \in Commits, NEW m \in GoodManifests, NEW v \in Views \cup {None},
         CommitStep(new, m, v)
  PROVE  Typed'
<1>1. /\ Commit(new, m, head, v) /\ head' = new /\ index' = None
      /\ UNCHANGED <<files, dirs, stash, job, fresh, shelved>>
  BY DEF CommitStep
<1>2. Made' = Made \cup {new}
  BY <1>1, CommitLemma DEF Typed
<1>3. stash' \in Seq(Made')
  BY <1>1, <1>2, SeqGrows DEF Typed
<1>4. job' \in Jobs' /\ (job' # Idle => job'.todo # <<>>)
  <2>1. job \in Jobs
    BY DEF Typed
  <2>2. job.stack \in Seq(Made')
    BY <1>2, <2>1, SeqGrows DEF Jobs
  <2> QED
    BY <1>1, <1>2, <2>1, <2>2 DEF Jobs, Typed
<1> QED
  BY <1>1, <1>2, <1>3, <1>4, TypedCommit DEF Typed

LEMMA CommitSteps ==
  /\ \A new : CommitIndex(new) => CommitStep(new, Effective, None)
  /\ \A new : CommitAll(new) => CommitStep(new, snapshot, View(files))
BY DEF CommitIndex, CommitAll, CommitStep, world

\* A command that rewrites the world begins; it may have made a commit first.
StartJob(todo, m, c, to, stack, sh) ==
  /\ job = Idle /\ job' = Job(todo, m, c, to, stack)
  /\ fresh' = 0 /\ shelved' = sh
  /\ UNCHANGED <<files, dirs, trees, parent, head, index, stash, saved>>

CommitJob(new, mm, v, todo, m, c, to, stack, sh) ==
  /\ Commit(new, mm, head, v)
  /\ job = Idle /\ job' = Job(todo, m, c, to, stack)
  /\ fresh' = 0 /\ shelved' = sh
  /\ UNCHANGED <<files, dirs, head, index, stash>>

PushSteps == StackSteps \o (IF head = 0 THEN <<>> ELSE CheckoutSteps(TRUE)) \o <<"clear">>

LEMMA Starts ==
  /\ \A c : Checkout(c) =>
       StartJob(CheckoutSteps(TRUE) \o <<"clear", "head">>, trees[c], c, c, <<>>, 0)
  /\ \A c : CheckoutSparse(c) =>
       StartJob(CheckoutSteps(FALSE) \o <<"clear", "head">>, [trees[c] EXCEPT !.regions = None],
                0, c, <<>>, 0)
  /\ \A c : ResetHard(c) =>
       StartJob(<<"head", "clear">> \o CheckoutSteps(TRUE), trees[c], c, c, <<>>, 0)
  /\ \A p, c : Restore(p, c) =>
       StartJob(CheckoutSteps(FALSE), WithEntry(EmptyManifest, p, trees[c]), 0, 0, <<>>, 0)
  /\ StashPop =>
       /\ stash # <<>>
       /\ StartJob(CheckoutSteps(TRUE) \o StackSteps \o <<"clear">>, trees[stash[Len(stash)]],
                stash[Len(stash)], 0, SubSeq(stash, 1, Len(stash) - 1), stash[Len(stash)])
  /\ StashDrop =>
       /\ stash # <<>>
       /\ StartJob(StackSteps, EmptyManifest, 0, 0, SubSeq(stash, 1, Len(stash) - 1), 0)
  /\ \A new, base, theirs : Replay(new, base, theirs) =>
       LET m == three_way_manifest(TreeOf(base), trees[head], TreeOf(theirs))
       IN  /\ head # 0
           /\ CommitJob(new, m, None, <<"head">> \o CheckoutSteps(TRUE) \o <<"clear">>, m, new, new,
                        <<>>, 0)
  /\ \A new : StashPush(new) =>
       CommitJob(new, snapshot, View(files), PushSteps, TreeOf(head), head, 0, Append(stash, new),
                 new)
<1>1. \A c : Checkout(c) =>
       StartJob(CheckoutSteps(TRUE) \o <<"clear", "head">>, trees[c], c, c, <<>>, 0)
  BY Zenon DEF Checkout, StartJob, Turn, Touched, world, repo
<1>2. \A c : CheckoutSparse(c) =>
       StartJob(CheckoutSteps(FALSE) \o <<"clear", "head">>, [trees[c] EXCEPT !.regions = None],
                0, c, <<>>, 0)
  BY Zenon DEF CheckoutSparse, StartJob, Turn, Touched, world, repo
<1>3. \A c : ResetHard(c) =>
       StartJob(<<"head", "clear">> \o CheckoutSteps(TRUE), trees[c], c, c, <<>>, 0)
  BY Zenon DEF ResetHard, StartJob, Turn, Touched, world, repo
<1>4. \A p, c : Restore(p, c) =>
       StartJob(CheckoutSteps(FALSE), WithEntry(EmptyManifest, p, trees[c]), 0, 0, <<>>, 0)
  BY Zenon DEF Restore, StartJob, Turn, Touched, world, repo
<1>5. StashPop =>
       /\ stash # <<>>
       /\ StartJob(CheckoutSteps(TRUE) \o StackSteps \o <<"clear">>, trees[stash[Len(stash)]],
                stash[Len(stash)], 0, SubSeq(stash, 1, Len(stash) - 1), stash[Len(stash)])
  BY Zenon DEF StashPop, StartJob, Turn, world, repo
<1>6. StashDrop =>
       /\ stash # <<>>
       /\ StartJob(StackSteps, EmptyManifest, 0, 0, SubSeq(stash, 1, Len(stash) - 1), 0)
  BY Zenon DEF StashDrop, StartJob, Turn, Touched, world, repo
<1>7. \A new, base, theirs : Replay(new, base, theirs) =>
       LET m == three_way_manifest(TreeOf(base), trees[head], TreeOf(theirs))
       IN  /\ head # 0
           /\ CommitJob(new, m, None, <<"head">> \o CheckoutSteps(TRUE) \o <<"clear">>, m, new, new,
                        <<>>, 0)
  BY Zenon DEF Replay, CommitJob, Turn, Touched, world
<1>8. \A new : StashPush(new) =>
       CommitJob(new, snapshot, View(files), PushSteps, TreeOf(head), head, 0, Append(stash, new),
                 new)
  BY Zenon DEF StashPush, CommitJob, PushSteps, Turn, world
<1> QED
  BY <1>1, <1>2, <1>3, <1>4, <1>5, <1>6, <1>7, <1>8, Zenon

LEMMA StartTyped ==
  ASSUME Typed, NEW todo, IsTodo(todo), NEW m \in GoodManifests, NEW c \in Made \cup {0},
         NEW to \in Made \cup {0}, NEW stack \in Seq(Made), NEW sh \in Made \cup {0},
         StartJob(todo, m, c, to, stack, sh)
  PROVE  Typed'
<1>1. job' \in Jobs /\ job'.todo # <<>>
  BY JobLemma DEF StartJob, Jobs
<1> QED
  BY <1>1, TypedSame DEF StartJob, Typed

LEMMA CommitJobTyped ==
  ASSUME Typed, NEW new \in Commits, NEW mm \in GoodManifests, NEW v \in Views \cup {None},
         NEW todo, IsTodo(todo), NEW m \in GoodManifests, NEW c \in Made \cup {new, 0},
         NEW to \in Made \cup {new, 0}, NEW stack \in Seq(Made \cup {new}),
         NEW sh \in Made \cup {new, 0},
         CommitJob(new, mm, v, todo, m, c, to, stack, sh)
  PROVE  Typed'
<1>1. Commit(new, mm, head, v) /\ head \in Made \cup {0}
  BY DEF CommitJob, Typed
<1>2. Made' = Made \cup {new}
  BY <1>1, CommitLemma
<1>3. job' \in Jobs' /\ job'.todo # <<>>
  <2> DEFINE S == Made \cup {new}
  <2>1. c \in S \cup {0} /\ to \in S \cup {0} /\ stack \in Seq(S) /\ Made' = S
    BY <1>2
  <2>2. job' = Job(todo, m, c, to, stack)
    BY DEF CommitJob
  <2> DEFINE J(T) == [todo : Seq(StepNames), m : GoodManifests, c : T \cup {0}, to : T \cup {0},
                      stack : Seq(T)]
  <2>3. Jobs' = J(Made')
    BY DEF Jobs
  <2> HIDE DEF S
  <2>4. job' \in J(S) /\ job'.todo # <<>>
    BY <2>1, <2>2 DEF Job, IsTodo
  <2> HIDE DEF J
  <2> QED
    BY <2>1, <2>3, <2>4
<1>4. stash' \in Seq(Made')
  BY <1>2, SeqGrows DEF CommitJob, Typed
<1>5. UNCHANGED <<files, dirs, head, index>> /\ fresh' = 0 /\ shelved' = sh
  BY DEF CommitJob
<1> QED
  BY <1>1, <1>2, <1>3, <1>4, <1>5, TypedCommit DEF Typed

\* The stash without its last entry.
LEMMA PoppedLemma ==
  ASSUME NEW S, NEW s \in Seq(S), s # <<>>
  PROVE  /\ s[Len(s)] \in S /\ SubSeq(s, 1, Len(s) - 1) \in Seq(S)
         /\ Len(s) \in 1 .. Len(s)
         /\ Len(SubSeq(s, 1, Len(s) - 1)) = Len(s) - 1
         /\ \A i \in 1 .. Len(s) - 1 : SubSeq(s, 1, Len(s) - 1)[i] = s[i]
<1>1. Len(s) \in Nat /\ Len(s) > 0
  BY EmptySeq, LenProperties
<1>2. s[Len(s)] \in S
  BY <1>1, ElementOfSeq
<1> DEFINE n == Len(s) - 1
<1>3. n \in Int /\ n >= 0 /\ 1 \in Int /\ n - 1 + 1 = n
  BY <1>1
<1>4. \A i \in 1 .. n : s[i] \in S
  BY <1>1, ElementOfSeq
<1>5. Len(s) \in 1 .. Len(s)
  BY <1>1
<1> HIDE DEF n
<1>6. /\ SubSeq(s, 1, n) \in Seq(S)
      /\ Len(SubSeq(s, 1, n)) = IF 1 <= n THEN n - 1 + 1 ELSE 0
      /\ \A i \in 1 .. n - 1 + 1 : SubSeq(s, 1, n)[i] = s[1 + i - 1]
  BY <1>3, <1>4, SubSeqProperties
<1>7. Len(SubSeq(s, 1, n)) = n
  BY <1>3, <1>6
<1>8. \A i \in 1 .. n : SubSeq(s, 1, n)[i] = s[i]
  <2> TAKE i \in 1 .. n
  <2>1. i \in 1 .. n - 1 + 1 /\ 1 + i - 1 = i
    BY <1>3
  <2> QED
    BY <1>6, <2>1
<1> QED
  BY <1>2, <1>5, <1>6, <1>7, <1>8 DEF n

LEMMA StartsTyped ==
  ASSUME Typed,
         \/ \E c \in Made : Checkout(c) \/ CheckoutSparse(c) \/ ResetHard(c)
         \/ \E p \in Paths, c \in Made : Restore(p, c)
         \/ StashPop \/ StashDrop
         \/ \E new \in Commits, base, theirs \in Made \cup {0} : Replay(new, base, theirs)
         \/ \E new \in Commits : StashPush(new)
  PROVE  Typed'
<1>0. <<>> \in Seq(Made)
  BY EmptySeq
<1>1. ASSUME NEW c \in Made, Checkout(c) PROVE Typed'
  BY <1>0, <1>1, Starts, CommandLists, StartTyped, MadeTrees
<1>2. ASSUME NEW c \in Made, CheckoutSparse(c) PROVE Typed'
  <2>1. [trees[c] EXCEPT !.regions = None] \in GoodManifests
    BY MadeTrees DEF GoodManifests
  <2> QED
    BY <1>0, <1>2, <2>1, Starts, CommandLists, StartTyped
<1>3. ASSUME NEW c \in Made, ResetHard(c) PROVE Typed'
  BY <1>0, <1>3, Starts, CommandLists, StartTyped, MadeTrees
<1>4. ASSUME NEW p \in Paths, NEW c \in Made, Restore(p, c) PROVE Typed'
  <2>1. WithEntry(EmptyManifest, p, trees[c]) \in GoodManifests
    BY MadeTrees, WithEntryGood, GoodManifestsLemma
  <2> QED
    BY <1>0, <1>4, <2>1, Starts, CommandLists, StartTyped
<1>5. CASE StashPop
  <2>1. stash \in Seq(Made) /\ stash # <<>>
    BY <1>5, Starts DEF Typed
  <2>2. stash[Len(stash)] \in Made /\ SubSeq(stash, 1, Len(stash) - 1) \in Seq(Made)
    BY <2>1, PoppedLemma
  <2> QED
    BY <1>5, <2>2, Starts, StashLists, StartTyped, MadeTrees
<1>6. CASE StashDrop
  <2>1. stash \in Seq(Made) /\ stash # <<>>
    BY <1>6, Starts DEF Typed
  <2>2. SubSeq(stash, 1, Len(stash) - 1) \in Seq(Made)
    BY <2>1, PoppedLemma
  <2>3. IsTodo(StackSteps)
    BY StackLists DEF IsTodo
  <2> QED
    BY <1>6, <2>2, <2>3, Starts, StartTyped, GoodManifestsLemma
<1>7. ASSUME NEW new \in Commits, NEW base \in Made \cup {0}, NEW theirs \in Made \cup {0},
             Replay(new, base, theirs)
      PROVE  Typed'
  <2> DEFINE m == three_way_manifest(TreeOf(base), trees[head], TreeOf(theirs))
             todo == <<"head">> \o CheckoutSteps(TRUE) \o <<"clear">>
  <2>1. head # 0 /\ CommitJob(new, m, None, todo, m, new, new, <<>>, 0)
    BY <1>7, Starts, Zenon
  <2>2. m \in GoodManifests
    BY <2>1, MergeGood, MadeTrees DEF Typed
  <2>3. IsTodo(todo) /\ <<>> \in Seq(Made \cup {new})
    BY CommandLists, EmptySeq
  <2> HIDE DEF m, todo
  <2> QED
    BY <2>1, <2>2, <2>3, CommitJobTyped
<1>8. ASSUME NEW new \in Commits, StashPush(new) PROVE Typed'
  <2>1. IsTodo(PushSteps)
    BY StashLists DEF PushSteps
  <2>2. Append(stash, new) \in Seq(Made \cup {new})
    <3>1. stash \in Seq(Made \cup {new})
      BY SeqGrows DEF Typed
    <3> QED
      BY <3>1, AppendProperties
  <2>3. CommitJob(new, snapshot, View(files), PushSteps, TreeOf(head), head, 0, Append(stash, new),
                  new)
    BY <1>8, Starts
  <2>4. /\ head \in Made \cup {new, 0} /\ TreeOf(head) \in GoodManifests
        /\ snapshot \in GoodManifests /\ View(files) \in Views \cup {None}
    BY MadeTrees DEF Typed
  <2> QED
    BY <2>1, <2>2, <2>3, <2>4, CommitJobTyped
<1> QED
  BY <1>1, <1>2, <1>3, <1>4, <1>5, <1>6, <1>7, <1>8

LEMMA StepTyped ==
  ASSUME Typed, Step
  PROVE  Typed'
<1>1. job \in Jobs /\ job # Idle /\ job.todo # <<>> /\ job.m \in GoodManifests
  BY DEF Step, Typed, Jobs
<1> DEFINE step == Head(job.todo)
<1>2. files' = Written(Writes(step, job.m))
  BY DEF Step
<1>3. files' \in [Paths -> Good \cup {None}]
  BY <1>1, <1>2, WritesTyped DEF Written, Typed
<1>4. /\ dirs' \in SUBSET Dirs
      /\ index' \in GoodManifests \cup {None} /\ head' \in Made \cup {0}
  <2>1. DirsMade(step, job.m) \subseteq Dirs
    BY <1>1 DEF DirsMade, Homes, GoodManifests
  <2>2. dirs' = dirs \cup DirsMade(step, job.m)
    BY DEF Step
  <2>3. index' \in GoodManifests \cup {None} /\ head' \in Made \cup {0}
    BY <1>1 DEF Step, Typed, Jobs
  <2> QED
    BY <2>1, <2>2, <2>3 DEF Typed
<1>5. stash' \in Seq(Made)
  BY <1>1, EmptySeq DEF Step, Typed, Jobs
<1>6. job' \in Jobs /\ (job' # Idle => job'.todo # <<>>)
  <2>1. job.todo \in Seq(StepNames)
    BY <1>1 DEF Jobs
  <2>2. CASE Len(job.todo) = 1
    BY <2>2, IdleJob DEF Step
  <2>3. CASE Len(job.todo) # 1
    <3>1. job' = [job EXCEPT !.todo = Tail(job.todo)]
      BY <2>3 DEF Step
    <3>2. Tail(job.todo) \in Seq(StepNames) /\ Tail(job.todo) # <<>>
      BY <1>1, <2>1, <2>3, TailLemma
    <3> QED
      BY <1>1, <3>1, <3>2 DEF Jobs
  <2> QED
    BY <2>2, <2>3
<1>7. fresh' \in Made \cup {0} /\ shelved' \in Made \cup {0}
  BY <1>1 DEF Step, Typed, Jobs
<1>8. UNCHANGED <<trees, parent, saved>>
  BY DEF Step
<1> QED
  BY <1>3, <1>4, <1>5, <1>6, <1>7, <1>8, TypedSame

LEMMA KillTyped ==
  ASSUME Typed, NEW done, NEW torn, NEW mkdirs \in SUBSET Dirs, Kill(done, torn, mkdirs)
  PROVE  Typed'
<1>1. job \in Jobs /\ job # Idle /\ job.todo # <<>> /\ job.m \in GoodManifests
  BY DEF Kill, Typed, Jobs
<1> DEFINE w == Writes(Head(job.todo), job.m)
<1>2. /\ done \subseteq DOMAIN w
      /\ files' = [p \in Paths |-> IF p \in torn THEN Truncated
                                   ELSE IF p \in done THEN w[p] ELSE files[p]]
      /\ job' = Idle /\ dirs' = dirs \cup mkdirs
      /\ UNCHANGED <<trees, parent, head, index, stash, fresh, saved, shelved>>
  BY DEF Kill, repo, ghosts
<1>3. \A p \in done : w[p] \in Good \cup {None}
  BY <1>1, <1>2, WritesTyped
<1> HIDE DEF w
<1>4. files' \in [Paths -> Good \cup {None}]
  BY <1>2, <1>3, GoodLemma DEF Typed
<1> QED
  BY <1>2, <1>4, IdleJob, TypedSame DEF Typed

LEMMA TypedInit == Init => Typed
<1> SUFFICES ASSUME Init PROVE Typed
  OBVIOUS
<1>1. job = Idle /\ stash = <<>>
  BY DEF Init
<1>2. job \in Jobs /\ stash \in Seq(Made)
  BY <1>1, IdleJob, EmptySeq
<1> QED
  BY <1>1, <1>2 DEF Init, Typed

LEMMA TypedNext == Typed /\ [Next]_vars => Typed'
<1> SUFFICES ASSUME Typed, [Next]_vars PROVE Typed'
  OBVIOUS
<1>1. ASSUME NEW s \in Slots, NEW form \in GameForms, SaveChunk(s, form) PROVE Typed'
  BY <1>1, SaveChunkTyped
<1>2. ASSUME NEW p \in Paths, NEW d \in Datas, SaveFile(p, RawBytes(d)) PROVE Typed'
  BY <1>2, SaveFileTyped, GoodLemma
<1>3. ASSUME NEW d \in Datas, SaveFile(Dat, NbtBytes(d)) PROVE Typed'
  BY <1>3, SaveFileTyped, GoodLemma DEF Paths
<1>4. ASSUME NEW p \in Paths, SaveFile(p, None) PROVE Typed'
  BY <1>4, SaveFileTyped
<1>5. ASSUME NEW d \in Dirs, ToggleDir(d) PROVE Typed'
  BY <1>5, ToggleDirTyped
<1>6. ASSUME NEW scope \in Scopes, Add(scope) PROVE Typed'
  BY <1>6, AddTyped
<1>7. ASSUME NEW p \in Paths, NEW c \in Made, RestoreStaged(p, c) PROVE Typed'
  BY <1>7, RestoreStagedTyped
<1>8. ASSUME NEW new \in Commits, CommitIndex(new) PROVE Typed'
  BY <1>8, CommitSteps, CommitStepTyped, MadeTrees
<1>9. ASSUME NEW new \in Commits, CommitAll(new) PROVE Typed'
  BY <1>9, CommitSteps, CommitStepTyped, MadeTrees
<1>10. ASSUME NEW new \in Commits, NEW c \in Made, CherryPick(new, c) \/ Revert(new, c)
       PROVE  Typed'
  <2>1. parent[c] \in Made \cup {0} /\ c \in Made \cup {0}
    BY MadeTrees DEF Typed
  <2> QED
    BY <1>10, <2>1, StartsTyped DEF CherryPick, Revert
<1>11. CASE \/ \E c \in Made : Checkout(c) \/ CheckoutSparse(c) \/ ResetHard(c)
            \/ \E p \in Paths, c \in Made : Restore(p, c)
            \/ StashPop \/ StashDrop
            \/ \E new \in Commits : StashPush(new)
  BY <1>11, StartsTyped
<1>12. CASE Clean
  BY <1>12, CleanTyped
<1>13. CASE Step
  BY <1>13, StepTyped
<1>14. ASSUME NEW done, NEW torn, NEW mkdirs \in SUBSET Dirs, Kill(done, torn, mkdirs)
       PROVE  Typed'
  BY <1>14, KillTyped
<1>15. CASE UNCHANGED vars
  BY <1>15, TypedSame DEF vars, world, repo, ghosts, Typed
<1> QED
  BY <1>1, <1>2, <1>3, <1>4, <1>5, <1>6, <1>7, <1>8, <1>9, <1>10, <1>11, <1>12, <1>13, <1>14,
     <1>15 DEF Next

\* The types, for every world, every player and every kill: HEAD, parents,
\* stashes and the command that runs are of commits that were made.
THEOREM WorktreeTyped == Spec => []WorktreeTypeOK
<1>1. Spec => []Typed
  BY TypedInit, TypedNext, PTL DEF Spec
<1> QED
  BY <1>1, TypedGives, PTL

-----------------------------------------------------------------------------
(* What a command has written so far of manifest m: each kind of file is    *)
(* there once its step is done, and what blobs and prune do comes last.     *)

Laid(todo, m, fs) ==
  /\ ~Pending(todo, "blobs") => \A p \in Paths : m.blobs[p] # None => fs[p] = m.blobs[p]
  /\ ~Pending(todo, "nbt") =>
       (m.blobs[Dat] = None /\ m.nbt # None => fs[Dat] = NbtBytes(m.nbt))
  /\ ~Pending(todo, "regions") =>
       (m.blobs[Region] = None /\ m.regions # None => fs[Region] = RegionOf(m))
  /\ ~Pending(todo, "prune") => \A p \in Paths \ Keys(m) : fs[p] = None

LEMMA WritesAre ==
  ASSUME NEW m
  PROVE  /\ DOMAIN Writes("spill", m) \subseteq Slots
         /\ DOMAIN Writes("regions", m) \subseteq {Region}
         /\ m.regions # None => /\ Region \in DOMAIN Writes("regions", m)
                                /\ Writes("regions", m)[Region] = RegionOf(m)
         /\ DOMAIN Writes("nbt", m) \subseteq {Dat}
         /\ m.nbt # None => Dat \in DOMAIN Writes("nbt", m) /\ Writes("nbt", m)[Dat] = NbtBytes(m.nbt)
         /\ \A p : p \in DOMAIN Writes("blobs", m) <=> p \in Paths /\ m.blobs[p] # None
         /\ \A p \in DOMAIN Writes("blobs", m) : Writes("blobs", m)[p] = m.blobs[p]
         /\ DOMAIN Writes("prune", m) = Paths \ Keys(m)
         /\ \A p \in DOMAIN Writes("prune", m) : Writes("prune", m)[p] = None
<1>1. /\ Writes("spill", m) = SpillWrites(m) /\ Writes("regions", m) = RegionWrites(m)
      /\ Writes("nbt", m) = NbtWrites(m) /\ Writes("blobs", m) = BlobWrites(m)
      /\ Writes("prune", m) = PruneWrites(m)
  BY DEF Writes
<1>2. DOMAIN SpillWrites(m) \subseteq Slots
  BY DEF SpillWrites
<1>3. /\ DOMAIN RegionWrites(m) \subseteq {Region}
      /\ m.regions # None => Region \in DOMAIN RegionWrites(m) /\ RegionWrites(m)[Region] = RegionOf(m)
  BY DEF RegionWrites, RegionOf
<1>4. /\ DOMAIN NbtWrites(m) \subseteq {Dat}
      /\ m.nbt # None => Dat \in DOMAIN NbtWrites(m) /\ NbtWrites(m)[Dat] = NbtBytes(m.nbt)
  BY DEF NbtWrites
<1>5. /\ \A p : p \in DOMAIN BlobWrites(m) <=> p \in Paths /\ m.blobs[p] # None
      /\ \A p \in DOMAIN BlobWrites(m) : BlobWrites(m)[p] = m.blobs[p]
  BY DEF BlobWrites
<1>6. /\ DOMAIN PruneWrites(m) = Paths \ Keys(m)
      /\ \A p \in DOMAIN PruneWrites(m) : PruneWrites(m)[p] = None
  BY DEF PruneWrites
<1> QED
  BY <1>1, <1>2, <1>3, <1>4, <1>5, <1>6

\* A step of the command.
LEMMA StepLaid ==
  ASSUME NEW m \in GoodManifests, NEW todo \in Seq(StepNames), todo # <<>>, Ordered(todo),
         NEW fs, Laid(todo, m, fs), NEW gs,
         \A p \in Paths : gs[p] = IF p \in DOMAIN Writes(Head(todo), m)
                                  THEN Writes(Head(todo), m)[p] ELSE fs[p]
  PROVE  Laid(Tail(todo), m, gs)
<1> DEFINE t == Tail(todo)
           h == Head(todo)
<1>1. /\ \A x : Pending(todo, x) <=> x = h \/ Pending(t, x)
      /\ h \in StepNames
  BY TailLemma
<1>2. /\ h \in {"spill", "regions", "nbt"} => Pending(t, "blobs")
      /\ h \in FileSteps \ {"prune"} => Pending(t, "prune")
  BY TailOrders
<1>3. /\ Region \in Paths /\ Dat \in Paths /\ Region # Dat /\ Slots \subseteq Paths
      /\ Region \notin Slots /\ Dat \notin Slots
  BY PathsAssumption DEF Paths
<1>4. \A p \in Paths : gs[p] = IF p \in DOMAIN Writes(h, m) THEN Writes(h, m)[p] ELSE fs[p]
  OBVIOUS
<1> HIDE DEF t, h
<1>5. CASE h \notin FileSteps
  <2>1. \A p \in Paths : gs[p] = fs[p]
    BY <1>4, <1>5, WritesTyped
  <2>2. \A x \in FileSteps : Pending(todo, x) <=> Pending(t, x)
    BY <1>1, <1>5
  <2> QED
    BY <1>3, <2>1, <2>2 DEF Laid, FileSteps, t
<1>6. CASE h = "spill"
  <2>1. \A p \in Paths \ Slots : gs[p] = fs[p]
    BY <1>4, <1>6, WritesAre
  <2>2. Pending(t, "blobs") /\ Pending(t, "prune")
    BY <1>2, <1>6 DEF FileSteps
  <2>3. gs[Dat] = fs[Dat] /\ gs[Region] = fs[Region]
    BY <1>3, <2>1
  <2> QED
    BY <1>1, <1>6, <2>2, <2>3 DEF Laid, t
<1>7. CASE h = "regions"
  <2>1. Pending(t, "blobs") /\ Pending(t, "prune")
    BY <1>2, <1>7 DEF FileSteps
  <2>2. gs[Dat] = fs[Dat]
    BY <1>3, <1>4, <1>7, WritesAre
  <2>3. m.regions # None => gs[Region] = RegionOf(m)
    BY <1>3, <1>4, <1>7, WritesAre
  <2> QED
    BY <1>1, <1>7, <2>1, <2>2, <2>3 DEF Laid, t
<1>8. CASE h = "nbt"
  <2>1. Pending(t, "blobs") /\ Pending(t, "prune")
    BY <1>2, <1>8 DEF FileSteps
  <2>2. gs[Region] = fs[Region]
    BY <1>3, <1>4, <1>8, WritesAre
  <2>3. m.nbt # None => gs[Dat] = NbtBytes(m.nbt)
    BY <1>3, <1>4, <1>8, WritesAre
  <2> QED
    BY <1>1, <1>8, <2>1, <2>2, <2>3 DEF Laid, t
<1>9. CASE h = "blobs"
  <2>1. Pending(t, "prune")
    BY <1>2, <1>9 DEF FileSteps
  <2>2. \A p \in Paths : gs[p] = IF m.blobs[p] # None THEN m.blobs[p] ELSE fs[p]
    BY <1>4, <1>9, WritesAre
  <2>3. /\ m.blobs[Dat] = None => gs[Dat] = fs[Dat]
        /\ m.blobs[Region] = None => gs[Region] = fs[Region]
        /\ \A p \in Paths : m.blobs[p] # None => gs[p] = m.blobs[p]
    BY <1>3, <2>2
  <2> QED
    BY <1>1, <1>9, <2>1, <2>3 DEF Laid, t
<1>10. CASE h = "prune"
  <2>1. \A p \in Keys(m) : gs[p] = fs[p]
    BY <1>4, <1>10, WritesAre DEF Keys
  <2>2. \A p \in Paths \ Keys(m) : gs[p] = None
    BY <1>4, <1>10, WritesAre
  <2>3. /\ \A p \in Paths : m.blobs[p] # None => p \in Keys(m)
        /\ m.nbt # None => Dat \in Keys(m)
        /\ m.regions # None => Region \in Keys(m)
    BY <1>3 DEF Keys
  <2> QED
    BY <1>1, <1>10, <2>1, <2>2, <2>3 DEF Laid, t
<1> QED
  BY <1>5, <1>6, <1>7, <1>8, <1>9, <1>10 DEF FileSteps

\* When no file is left to write, the world is that of the manifest.
LEMMA LaidDown ==
  ASSUME NEW m, NEW todo, \A x \in FileSteps : ~Pending(todo, x),
         NEW fs \in [Paths -> Good \cup {None}], Laid(todo, m, fs)
  PROVE  fs = Result(m)
<1>1. /\ \A p \in Paths : m.blobs[p] # None => fs[p] = m.blobs[p]
      /\ m.blobs[Dat] = None /\ m.nbt # None => fs[Dat] = NbtBytes(m.nbt)
      /\ m.blobs[Region] = None /\ m.regions # None => fs[Region] = RegionOf(m)
      /\ \A p \in Paths \ Keys(m) : fs[p] = None
  BY DEF Laid, FileSteps
<1>2. Region # Dat
  BY PathsAssumption
<1>3. ASSUME NEW p \in Paths PROVE fs[p] = Result(m)[p]
  <2>1. CASE m.blobs[p] # None
    BY <1>1, <2>1 DEF Result
  <2>2. CASE m.blobs[p] = None /\ p = Dat /\ m.nbt # None
    BY <1>1, <2>2 DEF Result
  <2>3. CASE m.blobs[p] = None /\ p = Region /\ m.regions # None
    BY <1>1, <1>2, <2>3 DEF Result
  <2>4. CASE p \notin Keys(m)
    <3>1. fs[p] = None
      BY <1>1, <2>4
    <3> QED
      BY <2>4, <3>1 DEF Result, Keys
  <2> QED
    BY <2>1, <2>2, <2>3, <2>4 DEF Keys
<1> QED
  BY <1>3 DEF Result

LEMMA EmptyTodo == \A x : ~Pending(<<>>, x)
BY DEF Pending

-----------------------------------------------------------------------------
(* The steps of Next, by what they do to the world, the stash and the       *)
(* commits.                                                                 *)

Edits ==
  /\ job = Idle /\ job' = Idle /\ fresh' = 0 /\ shelved' = 0
  /\ UNCHANGED <<trees, stash, saved>>

Reads == UNCHANGED <<files, dirs, trees, stash, job, fresh, saved, shelved>>

CommitsNow ==
  /\ job = Idle
  /\ \E new \in Commits :
       CommitStep(new, Effective, None) \/ CommitStep(new, snapshot, View(files))

\* A job writes a commit in full, or nothing is promised of it.
Whole(todo, m, c) == c # 0 => m = trees[c] /\ Full(todo)

StartsPlain ==
  \E todo \in Seq(StepNames), m \in GoodManifests, c, to \in Made \cup {0}, stack \in Seq(Made) :
    /\ StartJob(todo, m, c, to, stack, 0) /\ Whole(todo, m, c)
    /\ \A i \in 1 .. Len(stack) : i \in 1 .. Len(stash) /\ stack[i] = stash[i]

StartsPop ==
  \E todo \in Seq(StepNames), stack \in Seq(Made), i \in 1 .. Len(stash) :
    /\ stash[i] \in Made
    /\ StartJob(todo, trees[stash[i]], stash[i], 0, stack, stash[i])
    /\ Full(todo) /\ StackLast(todo)
    /\ \A k \in 1 .. Len(stack) : k \in 1 .. Len(stash) /\ stack[k] = stash[k]

StartsReplay ==
  \E new \in Commits, todo \in Seq(StepNames), m \in GoodManifests :
    CommitJob(new, m, None, todo, m, new, new, <<>>, 0) /\ Full(todo)

StartsPush ==
  \E new \in Commits, todo \in Seq(StepNames) :
    /\ CommitJob(new, snapshot, View(files), todo, TreeOf(head), head, 0, Append(stash, new), new)
    /\ StackFirst(todo) /\ Pending(todo, "stack") /\ (head # 0 => Full(todo))

Kills ==
  \E done \in SUBSET Paths, torn \in {{}} \cup {{p} : p \in Paths}, mkdirs \in SUBSET Dirs :
    Kill(done, torn, mkdirs)

LEMMA EditsLemma ==
  /\ \A fs, ds : Edit(fs, ds) => Edits
  /\ Clean => Edits
BY DEF Edit, Clean, Turn, Touched, repo, Edits

LEMMA StartsPlainLemma ==
  ASSUME Typed,
         \/ \E c \in Made : Checkout(c) \/ CheckoutSparse(c) \/ ResetHard(c)
         \/ \E p \in Paths, c \in Made : Restore(p, c)
         \/ StashDrop
  PROVE  StartsPlain
<1>0. <<>> \in Seq(Made) /\ Len(<<>>) = 0 /\ 0 \in Made \cup {0} /\ \A i : i \notin 1 .. 0
  BY EmptySeq
<1>1. ASSUME NEW todo \in Seq(StepNames), NEW m \in GoodManifests, NEW c \in Made \cup {0},
             NEW to \in Made \cup {0}, NEW stack \in Seq(Made),
             StartJob(todo, m, c, to, stack, 0), Whole(todo, m, c),
             stack = <<>> \/ \A i \in 1 .. Len(stack) : i \in 1 .. Len(stash) /\ stack[i] = stash[i]
      PROVE  StartsPlain
  <2>1. \A i \in 1 .. Len(stack) : i \in 1 .. Len(stash) /\ stack[i] = stash[i]
    BY <1>0, <1>1
  <2> QED
    BY <1>1, <2>1, Zenon DEF StartsPlain
<1>2. ASSUME NEW c \in Made, Checkout(c) PROVE StartsPlain
  <2> DEFINE todo == CheckoutSteps(TRUE) \o <<"clear", "head">>
  <2>1. todo \in Seq(StepNames) /\ Full(todo)
    BY CommandLists DEF IsTodo
  <2>2. StartJob(todo, trees[c], c, c, <<>>, 0)
    BY <1>2, Starts
  <2> HIDE DEF todo
  <2> QED
    BY <1>0, <1>1, <2>1, <2>2, MadeTrees DEF Whole
<1>3. ASSUME NEW c \in Made, CheckoutSparse(c) PROVE StartsPlain
  <2> DEFINE todo == CheckoutSteps(FALSE) \o <<"clear", "head">>
             m == [trees[c] EXCEPT !.regions = None]
  <2>1. todo \in Seq(StepNames)
    BY CommandLists DEF IsTodo
  <2>2. StartJob(todo, m, 0, c, <<>>, 0)
    BY <1>3, Starts
  <2>3. m \in GoodManifests
    BY MadeTrees DEF GoodManifests
  <2>4. Whole(todo, m, 0)
    BY DEF Whole
  <2> HIDE DEF todo, m
  <2> QED
    BY <1>0, <1>1, <2>1, <2>2, <2>3, <2>4
<1>4. ASSUME NEW c \in Made, ResetHard(c) PROVE StartsPlain
  <2> DEFINE todo == <<"head", "clear">> \o CheckoutSteps(TRUE)
  <2>1. todo \in Seq(StepNames) /\ Full(todo)
    BY CommandLists DEF IsTodo
  <2>2. StartJob(todo, trees[c], c, c, <<>>, 0)
    BY <1>4, Starts
  <2> HIDE DEF todo
  <2> QED
    BY <1>0, <1>1, <2>1, <2>2, MadeTrees DEF Whole
<1>5. ASSUME NEW p \in Paths, NEW c \in Made, Restore(p, c) PROVE StartsPlain
  <2> DEFINE todo == CheckoutSteps(FALSE)
             m == WithEntry(EmptyManifest, p, trees[c])
  <2>1. todo \in Seq(StepNames)
    BY CommandLists DEF IsTodo
  <2>2. StartJob(todo, m, 0, 0, <<>>, 0)
    BY <1>5, Starts
  <2>3. m \in GoodManifests
    BY MadeTrees, WithEntryGood, GoodManifestsLemma
  <2>4. Whole(todo, m, 0)
    BY DEF Whole
  <2> HIDE DEF todo, m
  <2> QED
    BY <1>0, <1>1, <2>1, <2>2, <2>3, <2>4
<1>6. CASE StashDrop
  <2> DEFINE stack == SubSeq(stash, 1, Len(stash) - 1)
  <2>1. stash \in Seq(Made) /\ stash # <<>>
    BY <1>6, Starts DEF Typed
  <2>2. /\ stack \in Seq(Made) /\ Len(stack) = Len(stash) - 1 /\ Len(stash) \in 1 .. Len(stash)
        /\ \A i \in 1 .. Len(stash) - 1 : stack[i] = stash[i]
    BY <2>1, PoppedLemma
  <2>3. StartJob(StackSteps, EmptyManifest, 0, 0, stack, 0)
    BY <1>6, Starts
  <2> HIDE DEF stack
  <2>4. \A i \in 1 .. Len(stack) : i \in 1 .. Len(stash) /\ stack[i] = stash[i]
    BY <2>2
  <2>5. Whole(StackSteps, EmptyManifest, 0)
    BY DEF Whole
  <2>6. StackSteps \in Seq(StepNames) /\ EmptyManifest \in GoodManifests
    BY StackLists, GoodManifestsLemma
  <2> QED
    BY <1>0, <1>1, <2>2, <2>3, <2>4, <2>5, <2>6
<1> QED
  BY <1>2, <1>3, <1>4, <1>5, <1>6

LEMMA StartsPopLemma ==
  ASSUME Typed, StashPop
  PROVE  StartsPop
<1> DEFINE stack == SubSeq(stash, 1, Len(stash) - 1)
           todo  == CheckoutSteps(TRUE) \o StackSteps \o <<"clear">>
           n     == Len(stash)
<1>1. stash \in Seq(Made) /\ stash # <<>>
  BY Starts DEF Typed
<1>2. /\ stack \in Seq(Made) /\ Len(stack) = n - 1 /\ n \in 1 .. n /\ stash[n] \in Made
      /\ \A i \in 1 .. n - 1 : stack[i] = stash[i]
  BY <1>1, PoppedLemma
<1>3. StartJob(todo, trees[stash[n]], stash[n], 0, stack, stash[n])
  BY Starts
<1>4. todo \in Seq(StepNames) /\ Full(todo) /\ StackLast(todo)
  BY StashLists DEF IsTodo
<1> HIDE DEF stack, todo
<1>5. \A i \in 1 .. Len(stack) : i \in 1 .. n /\ stack[i] = stash[i]
  BY <1>2
<1> QED
  BY <1>2, <1>3, <1>4, <1>5, Zenon DEF StartsPop

LEMMA StartsReplayLemma ==
  ASSUME Typed, NEW new \in Commits, NEW base \in Made \cup {0}, NEW theirs \in Made \cup {0},
         Replay(new, base, theirs)
  PROVE  StartsReplay
<1> DEFINE m == three_way_manifest(TreeOf(base), trees[head], TreeOf(theirs))
           todo == <<"head">> \o CheckoutSteps(TRUE) \o <<"clear">>
<1>1. head # 0 /\ CommitJob(new, m, None, todo, m, new, new, <<>>, 0)
  BY Starts, Zenon
<1>2. m \in GoodManifests
  BY <1>1, MergeGood, MadeTrees DEF Typed
<1>3. todo \in Seq(StepNames) /\ Full(todo)
  BY CommandLists DEF IsTodo
<1> HIDE DEF m, todo
<1> QED
  BY <1>1, <1>2, <1>3, Zenon DEF StartsReplay

LEMMA StartsPushLemma ==
  ASSUME Typed, NEW new \in Commits, StashPush(new)
  PROVE  StartsPush
<1>1. PushSteps \in Seq(StepNames) /\ StackFirst(PushSteps) /\ Pending(PushSteps, "stack")
  BY StashLists DEF PushSteps, IsTodo
<1>2. head # 0 => Full(PushSteps)
  BY StashLists DEF PushSteps
<1>3. CommitJob(new, snapshot, View(files), PushSteps, TreeOf(head), head, 0, Append(stash, new),
                new)
  BY Starts
<1> QED
  BY <1>1, <1>2, <1>3, Zenon DEF StartsPush

LEMMA NextKinds ==
  ASSUME Typed, [Next]_vars
  PROVE  \/ Edits \/ Reads \/ CommitsNow
         \/ StartsPlain \/ StartsPop \/ StartsReplay \/ StartsPush
         \/ Step \/ Kills
<1>1. ASSUME NEW s \in Slots, NEW form \in GameForms, SaveChunk(s, form) PROVE Edits
  <2>1. \E fs, ds : Edit(fs, ds)
    BY <1>1, Zenon DEF SaveChunk
  <2> QED
    BY <2>1, EditsLemma
<1>2. ASSUME NEW p, NEW b, SaveFile(p, b) PROVE Edits
  BY <1>2, EditsLemma DEF SaveFile
<1>3. ASSUME NEW d, ToggleDir(d) PROVE Edits
  BY <1>3, EditsLemma DEF ToggleDir
<1>4. ASSUME NEW scope, Add(scope) PROVE Reads
  BY <1>4, Zenon DEF Add, Reads, world, ghosts
<1>5. ASSUME NEW p, NEW c, RestoreStaged(p, c) PROVE Reads
  BY <1>5, Zenon DEF RestoreStaged, Reads, world, ghosts
<1>6. ASSUME NEW new \in Commits, CommitIndex(new) PROVE CommitsNow
  <2>1. job = Idle
    BY <1>6 DEF CommitIndex, Turn
  <2> QED
    BY <1>6, <2>1, CommitSteps, Zenon DEF CommitsNow
<1>7. ASSUME NEW new \in Commits, CommitAll(new) PROVE CommitsNow
  <2>1. job = Idle
    BY <1>7 DEF CommitAll, Turn
  <2> QED
    BY <1>7, <2>1, CommitSteps, Zenon DEF CommitsNow
<1>10. ASSUME NEW new \in Commits, NEW c \in Made, CherryPick(new, c) \/ Revert(new, c)
       PROVE  StartsReplay
  <2>1. parent[c] \in Made \cup {0} /\ c \in Made \cup {0}
    BY MadeTrees DEF Typed
  <2> QED
    BY <1>10, <2>1, StartsReplayLemma DEF CherryPick, Revert
<1>11. CASE UNCHANGED vars
  BY <1>11 DEF vars, world, repo, ghosts, Reads
<1> QED
  BY <1>1, <1>2, <1>3, <1>4, <1>5, <1>6, <1>7, <1>10, <1>11, EditsLemma, StartsPlainLemma,
     StartsPopLemma, StartsPushLemma DEF Next, Kills

-----------------------------------------------------------------------------
(* A whole checkout leaves the world of its commit behind.                  *)

Progress ==
  /\ job # Idle => fresh = 0
  /\ job # Idle /\ job.c # 0 =>
       job.m = trees[job.c] /\ Ordered(job.todo) /\ Laid(job.todo, job.m, files)
  /\ fresh # 0 => files = Result(trees[fresh])

LEMMA FullLaid ==
  ASSUME NEW todo, Full(todo), NEW m, NEW fs
  PROVE  Ordered(todo) /\ Laid(todo, m, fs)
BY DEF Full, Laid

\* A job that begins.
LEMMA Begun ==
  ASSUME NEW todo, NEW m, NEW c, NEW to, NEW stack, job' = Job(todo, m, c, to, stack), fresh' = 0,
         c # 0 => m = trees'[c] /\ Full(todo)
  PROVE  Progress'
<1>1. job'.todo = todo /\ job'.m = m /\ job'.c = c
  BY DEF Job
<1>2. c # 0 => Ordered(todo) /\ Laid(todo, m, files')
  BY FullLaid
<1>3. c # 0 => (Ordered(todo) /\ Laid(todo, m, files))'
  BY <1>2 DEF Ordered, Laid, Pending, Keys, FileSteps, NbtBytes, RegionOf, RegionBytes, Slot
<1> QED
  BY <1>1, <1>3 DEF Progress

LEMMA ProgressInit == Init => Progress
BY DEF Init, Progress

\* A step of a whole checkout, and the world after its last.
LEMMA ProgressStep ==
  ASSUME Typed, Progress, Step
  PROVE  /\ Progress'
         /\ job.c # 0 => Laid(Tail(job.todo), job.m, files')
<1>1. job \in Jobs /\ job # Idle /\ job.todo # <<>> /\ job.m \in GoodManifests
  BY DEF Step, Typed, Jobs
<1>2. job.todo \in Seq(StepNames) /\ fresh = 0
  BY <1>1 DEF Jobs, Progress
<1>3. /\ files' = Written(Writes(Head(job.todo), job.m))
      /\ job' = IF Len(job.todo) = 1 THEN Idle ELSE [job EXCEPT !.todo = Tail(job.todo)]
      /\ fresh' = IF Len(job.todo) = 1 THEN job.c ELSE fresh
      /\ UNCHANGED <<trees, saved>>
  BY DEF Step
<1>4. \A p \in Paths : files'[p] = IF p \in DOMAIN Writes(Head(job.todo), job.m)
                                   THEN Writes(Head(job.todo), job.m)[p] ELSE files[p]
  BY <1>3 DEF Written
<1>5. ASSUME job.c # 0
      PROVE  /\ job.m = trees[job.c] /\ Ordered(Tail(job.todo))
             /\ Laid(Tail(job.todo), job.m, files')
  <2>1. job.m = trees[job.c] /\ Ordered(job.todo) /\ Laid(job.todo, job.m, files)
    BY <1>1, <1>5 DEF Progress
  <2>2. Ordered(Tail(job.todo))
    BY <1>1, <1>2, <2>1, TailOrders
  <2> DEFINE m == job.m
             todo == job.todo
             fs == files
             gs == files'
  <2>3. /\ m \in GoodManifests /\ todo \in Seq(StepNames) /\ todo # <<>> /\ Ordered(todo)
        /\ Laid(todo, m, fs)
        /\ \A p \in Paths : gs[p] = IF p \in DOMAIN Writes(Head(todo), m)
                                    THEN Writes(Head(todo), m)[p] ELSE fs[p]
    BY <1>1, <1>2, <1>4, <2>1
  <2> HIDE DEF m, todo, fs, gs
  <2>4. Laid(Tail(todo), m, gs)
    BY <2>3, StepLaid
  <2> QED
    BY <2>1, <2>2, <2>4 DEF m, todo, gs
<1>6. CASE Len(job.todo) = 1
  <2>1. job' = Idle /\ fresh' = job.c
    BY <1>3, <1>6
  <2>2. job.c # 0 => files' = Result(job.m)
    <3>1. Tail(job.todo) = <<>>
      BY <1>1, <1>2, <1>6, TailLemma
    <3>2. files' \in [Paths -> Good \cup {None}]
      BY StepTyped DEF Typed
    <3>3. \A x \in FileSteps : ~Pending(Tail(job.todo), x)
      BY <3>1, EmptyTodo
    <3> QED
      BY <1>5, <3>2, <3>3, LaidDown
  <2>3. job.c # 0 => files' = Result(trees[job.c])
    BY <1>5, <2>2
  <2>4. job.c # 0 => (files' = Result(trees'[job.c]))
    BY <1>3, <2>3
  <2>5. fresh' # 0 => (files = Result(trees[fresh]))'
    BY <2>1, <2>4 DEF Result, NbtBytes, RegionOf, RegionBytes, Slot
  <2>6. Idle' = Idle
    BY DEF Idle, EmptyManifest
  <2> QED
    BY <1>5, <2>1, <2>5, <2>6 DEF Progress
<1>7. CASE Len(job.todo) # 1
  <2>1. job' = [job EXCEPT !.todo = Tail(job.todo)] /\ fresh' = 0
    BY <1>2, <1>3, <1>7
  <2>2. job'.todo = Tail(job.todo) /\ job'.m = job.m /\ job'.c = job.c
    BY <1>1, <2>1 DEF Jobs
  <2>3. job'.c # 0 => job'.m = trees'[job'.c] /\ Ordered(job'.todo) /\ Laid(job'.todo, job'.m, files')
    BY <1>3, <1>5, <2>2
  <2>4. job'.c # 0 => (job.m = trees[job.c] /\ Ordered(job.todo) /\ Laid(job.todo, job.m, files))'
    BY <2>3 DEF Ordered, Laid, Pending, Keys, FileSteps, NbtBytes, RegionOf, RegionBytes, Slot
  <2> QED
    BY <1>5, <2>1, <2>4 DEF Progress
<1> QED
  BY <1>5, <1>6, <1>7

\* What a new commit leaves as it was.
LEMMA CommitKeeps ==
  ASSUME Typed, NEW new \in Commits, NEW m \in GoodManifests, NEW v \in Views \cup {None},
         Commit(new, m, head, v)
  PROVE  /\ Made' = Made \cup {new} /\ new \notin Made
         /\ trees'[new] = m /\ saved'[new] = v
         /\ \A c \in Made : trees'[c] = trees[c] /\ saved'[c] = saved[c]
BY CommitLemma DEF Typed

LEMMA ProgressNext == Typed /\ Progress /\ [Next]_vars => Progress'
<1> SUFFICES ASSUME Typed, Progress, [Next]_vars PROVE Progress'
  OBVIOUS
<1>0. Idle' = Idle
  BY DEF Idle, EmptyManifest
<1>1. CASE Edits
  BY <1>0, <1>1 DEF Edits, Progress
<1>2. CASE Reads
  <2>1. UNCHANGED <<files, trees, job, fresh>>
    BY <1>2 DEF Reads
  <2> QED
    BY <1>0, <2>1 DEF Progress, Ordered, Laid, Pending, Keys, FileSteps, Result, NbtBytes, RegionOf,
                      RegionBytes, Slot
<1>3. CASE CommitsNow
  <2>1. PICK new \in Commits : CommitStep(new, Effective, None) \/ CommitStep(new, snapshot, View(files))
    BY <1>3 DEF CommitsNow
  <2>2. PICK m \in GoodManifests, v \in Views \cup {None} : CommitStep(new, m, v)
    BY <2>1, MadeTrees
  <2>3. /\ Commit(new, m, head, v) /\ job = Idle /\ UNCHANGED <<files, job, fresh>>
    BY <1>3, <2>2 DEF CommitsNow, CommitStep
  <2>4. fresh # 0 => trees'[fresh] = trees[fresh]
    BY <2>3, CommitKeeps DEF Typed
  <2>5. fresh # 0 => files = Result(trees[fresh])
    BY DEF Progress
  <2>6. fresh' # 0 => (files = Result(trees[fresh]))'
    BY <2>3, <2>4, <2>5 DEF Result, NbtBytes, RegionOf, RegionBytes, Slot
  <2> QED
    BY <1>0, <2>3, <2>6 DEF Progress
<1>4. CASE StartsPlain
  <2>1. PICK todo \in Seq(StepNames), m \in GoodManifests, c \in Made \cup {0}, to \in Made \cup {0},
             stack \in Seq(Made) :
             StartJob(todo, m, c, to, stack, 0) /\ Whole(todo, m, c)
    BY <1>4 DEF StartsPlain
  <2>2. job' = Job(todo, m, c, to, stack) /\ fresh' = 0 /\ trees' = trees
    BY <2>1 DEF StartJob
  <2>3. c # 0 => m = trees'[c] /\ Full(todo)
    BY <2>1, <2>2 DEF Whole
  <2> QED
    BY <2>2, <2>3, Begun
<1>5. CASE StartsPop
  <2>1. PICK todo \in Seq(StepNames), stack \in Seq(Made), i \in 1 .. Len(stash) :
             /\ StartJob(todo, trees[stash[i]], stash[i], 0, stack, stash[i])
             /\ Full(todo)
    BY <1>5 DEF StartsPop
  <2>2. PICK c : c = stash[i]
    OBVIOUS
  <2>3. PICK m : m = trees[c]
    OBVIOUS
  <2>4. job' = Job(todo, m, c, 0, stack) /\ fresh' = 0 /\ trees' = trees
    BY <2>1, <2>2, <2>3 DEF StartJob
  <2>5. m = trees'[c]
    BY <2>3, <2>4
  <2> QED
    BY <2>1, <2>4, <2>5, Begun
<1>6. CASE StartsReplay
  <2>1. PICK new \in Commits, todo \in Seq(StepNames), m \in GoodManifests :
             CommitJob(new, m, None, todo, m, new, new, <<>>, 0) /\ Full(todo)
    BY <1>6 DEF StartsReplay
  <2>2. Commit(new, m, head, None) /\ job' = Job(todo, m, new, new, <<>>) /\ fresh' = 0
    BY <2>1 DEF CommitJob
  <2>3. trees'[new] = m
    BY <2>2, CommitKeeps
  <2> QED
    BY <2>1, <2>2, <2>3, Begun
<1>7. CASE StartsPush
  <2>1. PICK new \in Commits, todo \in Seq(StepNames) :
             /\ CommitJob(new, snapshot, View(files), todo, TreeOf(head), head, 0,
                          Append(stash, new), new)
             /\ head # 0 => Full(todo)
    BY <1>7 DEF StartsPush
  <2>2. PICK m, c, stack : m = TreeOf(head) /\ c = head /\ stack = Append(stash, new)
    OBVIOUS
  <2>3. PICK mm \in GoodManifests, v \in Views \cup {None} : mm = snapshot /\ v = View(files)
    BY MadeTrees
  <2>4. Commit(new, mm, head, v) /\ job' = Job(todo, m, c, 0, stack) /\ fresh' = 0
    BY <2>1, <2>2, <2>3 DEF CommitJob
  <2>5. c # 0 => m = trees'[c] /\ Full(todo)
    BY <2>1, <2>2, <2>4, CommitKeeps DEF Typed, TreeOf
  <2> QED
    BY <2>4, <2>5, Begun
<1>8. CASE Step
  BY <1>8, ProgressStep
<1>9. CASE Kills
  <2>1. job # Idle /\ job' = Idle /\ fresh' = fresh
    BY <1>9 DEF Kills, Kill, ghosts
  <2> QED
    BY <1>0, <2>1 DEF Progress
<1> QED
  BY <1>1, <1>2, <1>3, <1>4, <1>5, <1>6, <1>7, <1>8, <1>9, NextKinds

LEMMA ProgressHolds == Spec => [](Typed /\ Progress)
<1>1. Init => Typed /\ Progress
  BY TypedInit, ProgressInit
<1>2. (Typed /\ Progress) /\ [Next]_vars => (Typed /\ Progress)'
  BY TypedNext, ProgressNext
<1> QED
  BY <1>1, <1>2, PTL DEF Spec

\* The empty directories of a whole checkout are there once that step is done.
DirsProgress ==
  /\ job # Idle /\ job.c # 0 /\ ~Pending(job.todo, "dirs") => job.m.empty_dirs \subseteq dirs
  /\ fresh # 0 => trees[fresh].empty_dirs \subseteq dirs

LEMMA DirsStep ==
  ASSUME Typed, Progress, DirsProgress, Step
  PROVE  DirsProgress'
<1>1. job \in Jobs /\ job # Idle /\ job.todo # <<>> /\ job.todo \in Seq(StepNames) /\ fresh = 0
  BY DEF Step, Typed, Jobs, Progress
<1>2. /\ dirs' = dirs \cup DirsMade(Head(job.todo), job.m)
      /\ job' = IF Len(job.todo) = 1 THEN Idle ELSE [job EXCEPT !.todo = Tail(job.todo)]
      /\ fresh' = IF Len(job.todo) = 1 THEN job.c ELSE fresh
      /\ trees' = trees
  BY DEF Step
<1>3. job.c # 0 => job.m = trees[job.c]
  BY <1>1 DEF Progress
<1>4. ASSUME job.c # 0, ~Pending(Tail(job.todo), "dirs")
      PROVE  job.m.empty_dirs \subseteq dirs'
  <2>1. CASE Head(job.todo) = "dirs"
    BY <1>2, <2>1 DEF DirsMade
  <2>2. CASE Head(job.todo) # "dirs"
    <3>1. ~Pending(job.todo, "dirs")
      BY <1>1, <1>4, <2>2, TailLemma
    <3> QED
      BY <1>1, <1>2, <1>4, <3>1 DEF DirsProgress
  <2> QED
    BY <2>1, <2>2
<1>5. CASE Len(job.todo) = 1
  <2>1. job' = Idle /\ fresh' = job.c /\ Idle' = Idle
    BY <1>2, <1>5 DEF Idle, EmptyManifest
  <2>2. ~Pending(Tail(job.todo), "dirs")
    BY <1>1, <1>5, TailLemma, EmptyTodo
  <2>3. fresh' # 0 => trees'[fresh'].empty_dirs \subseteq dirs'
    BY <1>2, <1>3, <1>4, <2>1, <2>2
  <2> QED
    BY <2>1, <2>3 DEF DirsProgress
<1>6. CASE Len(job.todo) # 1
  <2>1. job' = [job EXCEPT !.todo = Tail(job.todo)] /\ fresh' = 0
    BY <1>1, <1>2, <1>6
  <2>2. job'.todo = Tail(job.todo) /\ job'.m = job.m /\ job'.c = job.c
    BY <1>1, <2>1 DEF Jobs
  <2>3. job'.c # 0 /\ ~Pending(job'.todo, "dirs") => job'.m.empty_dirs \subseteq dirs'
    BY <1>4, <2>2
  <2>4. Pending(job.todo, "dirs")' <=> Pending(job'.todo, "dirs")
    BY DEF Pending
  <2> QED
    BY <2>1, <2>3, <2>4 DEF DirsProgress
<1> QED
  BY <1>5, <1>6

\* A job that begins has its directories to make.
LEMMA DirsBegun ==
  ASSUME NEW todo, NEW m, NEW c, NEW to, NEW stack, job' = Job(todo, m, c, to, stack), fresh' = 0,
         c # 0 => Full(todo)
  PROVE  DirsProgress'
<1>1. job'.todo = todo /\ job'.c = c
  BY DEF Job
<1>2. c # 0 => Pending(todo, "dirs")
  BY DEF Full
<1>3. Pending(job.todo, "dirs")' <=> Pending(job'.todo, "dirs")
  BY DEF Pending
<1> QED
  BY <1>1, <1>2, <1>3 DEF DirsProgress

LEMMA DirsNext == Typed /\ Progress /\ DirsProgress /\ [Next]_vars => DirsProgress'
<1> SUFFICES ASSUME Typed, Progress, DirsProgress, [Next]_vars PROVE DirsProgress'
  OBVIOUS
<1>0. Idle' = Idle
  BY DEF Idle, EmptyManifest
<1>1. CASE Edits
  BY <1>0, <1>1 DEF Edits, DirsProgress
<1>2. CASE Reads
  <2>1. UNCHANGED <<dirs, trees, job, fresh>>
    BY <1>2 DEF Reads
  <2> QED
    BY <1>0, <2>1 DEF DirsProgress, Pending
<1>3. CASE CommitsNow
  <2>1. PICK new \in Commits : CommitStep(new, Effective, None) \/ CommitStep(new, snapshot, View(files))
    BY <1>3 DEF CommitsNow
  <2>2. PICK m \in GoodManifests, v \in Views \cup {None} : CommitStep(new, m, v)
    BY <2>1, MadeTrees
  <2>3. /\ Commit(new, m, head, v) /\ job = Idle /\ UNCHANGED <<dirs, job, fresh>>
    BY <1>3, <2>2 DEF CommitsNow, CommitStep
  <2>4. fresh # 0 => trees'[fresh] = trees[fresh]
    BY <2>3, CommitKeeps DEF Typed
  <2> QED
    BY <1>0, <2>3, <2>4 DEF DirsProgress
<1>4. CASE StartsPlain
  <2>1. PICK todo \in Seq(StepNames), m \in GoodManifests, c \in Made \cup {0}, to \in Made \cup {0},
             stack \in Seq(Made) :
             StartJob(todo, m, c, to, stack, 0) /\ Whole(todo, m, c)
    BY <1>4 DEF StartsPlain
  <2>2. job' = Job(todo, m, c, to, stack) /\ fresh' = 0 /\ (c # 0 => Full(todo))
    BY <2>1 DEF StartJob, Whole
  <2> QED
    BY <2>2, DirsBegun
<1>5. CASE StartsPop
  <2>1. PICK todo, m, c, stack, s : StartJob(todo, m, c, 0, stack, s) /\ Full(todo)
    BY <1>5, Zenon DEF StartsPop
  <2>2. job' = Job(todo, m, c, 0, stack) /\ fresh' = 0
    BY <2>1 DEF StartJob
  <2> QED
    BY <2>1, <2>2, DirsBegun
<1>6. CASE StartsReplay \/ StartsPush
  <2>1. PICK new, mm, v, todo, m, c, to, stack, s :
             CommitJob(new, mm, v, todo, m, c, to, stack, s) /\ (c # 0 => Full(todo))
    BY <1>6, Zenon DEF StartsReplay, StartsPush
  <2>2. job' = Job(todo, m, c, to, stack) /\ fresh' = 0
    BY <2>1 DEF CommitJob
  <2> QED
    BY <2>1, <2>2, DirsBegun
<1>7. CASE Step
  BY <1>7, DirsStep
<1>8. CASE Kills
  <2>1. job # Idle /\ job' = Idle /\ fresh' = fresh
    BY <1>8 DEF Kills, Kill, ghosts
  <2> QED
    BY <1>0, <2>1 DEF Progress, DirsProgress
<1> QED
  BY <1>1, <1>2, <1>3, <1>4, <1>5, <1>6, <1>7, <1>8, NextKinds

\* After a whole checkout of any commit that lists the .mcc files it needs,
\* status shows no changed file: whatever was in the world, in whatever order
\* kinds compete for a path, and whatever was killed over it before.  Nor is an
\* empty directory missing, but for those in which the commit has a file.
THEOREM FreshIsCleanTheorem == Spec => []FreshIsClean
<1>1. Typed /\ Progress /\ DirsProgress => FreshIsClean
  <2> SUFFICES ASSUME Typed, Progress, DirsProgress, fresh # 0, SpillsListed(trees[fresh]),
                      ~IsRegion(trees[fresh].blobs)
               PROVE  Changed(trees[fresh], snapshot)
                        \subseteq (Dirs \ trees[fresh].empty_dirs) \cup Homes(Keys(trees[fresh]))
    BY DEF FreshIsClean
  <2>1. files = Result(trees[fresh]) /\ trees[fresh] \in GoodManifests
    BY MadeTrees DEF Progress, Typed
  <2>2. dirs \in SUBSET Dirs /\ trees[fresh].empty_dirs \subseteq dirs
    BY DEF Typed, DirsProgress
  <2> QED
    BY <2>1, <2>2, CleanAfter DEF snapshot
<1>2. Init => DirsProgress
  BY DEF Init, DirsProgress
<1>3. DirsProgress /\ (Typed /\ Progress) /\ [Next]_vars => DirsProgress'
  BY DirsNext
<1> QED
  BY <1>1, <1>2, <1>3, ProgressHolds, PTL DEF Spec

-----------------------------------------------------------------------------
(* The world that was taken is in its commit.                               *)

GivenBack ==
  \A c \in Commits : saved[c] # None => c \in Made /\ View(Result(trees[c])) = saved[c]

LEMMA GivenBackInit == Init => GivenBack
BY DEF Init, GivenBack

\* A commit of the world as it is, or one of which nothing is promised.
LEMMA GivenBackCommit ==
  ASSUME Typed, GivenBack, NEW new \in Commits, NEW m \in GoodManifests,
         NEW v \in Views \cup {None}, v # None => View(Result(m)) = v, Commit(new, m, head, v)
  PROVE  GivenBack'
<1>1. /\ Made' = Made \cup {new} /\ trees'[new] = m /\ saved'[new] = v
      /\ \A c \in Made : trees'[c] = trees[c] /\ saved'[c] = saved[c]
  BY CommitKeeps
<1>2. \A c \in Commits \ {new} : saved'[c] = saved[c]
  BY DEF Commit, Typed
<1>3. ASSUME NEW c \in Commits, saved'[c] # None
      PROVE  c \in Made' /\ View(Result(trees'[c])) = saved'[c]
  <2>1. CASE c = new
    BY <1>1, <1>3, <2>1
  <2>2. CASE c # new
    <3>1. saved'[c] = saved[c] /\ c \in Made /\ View(Result(trees[c])) = saved[c]
      BY <1>2, <1>3, <2>2 DEF GivenBack
    <3> QED
      BY <1>1, <3>1
  <2> QED
    BY <2>1, <2>2
<1> QED
  BY <1>3 DEF GivenBack

LEMMA GivenBackSame ==
  ASSUME GivenBack, UNCHANGED <<trees, saved>>
  PROVE  GivenBack'
BY DEF GivenBack, Made

LEMMA SnapshotGivenBack ==
  ASSUME ZLibSpills, Typed
  PROVE  View(Result(snapshot)) = View(files)
BY GivesBack DEF snapshot, Typed

LEMMA GivenBackNext ==
  ASSUME ZLibSpills, Typed, GivenBack, [Next]_vars
  PROVE  GivenBack'
<1>1. CASE Edits \/ Reads
  BY <1>1, GivenBackSame DEF Edits, Reads
<1>2. CASE CommitsNow
  <2>1. PICK new \in Commits : CommitStep(new, Effective, None) \/ CommitStep(new, snapshot, View(files))
    BY <1>2 DEF CommitsNow
  <2>2. PICK m \in GoodManifests, v \in Views \cup {None} :
             CommitStep(new, m, v) /\ (v # None => View(Result(m)) = v)
    BY <2>1, MadeTrees, SnapshotGivenBack
  <2> QED
    BY <2>2, GivenBackCommit DEF CommitStep
<1>3. CASE StartsPlain \/ StartsPop
  BY <1>3, GivenBackSame DEF StartsPlain, StartsPop, StartJob
<1>4. CASE StartsReplay
  <2>1. PICK new \in Commits, todo \in Seq(StepNames), m \in GoodManifests :
             CommitJob(new, m, None, todo, m, new, new, <<>>, 0)
    BY <1>4 DEF StartsReplay
  <2> QED
    BY <2>1, GivenBackCommit DEF CommitJob
<1>5. CASE StartsPush
  <2>1. PICK new \in Commits : Commit(new, snapshot, head, View(files))
    BY <1>5 DEF StartsPush, CommitJob
  <2>2. PICK m \in GoodManifests, v \in Views \cup {None} :
             Commit(new, m, head, v) /\ (v # None => View(Result(m)) = v)
    BY <2>1, MadeTrees, SnapshotGivenBack
  <2> QED
    BY <2>2, GivenBackCommit
<1>6. CASE Step
  BY <1>6, GivenBackSame DEF Step
<1>7. CASE Kills
  BY <1>7, GivenBackSame DEF Kills, Kill, repo, ghosts
<1> QED
  BY <1>1, <1>2, <1>3, <1>4, <1>5, <1>6, <1>7, NextKinds

\* A whole checkout gives the game back the world that `commit -a` or `stash
\* push` took, through regions, .mcc files and blob fallbacks, for every size
\* of world and every history; of the game it is assumed that it stores the
\* chunks that checkout spills as zlib, and out of line.
THEOREM CheckoutGivesBackTheorem ==
  ASSUME ZLibSpills
  PROVE  Spec => []CheckoutGivesBack
<1> DEFINE I == Typed /\ Progress /\ GivenBack
<1>1. Init => I
  BY TypedInit, ProgressInit, GivenBackInit
<1>2. I /\ [Next]_vars => I'
  BY TypedNext, ProgressNext, GivenBackNext
<1>3. I => CheckoutGivesBack
  <2> SUFFICES ASSUME Typed, Progress, GivenBack, fresh # 0, saved[fresh] # None
               PROVE  View(files) = saved[fresh]
    BY DEF CheckoutGivesBack
  <2>1. files = Result(trees[fresh]) /\ fresh \in Commits
    BY MadeTrees DEF Progress, Typed
  <2> QED
    BY <2>1 DEF GivenBack
<1> QED
  BY <1>1, <1>2, <1>3, PTL DEF Spec

-----------------------------------------------------------------------------
(* The player's work while a stash is pushed or popped.                     *)

\* A push records the stash before it touches the world.
Pushing ==
  /\ shelved \in Range(job.stack) /\ StackFirst(job.todo)
  /\ IF Pending(job.todo, "stack") THEN View(files) = saved[shelved] ELSE shelved \in Range(stash)

\* A pop has written the world before it touches the stash.
Popping ==
  /\ shelved = job.c /\ saved[shelved] # None /\ StackLast(job.todo)
  /\ shelved \in Range(stash) \/ \A x \in FileSteps : ~Pending(job.todo, x)

Shelving ==
  /\ \A c \in Range(stash) : saved[c] # None
  /\ \A c \in Range(job.stack) : saved[c] # None
  /\ job # Idle /\ shelved # 0 => Pushing \/ Popping
  /\ WorkIsSomewhere

LEMMA RangeLemma ==
  /\ Range(<<>>) = {}
  /\ \A S : \A s \in Seq(S) : Range(s) \subseteq S
  /\ \A S : \A s \in Seq(S) : \A i \in 1 .. Len(s) : s[i] \in Range(s)
  /\ \A S : \A s \in Seq(S), x \in S : Range(Append(s, x)) = Range(s) \cup {x}
  /\ \A S, T : \A s \in Seq(S), t \in Seq(T) :
       (\A i \in 1 .. Len(s) : i \in 1 .. Len(t) /\ s[i] = t[i]) => Range(s) \subseteq Range(t)
<1>1. \A S : \A s \in Seq(S) : DOMAIN s = 1 .. Len(s) /\ Len(s) \in Nat
  BY LenProperties
<1>2. \A S : \A s \in Seq(S) : \A i \in 1 .. Len(s) : s[i] \in S
  BY ElementOfSeq
<1>3. Range(<<>>) = {}
  BY DEF Range
<1>4. \A S : \A s \in Seq(S) : Range(s) \subseteq S
  BY <1>1, <1>2 DEF Range
<1>5. \A S : \A s \in Seq(S) : \A i \in 1 .. Len(s) : s[i] \in Range(s)
  BY <1>1 DEF Range
<1>6. ASSUME NEW S, NEW s \in Seq(S), NEW x \in S PROVE Range(Append(s, x)) = Range(s) \cup {x}
  <2>1. /\ Append(s, x) \in Seq(S) /\ Len(Append(s, x)) = Len(s) + 1
        /\ \A i \in 1 .. Len(s) : Append(s, x)[i] = s[i]
        /\ Append(s, x)[Len(s) + 1] = x
    BY AppendProperties
  <2> DEFINE t == Append(s, x)
             n == Len(s)
  <2>2. DOMAIN t = 1 .. n + 1 /\ DOMAIN s = 1 .. n /\ n \in Nat
    BY <1>1, <2>1
  <2>3. \A i \in 1 .. n + 1 : i \in 1 .. n \/ i = n + 1
    BY <2>2
  <2>4. n + 1 \in 1 .. n + 1 /\ \A i \in 1 .. n : i \in 1 .. n + 1
    BY <2>2
  <2>5. (\A i \in 1 .. n : t[i] = s[i]) /\ t[n + 1] = x
    BY <2>1
  <2> HIDE DEF t, n
  <2>6. Range(t) = Range(s) \cup {x}
    BY <2>2, <2>3, <2>4, <2>5 DEF Range
  <2> QED
    BY <2>6 DEF t
<1>7. ASSUME NEW S, NEW T, NEW s \in Seq(S), NEW t \in Seq(T),
             \A i \in 1 .. Len(s) : i \in 1 .. Len(t) /\ s[i] = t[i]
      PROVE  Range(s) \subseteq Range(t)
  BY <1>1, <1>7 DEF Range
<1> QED
  BY <1>3, <1>4, <1>5, <1>6, <1>7

LEMMA ShelvingInit == Init => Shelving
BY RangeLemma DEF Init, Shelving, WorkIsSomewhere, Idle

\* Nothing is shelved: no more to show than what is on the stash.
LEMMA ShelvingNone ==
  ASSUME shelved' = 0, \A c \in Range(stash') : saved'[c] # None,
         \A c \in Range(job'.stack) : saved'[c] # None
  PROVE  Shelving'
BY DEF Shelving, WorkIsSomewhere

LEMMA ShelvingStep ==
  ASSUME Typed, Progress, GivenBack, Shelving, Step
  PROVE  Shelving'
<1> DEFINE h == Head(job.todo)
           t == Tail(job.todo)
<1>1. job \in Jobs /\ job # Idle /\ job.todo # <<>> /\ job.m \in GoodManifests
  BY DEF Step, Typed, Jobs
<1>2. job.todo \in Seq(StepNames)
  BY <1>1 DEF Jobs
<1>3. /\ files' = Written(Writes(h, job.m))
      /\ job' = IF Len(job.todo) = 1 THEN Idle ELSE [job EXCEPT !.todo = t]
      /\ stash' = IF h = "truncate" THEN <<>> ELSE IF h = "stack" THEN job.stack ELSE stash
      /\ UNCHANGED <<trees, saved, shelved>>
  BY DEF Step
<1>4. /\ \A x : Pending(job.todo, x) <=> x = h \/ Pending(t, x)
      /\ Len(job.todo) = 1 => t = <<>>
  BY <1>1, <1>2, TailLemma
<1>5. h \notin FileSteps => files' = files
  <2>1. h \notin FileSteps => DOMAIN Writes(h, job.m) = {}
    BY <1>1, WritesTyped
  <2> QED
    BY <1>3, <2>1 DEF Written, Typed
<1>6. files' \in [Paths -> Good \cup {None}] /\ job' \in Jobs'
  BY StepTyped DEF Typed
<1>7. job'.stack = job.stack \/ job' = Idle
  BY <1>1, <1>3 DEF Jobs
<1> HIDE DEF h, t
<1>8. /\ \A c \in Range(stash') : saved'[c] # None
      /\ \A c \in Range(job'.stack) : saved'[c] # None
  BY <1>3, <1>7, RangeLemma DEF Shelving, Idle
<1>9. CASE shelved = 0
  BY <1>3, <1>8, <1>9, ShelvingNone
<1>10. CASE shelved # 0 /\ Pushing
  <2>1. /\ shelved \in Range(job.stack) /\ StackFirst(job.todo)
        /\ IF Pending(job.todo, "stack") THEN View(files) = saved[shelved]
           ELSE shelved \in Range(stash)
    BY <1>10 DEF Pushing
  <2>2. /\ StackFirst(t)
        /\ h \in FileSteps => ~Pending(t, "truncate") /\ ~Pending(t, "stack")
        /\ h = "truncate" => Pending(t, "stack")
    BY <1>1, <1>2, <2>1, TailOrders DEF h, t
  <2>3. IF Pending(t, "stack") THEN View(files') = saved'[shelved'] ELSE shelved' \in Range(stash')
    <3>1. CASE Pending(t, "stack")
      <4>1. h \notin FileSteps /\ Pending(job.todo, "stack")
        BY <1>4, <2>2, <3>1
      <4> QED
        BY <1>3, <1>5, <2>1, <3>1, <4>1
    <3>2. CASE ~Pending(t, "stack")
      <4>1. h # "truncate"
        BY <2>2, <3>2
      <4>2. CASE h = "stack"
        BY <1>3, <2>1, <3>2, <4>2
      <4>3. CASE h # "stack"
        BY <1>3, <1>4, <2>1, <3>2, <4>1, <4>3
      <4> QED
        BY <4>2, <4>3
    <3> QED
      BY <3>1, <3>2
  <2>4. WorkIsSomewhere'
    BY <2>3 DEF WorkIsSomewhere
  <2>5. CASE Len(job.todo) = 1
    BY <1>3, <1>8, <2>4, <2>5 DEF Shelving
  <2>6. CASE Len(job.todo) # 1
    <3>1. job'.todo = t /\ job'.stack = job.stack
      BY <1>1, <1>3, <2>6 DEF Jobs
    <3>2. Pushing'
      BY <1>3, <2>1, <2>2, <2>3, <3>1 DEF Pushing
    <3> QED
      BY <1>8, <2>4, <3>2 DEF Shelving
  <2> QED
    BY <2>5, <2>6
<1>11. CASE shelved # 0 /\ Popping
  <2>1. /\ shelved = job.c /\ saved[shelved] # None /\ StackLast(job.todo)
        /\ shelved \in Range(stash) \/ \A x \in FileSteps : ~Pending(job.todo, x)
    BY <1>11 DEF Popping
  <2>2. /\ StackLast(t)
        /\ h \in {"truncate", "stack"} => \A x \in FileSteps : ~Pending(t, x)
    BY <1>1, <1>2, <2>1, TailOrders DEF h, t
  <2>3. shelved' \in Range(stash') \/ \A x \in FileSteps : ~Pending(t, x)
    BY <1>3, <1>4, <2>1, <2>2
  <2>4. /\ job.m = trees[job.c] /\ Laid(t, job.m, files')
    BY <1>1, <1>11, <2>1, ProgressStep DEF Progress, t
  <2>5. (\A x \in FileSteps : ~Pending(t, x)) => View(files') = saved'[shelved']
    <3>1. job.c \in Commits
      BY <1>1, <1>11, <2>1, MadeTrees DEF Jobs
    <3>2. View(Result(job.m)) = saved[shelved]
      BY <2>1, <2>4, <3>1 DEF GivenBack
    <3>3. PICK fs, m : fs = files' /\ m = job.m
      OBVIOUS
    <3>4. (\A x \in FileSteps : ~Pending(t, x)) => fs = Result(m)
      BY <1>6, <2>4, <3>3, LaidDown
    <3> QED
      BY <1>3, <3>2, <3>3, <3>4
  <2>6. WorkIsSomewhere'
    BY <2>3, <2>5 DEF WorkIsSomewhere
  <2>7. CASE Len(job.todo) = 1
    BY <1>3, <1>8, <2>6, <2>7 DEF Shelving
  <2>8. CASE Len(job.todo) # 1
    <3>1. job'.todo = t /\ job'.c = job.c
      BY <1>1, <1>3, <2>8 DEF Jobs
    <3>2. Popping'
      BY <1>3, <2>1, <2>2, <2>3, <3>1 DEF Popping
    <3> QED
      BY <1>8, <2>6, <3>2 DEF Shelving
  <2> QED
    BY <2>7, <2>8
<1> QED
  BY <1>1, <1>9, <1>10, <1>11 DEF Shelving

LEMMA ShelvingKill ==
  ASSUME Typed, Progress, GivenBack, Shelving,
         NEW done, NEW torn, NEW mkdirs, Kill(done, torn, mkdirs)
  PROVE  Shelving'
<1> DEFINE h == Head(job.todo)
           t == Tail(job.todo)
<1>1. job \in Jobs /\ job # Idle /\ job.todo # <<>> /\ job.m \in GoodManifests
  BY DEF Kill, Typed, Jobs
<1>2. job.todo \in Seq(StepNames)
  BY <1>1 DEF Jobs
<1>3. /\ done \subseteq DOMAIN Writes(h, job.m) /\ torn \subseteq DOMAIN Writes(h, job.m)
      /\ files' = [p \in Paths |-> IF p \in torn THEN Truncated
                                   ELSE IF p \in done THEN Writes(h, job.m)[p] ELSE files[p]]
      /\ job' = Idle
      /\ UNCHANGED <<trees, stash, saved, shelved>>
  BY DEF Kill, repo, ghosts
<1>4. \A x : Pending(job.todo, x) <=> x = h \/ Pending(t, x)
  BY <1>1, <1>2, TailLemma
<1>5. h \notin FileSteps => files' = files
  <2>1. h \notin FileSteps => done = {} /\ torn = {}
    BY <1>1, <1>3, WritesTyped
  <2> QED
    BY <1>3, <2>1 DEF Typed
<1> HIDE DEF h, t
<1>6. /\ \A c \in Range(stash') : saved'[c] # None
      /\ \A c \in Range(job'.stack) : saved'[c] # None
  BY <1>3, RangeLemma DEF Shelving, Idle
<1>7. CASE shelved = 0
  BY <1>3, <1>6, <1>7, ShelvingNone
<1>8. CASE shelved # 0 /\ Pushing
  <2>1. /\ StackFirst(job.todo)
        /\ IF Pending(job.todo, "stack") THEN View(files) = saved[shelved]
           ELSE shelved \in Range(stash)
    BY <1>8 DEF Pushing
  <2>2. h \in FileSteps => ~Pending(t, "stack") /\ h # "stack"
    <3>1. h \in FileSteps => ~Pending(t, "stack")
      BY <1>1, <1>2, <2>1, TailOrders DEF h, t
    <3> QED
      BY <3>1 DEF FileSteps
  <2>3. shelved' \in Range(stash') \/ View(files') = saved'[shelved']
    BY <1>3, <1>4, <1>5, <2>1, <2>2
  <2> QED
    BY <1>3, <1>6, <2>3 DEF Shelving, WorkIsSomewhere
<1>9. CASE shelved # 0 /\ Popping
  <2>1. /\ shelved = job.c /\ saved[shelved] # None
        /\ shelved \in Range(stash) \/ \A x \in FileSteps : ~Pending(job.todo, x)
    BY <1>9 DEF Popping
  <2>2. job.m = trees[job.c] /\ Laid(job.todo, job.m, files)
    BY <1>1, <1>9, <2>1 DEF Progress
  <2>3. (\A x \in FileSteps : ~Pending(job.todo, x)) => View(files') = saved'[shelved']
    <3>1. job.c \in Commits
      BY <1>1, <1>9, <2>1, MadeTrees DEF Jobs
    <3>2. View(Result(job.m)) = saved[shelved]
      BY <2>1, <2>2, <3>1 DEF GivenBack
    <3>3. (\A x \in FileSteps : ~Pending(job.todo, x)) => files = Result(job.m)
      BY <2>2, LaidDown DEF Typed
    <3>4. (\A x \in FileSteps : ~Pending(job.todo, x)) => files' = files
      BY <1>4, <1>5
    <3> QED
      BY <1>3, <3>2, <3>3, <3>4
  <2>4. shelved' \in Range(stash') \/ View(files') = saved'[shelved']
    BY <1>3, <2>1, <2>3
  <2> QED
    BY <1>3, <1>6, <2>4 DEF Shelving, WorkIsSomewhere
<1> QED
  BY <1>1, <1>7, <1>8, <1>9 DEF Shelving

\* Entries of the stash stay entries of which the world is known.
LEMMA StashKept ==
  ASSUME Typed, Shelving, NEW new \in Commits, NEW m \in GoodManifests,
         NEW v \in Views \cup {None}, Commit(new, m, head, v)
  PROVE  /\ \A c \in Range(stash) : c \in Made /\ saved'[c] # None
         /\ shelved # 0 => shelved \in Made /\ saved'[shelved] = saved[shelved]
<1>1. \A c \in Made : saved'[c] = saved[c]
  BY CommitKeeps
<1>2. Range(stash) \subseteq Made
  BY RangeLemma DEF Typed
<1> QED
  BY <1>1, <1>2 DEF Shelving, Typed

LEMMA ShelvingNext ==
  ASSUME Typed, Progress, GivenBack, Shelving, [Next]_vars
  PROVE  Shelving'
<1>0. Idle.stack = <<>> /\ Range(Idle.stack) = {}
  BY RangeLemma DEF Idle
<1>1. CASE Edits
  <2>1. stash' = stash /\ saved' = saved /\ job' = Idle /\ shelved' = 0
    BY <1>1 DEF Edits
  <2> QED
    BY <1>0, <2>1, ShelvingNone DEF Shelving
<1>2. CASE Reads
  <2>1. UNCHANGED <<files, trees, stash, job, saved, shelved>>
    BY <1>2 DEF Reads
  <2> QED
    BY <2>1 DEF Shelving, WorkIsSomewhere, Pushing, Popping
<1>3. CASE CommitsNow
  <2>1. PICK new \in Commits : CommitStep(new, Effective, None) \/ CommitStep(new, snapshot, View(files))
    BY <1>3 DEF CommitsNow
  <2>2. PICK m \in GoodManifests, v \in Views \cup {None} : CommitStep(new, m, v)
    BY <2>1, MadeTrees
  <2>3. Commit(new, m, head, v) /\ job = Idle /\ UNCHANGED <<files, stash, job, shelved>>
    BY <1>3, <2>2 DEF CommitsNow, CommitStep
  <2>4. /\ \A c \in Range(stash) : saved'[c] # None
        /\ shelved # 0 => saved'[shelved] = saved[shelved]
    BY <2>3, StashKept
  <2>5. WorkIsSomewhere'
    BY <2>3, <2>4 DEF Shelving, WorkIsSomewhere
  <2> QED
    BY <1>0, <2>3, <2>4, <2>5 DEF Shelving
<1>4. CASE StartsPlain
  <2>1. PICK todo \in Seq(StepNames), m \in GoodManifests, c \in Made \cup {0}, to \in Made \cup {0},
             stack \in Seq(Made) :
             /\ StartJob(todo, m, c, to, stack, 0)
             /\ \A i \in 1 .. Len(stack) : i \in 1 .. Len(stash) /\ stack[i] = stash[i]
    BY <1>4 DEF StartsPlain
  <2>2. stash' = stash /\ saved' = saved /\ shelved' = 0 /\ job'.stack = stack
    BY <2>1 DEF StartJob, Job
  <2>3. Range(stack) \subseteq Range(stash)
    BY <2>1, RangeLemma DEF Typed
  <2> QED
    BY <2>2, <2>3, ShelvingNone DEF Shelving
<1>5. CASE StartsPop
  <2>1. PICK todo \in Seq(StepNames), stack \in Seq(Made), i \in 1 .. Len(stash) :
             /\ stash[i] \in Made
             /\ StartJob(todo, trees[stash[i]], stash[i], 0, stack, stash[i])
             /\ StackLast(todo)
             /\ \A k \in 1 .. Len(stack) : k \in 1 .. Len(stash) /\ stack[k] = stash[k]
    BY <1>5 DEF StartsPop
  <2>2. /\ stash' = stash /\ saved' = saved /\ shelved' = stash[i]
        /\ job'.stack = stack /\ job'.todo = todo /\ job'.c = stash[i]
    BY <2>1 DEF StartJob, Job
  <2>3. Range(stack) \subseteq Range(stash) /\ stash[i] \in Range(stash)
    BY <2>1, RangeLemma DEF Typed
  <2>4. saved[stash[i]] # None
    BY <2>3 DEF Shelving
  <2>5. Popping'
    BY <2>1, <2>2, <2>3, <2>4 DEF Popping
  <2>6. WorkIsSomewhere'
    BY <2>2, <2>3 DEF WorkIsSomewhere
  <2> QED
    BY <2>2, <2>3, <2>5, <2>6 DEF Shelving
<1>6. CASE StartsReplay
  <2>1. PICK new \in Commits, todo \in Seq(StepNames), m \in GoodManifests :
             CommitJob(new, m, None, todo, m, new, new, <<>>, 0)
    BY <1>6 DEF StartsReplay
  <2>2. Commit(new, m, head, None) /\ stash' = stash /\ shelved' = 0 /\ job'.stack = <<>>
    BY <2>1 DEF CommitJob, Job
  <2>3. \A c \in Range(stash) : saved'[c] # None
    BY <2>2, StashKept
  <2> QED
    BY <2>2, <2>3, ShelvingNone, RangeLemma
<1>7. CASE StartsPush
  <2>1. PICK new \in Commits, todo \in Seq(StepNames) :
             /\ CommitJob(new, snapshot, View(files), todo, TreeOf(head), head, 0,
                          Append(stash, new), new)
             /\ StackFirst(todo) /\ Pending(todo, "stack")
    BY <1>7 DEF StartsPush
  <2>2. PICK m \in GoodManifests, v \in Views : m = snapshot /\ v = View(files)
    BY MadeTrees
  <2>3. /\ Commit(new, m, head, v) /\ stash' = stash /\ shelved' = new /\ files' = files
        /\ job'.stack = Append(stash, new) /\ job'.todo = todo
    BY <2>1, <2>2 DEF CommitJob, Job
  <2>4. (\A c \in Range(stash) : saved'[c] # None) /\ saved'[new] = v /\ v # None
    BY <2>3, StashKept, CommitKeeps, DataAssumption
  <2>5. Range(Append(stash, new)) = Range(stash) \cup {new}
    <3>1. stash \in Seq(Commits)
      BY SeqGrows DEF Typed, Made
    <3> QED
      BY <3>1, RangeLemma
  <2>6. View(files') = saved'[shelved']
    BY <2>2, <2>3, <2>4
  <2>7. Pushing'
    BY <2>1, <2>3, <2>5, <2>6 DEF Pushing
  <2>8. WorkIsSomewhere'
    BY <2>6 DEF WorkIsSomewhere
  <2> QED
    BY <2>3, <2>4, <2>5, <2>7, <2>8 DEF Shelving
<1>8. CASE Step
  BY <1>8, ShelvingStep
<1>9. CASE Kills
  BY <1>9, ShelvingKill DEF Kills
<1> QED
  BY <1>1, <1>2, <1>3, <1>4, <1>5, <1>6, <1>7, <1>8, <1>9, NextKinds

\* While a stash is pushed or popped, and wherever the command is killed, the
\* player's work is on the stash or in the world, under the same assumption
\* on the game: a push records the stash before it touches the world, a pop
\* has written all of the world before it touches the stash.
THEOREM WorkIsSomewhereTheorem ==
  ASSUME ZLibSpills
  PROVE  Spec => []WorkIsSomewhere
<1> DEFINE I == Typed /\ Progress /\ GivenBack /\ Shelving
<1>1. Init => I
  BY TypedInit, ProgressInit, GivenBackInit, ShelvingInit
<1>2. I /\ [Next]_vars => I'
  BY TypedNext, ProgressNext, GivenBackNext, ShelvingNext
<1>3. I => WorkIsSomewhere
  BY DEF Shelving
<1> QED
  BY <1>1, <1>2, <1>3, PTL DEF Spec

=============================================================================
