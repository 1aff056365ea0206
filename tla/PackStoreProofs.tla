--------------------------- MODULE PackStoreProofs --------------------------
(***************************************************************************)
(* Proofs about PackStore.tla, for any number of processes, objects and    *)
(* pack files, in layers:                                                  *)
(*                                                                         *)
(*   TypedInv    the types, and what a process has at each of its steps    *)
(*               (Phased), with any processes at once;                     *)
(*   PackInv     nobody writes to an installed pack any more (Installed):  *)
(*               the one writer has its own file under the shared tmp path *)
(*               (PackHolds), if commits take turns and gc is alone;       *)
(*   SoundInv    the branch is all there (Whole): every object it needs is *)
(*               loose or in an indexed pack, a file not yet filled has a  *)
(*               process that will fill it (Filled), and each command      *)
(*               has, at every step, what it will name in the end          *)
(*               (CommitHolds, ReceiveHolds, GcHolds);                     *)
(*   LastingInv  what was reported as done is in the history of the branch *)
(*               and of every commit that is about to replace its tip.     *)
(*                                                                         *)
(* A history is the least set closed under the parents it follows, which   *)
(* is what is known of the recursive walks of the model.                   *)
(***************************************************************************)
EXTENDS MCPackStore, FiniteSetTheorems, SequenceTheorems, WellFoundedInduction, TLAPS

-----------------------------------------------------------------------------
(* Lineages: the least sets that are closed under the parents they follow.  *)

Below == {p \in Nat \X Nat : p[1] < p[2]}

\* A nonempty set of numbers has a least one.
LEMMA LeastLemma ==
  ASSUME NEW T, T \subseteq Nat, NEW x \in T
  PROVE  \E n \in T : \A m \in T : n <= m
<1>1. Below = OpToRel(<, Nat)
  BY DEF Below, OpToRel
<1>2. IsWellFoundedOn(Below, Nat)
  BY <1>1, NatLessThanWellFounded, Zenon
<1>3. PICK n \in T : \A m \in T : ~(<<m, n>> \in Below)
  BY <1>2, WFMin
<1>4. ASSUME NEW m \in T PROVE n <= m
  <2>1. m \in Nat /\ n \in Nat
    OBVIOUS
  <2>2. ~(m < n)
    BY <1>3, <2>1 DEF Below
  <2> QED
    BY <2>1, <2>2
<1> QED
  BY <1>4

\* The parents a walk follows are older commits, or none.
LEMMA ParentLemma ==
  ASSUME StoreTypeOK, NEW n \in DOMAIN commits
  PROVE  /\ n \in 1 .. MaxCommits /\ n \in Nat
         /\ commits[n].parent \in 0 .. MaxCommits /\ commits[n].parent < n
         /\ commits[n].parent \in DOMAIN commits \cup {0}
         /\ commits[n].leaf \in Leaves
<1>1. Len(commits) \in Nat /\ DOMAIN commits = 1 .. Len(commits)
  BY DEF StoreTypeOK
<1>2. commits \in Seq([parent : 0 .. MaxCommits, leaf : Leaves]) /\ commits[n].parent < n
  BY DEF StoreTypeOK
<1>3. commits[n] \in [parent : 0 .. MaxCommits, leaf : Leaves]
  BY <1>1, <1>2, ElementOfSeq
<1> QED
  BY <1>1, <1>2, <1>3, StoreBoundAssumption DEF StoreTypeOK

\* T is closed under the parents of those of its commits that are in on.
ClosedIn(on, T) ==
  \A m \in T \cap on : m \in DOMAIN commits => commits[m].parent \in T \cup {0}

\* What a walk from n meets, on being the commits it goes on from.
Follows(on, n, W) ==
  /\ n \in W /\ W \subseteq DOMAIN commits /\ \A m \in W : m <= n
  /\ ClosedIn(on, W)
  /\ \A T : n \in T /\ ClosedIn(on, T) => W \subseteq T

\* The least closed set that contains n, defined outright.
Least(on, n) ==
  {m \in DOMAIN commits : \A T \in SUBSET DOMAIN commits :
     n \in T /\ ClosedIn(on, T) => m \in T}

\* The equation that defines a walk has a solution.
LEMMA LineageUnfolds ==
  ASSUME StoreTypeOK, NEW on
  PROVE  Lineage(on) = [n \in 0 .. MaxCommits |->
           IF n \notin DOMAIN commits THEN {}
           ELSE {n} \cup IF n \in on THEN Lineage(on)[commits[n].parent] ELSE {}]
<1> DEFINE Unfold(f) == [n \in 0 .. MaxCommits |->
                         IF n \notin DOMAIN commits THEN {}
                         ELSE {n} \cup IF n \in on THEN f[commits[n].parent] ELSE {}]
           g == [n \in 0 .. MaxCommits |-> IF n \notin DOMAIN commits THEN {} ELSE Least(on, n)]
<1>1. ASSUME NEW n \in DOMAIN commits
      PROVE  Least(on, n) = {n} \cup IF n \in on THEN g[commits[n].parent] ELSE {}
  <2> DEFINE p == commits[n].parent
             rest == IF n \in on THEN g[p] ELSE {}
  <2>1. /\ p \in 0 .. MaxCommits /\ p # n /\ p \in DOMAIN commits \cup {0}
        /\ 0 \notin DOMAIN commits
    BY ParentLemma
  <2>2. g[p] = IF p = 0 THEN {} ELSE Least(on, p)
    BY <2>1
  <2> HIDE DEF g
  <2>3. ASSUME NEW T \in SUBSET DOMAIN commits, n \in T, ClosedIn(on, T)
        PROVE  rest \subseteq T
    <3>1. n \in on => p \in T \cup {0}
      BY <2>3 DEF ClosedIn
    <3> QED
      BY <2>2, <2>3, <3>1 DEF Least
  <2>4. {n} \cup rest \subseteq DOMAIN commits
    BY <2>2 DEF Least
  <2>5. {n} \cup rest \subseteq Least(on, n)
    BY <2>3, <2>4 DEF Least
  <2>6. ClosedIn(on, {n} \cup rest)
    <3> SUFFICES ASSUME NEW m \in ({n} \cup rest) \cap on, m \in DOMAIN commits, commits[m].parent # 0
                 PROVE  commits[m].parent \in {n} \cup rest
      BY DEF ClosedIn
    <3>1. commits[m].parent \in DOMAIN commits
      BY ParentLemma
    <3>2. CASE m = n
      <4>1. p # 0 /\ p \in DOMAIN commits /\ n \in on
        BY <3>1, <3>2
      <4>2. p \in Least(on, p)
        BY <4>1 DEF Least
      <4> QED
        BY <2>2, <3>2, <4>1, <4>2
    <3>3. CASE m # n
      <4>1. n \in on /\ p # 0 /\ m \in Least(on, p)
        BY <2>2, <3>3
      <4>2. commits[m].parent \in Least(on, p)
        BY <3>1, <4>1 DEF Least, ClosedIn
      <4> QED
        BY <2>2, <4>1, <4>2
    <3> QED
      BY <3>2, <3>3
  <2>7. Least(on, n) \subseteq {n} \cup rest
    BY <2>4, <2>6 DEF Least
  <2> QED
    BY <2>5, <2>7
<1>2. g = Unfold(g)
  BY <1>1
<1>3. Lineage(on) = CHOOSE f : f = Unfold(f)
  BY Zenon DEF Lineage
<1> HIDE DEF g
<1>4. Lineage(on) = Unfold(Lineage(on))
  <2> HIDE DEF Unfold
  <2> QED
    BY <1>2, <1>3, Zenon
<1> QED
  BY <1>4, Zenon

\* One step of a walk.
LEMMA LineageSteps ==
  ASSUME StoreTypeOK, NEW on
  PROVE  /\ Lineage(on)[0] = {}
         /\ \A n \in DOMAIN commits :
              Lineage(on)[n] = {n} \cup IF n \in on THEN Lineage(on)[commits[n].parent] ELSE {}
<1>1. 0 \in 0 .. MaxCommits /\ 0 \notin DOMAIN commits
  BY StoreBoundAssumption DEF StoreTypeOK
<1>2. \A n \in DOMAIN commits : n \in 0 .. MaxCommits
  BY ParentLemma
<1> DEFINE w == Lineage(on)
<1>3. w = [n \in 0 .. MaxCommits |->
             IF n \notin DOMAIN commits THEN {}
             ELSE {n} \cup IF n \in on THEN w[commits[n].parent] ELSE {}]
  BY LineageUnfolds, Zenon
<1> HIDE DEF w
<1>4. w[0] = {}
  BY <1>1, <1>3
<1>5. \A n \in DOMAIN commits : w[n] = {n} \cup IF n \in on THEN w[commits[n].parent] ELSE {}
  BY <1>2, <1>3
<1> QED
  BY <1>4, <1>5 DEF w

\* What a walk computes.
LEMMA LineageLemma ==
  ASSUME StoreTypeOK, NEW on
  PROVE  /\ Lineage(on)[0] = {}
         /\ \A n \in DOMAIN commits : Follows(on, n, Lineage(on)[n])
<1>1. PICK w : /\ w = Lineage(on)
               /\ w[0] = {}
               /\ \A n \in DOMAIN commits :
                    w[n] = {n} \cup IF n \in on THEN w[commits[n].parent] ELSE {}
  BY LineageSteps
<1> DEFINE Bad == {n \in DOMAIN commits : ~Follows(on, n, w[n])}
<1>2. Bad \subseteq Nat
  BY ParentLemma
<1>3. ASSUME NEW n \in Bad, \A k \in Bad : n <= k PROVE FALSE
  <2> DEFINE p == commits[n].parent
  <2>1. /\ n \in DOMAIN commits /\ n \in Nat /\ p \in Nat /\ p < n
        /\ p \in DOMAIN commits \cup {0}
    BY ParentLemma
  <2>2. CASE n \in on /\ p # 0
    <3>1. p \in DOMAIN commits /\ p \notin Bad
      BY <1>3, <2>1, <2>2
    <3>2. Follows(on, p, w[p]) /\ w[n] = {n} \cup w[p]
      BY <1>1, <2>2, <3>1
    <3>3. w[n] \subseteq DOMAIN commits /\ \A m \in w[n] : m <= n
      <4>1. \A m \in w[p] : m \in DOMAIN commits /\ m <= p
        BY <3>2 DEF Follows
      <4>2. \A m \in DOMAIN commits : m \in Nat
        BY ParentLemma
      <4> QED
        BY <2>1, <3>2, <4>1, <4>2
    <3>4. ClosedIn(on, w[n])
      <4>1. ClosedIn(on, w[p]) /\ p \in w[p]
        BY <3>2 DEF Follows
      <4> QED
        BY <3>2, <4>1 DEF ClosedIn
    <3>5. ASSUME NEW T, n \in T, ClosedIn(on, T) PROVE w[n] \subseteq T
      <4>1. p \in T
        BY <2>1, <2>2, <3>5 DEF ClosedIn
      <4> QED
        BY <3>2, <3>5, <4>1 DEF Follows
    <3> QED
      BY <3>2, <3>3, <3>4, <3>5 DEF Follows
  <2>3. CASE ~(n \in on /\ p # 0)
    <3>1. w[n] = {n}
      BY <1>1, <2>1, <2>3
    <3> QED
      BY <2>1, <2>3, <3>1 DEF Follows, ClosedIn
  <2> QED
    BY <2>2, <2>3
<1>4. Bad = {}
  <2> SUFFICES ASSUME NEW x \in Bad PROVE FALSE
    OBVIOUS
  <2> HIDE DEF Bad
  <2> QED
    BY <1>2, <1>3, LeastLemma
<1> QED
  BY <1>1, <1>4

\* Histories, as closed sets.
HistoryOK ==
  /\ History[0] = {}
  /\ \A n \in DOMAIN commits : Follows(DOMAIN commits, n, History[n])

LEMMA HistoryLemma == StoreTypeOK => HistoryOK
BY LineageLemma DEF HistoryOK, History

LEMMA HistoryNext == StoreTypeOK' => HistoryOK'
BY HistoryLemma, PTL

\* One step back.
BackOK == \A n \in DOMAIN commits : History[n] = {n} \cup History[commits[n].parent]

LEMMA BackLemma == StoreTypeOK => BackOK
<1> SUFFICES ASSUME StoreTypeOK PROVE BackOK
  OBVIOUS
<1>1. PICK h : /\ h = History
               /\ \A n \in DOMAIN commits :
                    h[n] = {n} \cup IF n \in DOMAIN commits THEN h[commits[n].parent] ELSE {}
  BY LineageSteps DEF History
<1> QED
  BY <1>1 DEF BackOK

LEMMA BackNext == StoreTypeOK' => BackOK'
BY BackLemma, PTL

\* A history holds commits that were made, all in the store's range.
LEMMA HistoryTyped ==
  ASSUME StoreTypeOK, NEW n \in 0 .. Len(commits)
  PROVE  History[n] \subseteq DOMAIN commits
<1>1. n = 0 \/ n \in DOMAIN commits
  BY DEF StoreTypeOK
<1> QED
  BY <1>1, HistoryLemma DEF HistoryOK, Follows

\* A new commit leaves the histories as they are, and continues that of its
\* parent.
LEMMA AppendLemma ==
  ASSUME StoreTypeOK, StoreTypeOK', NEW r, commits' = Append(commits, r)
  PROVE  LET n == Len(commits) + 1 IN
         /\ \A m \in 0 .. Len(commits) : History'[m] = History[m]
         /\ History'[n] = {n} \cup History[r.parent]
         /\ n \in DOMAIN commits' /\ commits'[n] = r
         /\ \A m \in DOMAIN commits : m \in DOMAIN commits' /\ commits'[m] = commits[m]
<1> DEFINE n == Len(commits) + 1
<1>1. /\ Len(commits) \in Nat /\ DOMAIN commits = 1 .. Len(commits)
      /\ DOMAIN commits' = 1 .. n /\ commits'[n] = r
      /\ \A m \in DOMAIN commits : m \in DOMAIN commits' /\ commits'[m] = commits[m]
  <2>1. commits \in Seq([parent : 0 .. MaxCommits, leaf : Leaves])
    BY DEF StoreTypeOK
  <2> QED
    BY <2>1
<1>2. HistoryOK /\ HistoryOK'
  BY HistoryLemma, HistoryNext
<1>3. PICK h, g : /\ h = History /\ g = History'
                  /\ h[0] = {} /\ g[0] = {}
                  /\ \A m \in DOMAIN commits : Follows(DOMAIN commits, m, h[m])
                  /\ \A m \in DOMAIN commits' : Follows(DOMAIN commits, m, g[m])'
  BY <1>2 DEF HistoryOK
<1>4. ASSUME NEW T \in SUBSET DOMAIN commits
      PROVE  ClosedIn(DOMAIN commits, T) <=> ClosedIn(DOMAIN commits, T)'
  BY <1>1 DEF ClosedIn
<1>5. ASSUME NEW m \in DOMAIN commits PROVE g[m] = h[m]
  <2>1. h[m] \subseteq DOMAIN commits /\ ClosedIn(DOMAIN commits, h[m]) /\ m \in h[m]
    BY <1>3 DEF Follows
  <2>2. g[m] \subseteq h[m]
    <3>1. ClosedIn(DOMAIN commits, h[m])'
      BY <1>4, <2>1
    <3> QED
      BY <1>1, <1>3, <2>1, <3>1 DEF Follows
  <2>3. g[m] \subseteq DOMAIN commits /\ ClosedIn(DOMAIN commits, g[m])' /\ m \in g[m]
    BY <1>1, <1>3, <2>1, <2>2 DEF Follows
  <2>4. h[m] \subseteq g[m]
    <3>1. ClosedIn(DOMAIN commits, g[m])
      BY <1>4, <2>3
    <3> QED
      BY <1>3, <2>3, <3>1 DEF Follows
  <2> QED
    BY <2>2, <2>4
<1>6. r.parent \in 0 .. Len(commits)
  <2>1. commits'[n].parent < n
    BY <1>1 DEF StoreTypeOK
  <2>2. commits'[n] \in [parent : 0 .. MaxCommits, leaf : Leaves]
    <3>1. commits' \in Seq([parent : 0 .. MaxCommits, leaf : Leaves])
      BY DEF StoreTypeOK
    <3> QED
      BY <1>1, <3>1, ElementOfSeq
  <2> QED
    BY <1>1, <2>1, <2>2
<1>7. g[n] = {n} \cup g[r.parent]
  BY <1>1, <1>3, BackNext DEF BackOK
<1>8. \A m \in 0 .. Len(commits) : g[m] = h[m]
  <2>1. \A m \in 0 .. Len(commits) : m = 0 \/ m \in DOMAIN commits
    BY <1>1
  <2>2. g[0] = h[0]
    BY <1>3
  <2> QED
    BY <1>5, <2>1, <2>2, Zenon
<1>9. g[n] = {n} \cup h[r.parent] /\ n \in 1 .. n
  BY <1>1, <1>6, <1>7, <1>8
<1> QED
  BY <1>1, <1>3, <1>8, <1>9, Zenon

-----------------------------------------------------------------------------
(* Objects, packs and their indexes.                                        *)

\* There are finitely many objects.
LEMMA FiniteLemma == IsFiniteSet(Objects)
<1>1. ASSUME NEW S, IsFiniteSet(S), NEW T, NEW f \in [S -> T], \A y \in T : \E x \in S : f[x] = y
      PROVE  IsFiniteSet(T)
  <2>1. f \in Surjection(S, T)
    BY <1>1 DEF Surjection
  <2> QED
    BY <1>1, <2>1, FS_Surjection
<1>2. IsFiniteSet({Leaf(l) : l \in Leaves})
  <2> DEFINE f == [l \in Leaves |-> Leaf(l)]
  <2>1. /\ f \in [Leaves -> {Leaf(l) : l \in Leaves}]
        /\ \A y \in {Leaf(l) : l \in Leaves} : \E x \in Leaves : f[x] = y
    OBVIOUS
  <2> QED
    BY <1>1, <2>1, StoreBoundAssumption
<1>3. IsFiniteSet({Tree(l) : l \in Leaves})
  <2> DEFINE f == [l \in Leaves |-> Tree(l)]
  <2>1. /\ f \in [Leaves -> {Tree(l) : l \in Leaves}]
        /\ \A y \in {Tree(l) : l \in Leaves} : \E x \in Leaves : f[x] = y
    OBVIOUS
  <2> QED
    BY <1>1, <2>1, StoreBoundAssumption
<1>4. IsFiniteSet({Commit(n) : n \in 1 .. MaxCommits})
  <2> DEFINE f == [n \in 1 .. MaxCommits |-> Commit(n)]
  <2>1. /\ f \in [1 .. MaxCommits -> {Commit(n) : n \in 1 .. MaxCommits}]
        /\ \A y \in {Commit(n) : n \in 1 .. MaxCommits} : \E x \in 1 .. MaxCommits : f[x] = y
    OBVIOUS
  <2>2. IsFiniteSet(1 .. MaxCommits)
    BY StoreBoundAssumption, FS_Interval
  <2> QED
    BY <1>1, <2>1, <2>2
<1> QED
  BY <1>2, <1>3, <1>4, FS_Union DEF Objects

\* SetToSeq lists a finite set.
LEMMA SetToSeqLemma ==
  ASSUME NEW S, IsFiniteSet(S)
  PROVE  SetToSeq(S) \in Seq(S) /\ ToSet(SetToSeq(S)) = S
<1> DEFINE n == Cardinality(S)
<1>1. n \in Nat /\ ExistsBijection(1 .. n, S)
  BY FS_CardinalityType
<1>2. \E f \in [1 .. n -> S] : IsInjective(f)
  BY <1>1 DEF ExistsBijection, Bijection, Injection
<1> DEFINE s == SetToSeq(S)
<1>3. s \in [1 .. n -> S] /\ IsInjective(s)
  BY <1>2 DEF SetToSeq
<1> HIDE DEF s
<1>4. Cardinality(1 .. n) = n /\ IsFiniteSet(1 .. n)
  BY <1>1, FS_Interval
<1>5. s \in Injection(1 .. n, S)
  BY <1>3 DEF Injection
<1>6. s \in Surjection(1 .. n, S)
  BY <1>4, <1>5, FS_Injection
<1>7. \A x \in S : \E i \in 1 .. n : s[i] = x
  BY <1>6 DEF Surjection
<1> QED
  BY <1>1, <1>3, <1>7 DEF ToSet, s

\* What an overlay of a pack gives, and of an empty file.
LEMMA OverlayLemma ==
  ASSUME NEW b \in Bytes, NEW at \in Nat, NEW s \in Bytes
  PROVE  Overlay(b, at, s) \in Bytes
<1> DEFINE E == Objects \cup {Hole}
           len == IF at + Len(s) > Len(b) THEN at + Len(s) ELSE Len(b)
           item(i) == IF i \in at + 1 .. at + Len(s) THEN s[i - at]
                      ELSE IF i \in DOMAIN b THEN b[i] ELSE Hole
<1>1. s \in Seq(E) /\ b \in Seq(E) /\ Len(s) \in Nat /\ Len(b) \in Nat /\ len \in Nat
  BY DEF Bytes
<1>2. ASSUME NEW i \in 1 .. len PROVE item(i) \in E
  <2>1. CASE i \in at + 1 .. at + Len(s)
    <3>1. i - at \in 1 .. Len(s)
      BY <1>1, <2>1
    <3>2. s[i - at] \in E
      BY <1>1, <3>1, ElementOfSeq, Zenon
    <3> QED
      BY <2>1, <3>2
  <2>2. CASE i \notin at + 1 .. at + Len(s)
    <3>1. i \in DOMAIN b => b[i] \in E
      BY <1>1, ElementOfSeq
    <3> QED
      BY <2>2, <3>1
  <2> QED
    BY <2>1, <2>2
<1>3. [i \in 1 .. len |-> item(i)] \in Seq(E)
  <2> HIDE DEF item, E, len
  <2> QED
    BY <1>1, <1>2
<1>4. Overlay(b, at, s) = [i \in 1 .. len |-> item(i)]
  BY DEF Overlay
<1> QED
  BY <1>3, <1>4 DEF Bytes

LEMMA FirstWrite ==
  ASSUME NEW s \in Bytes
  PROVE  Overlay(<<>>, 0, s) = s
<1>1. s \in Seq(Objects \cup {Hole}) /\ Len(s) \in Nat /\ DOMAIN s = 1 .. Len(s)
  BY DEF Bytes
<1>2. Overlay(<<>>, 0, s) = [i \in 1 .. Len(s) |-> s[i]]
  <2>1. (IF 0 + Len(s) > Len(<<>>) THEN 0 + Len(s) ELSE Len(<<>>)) = Len(s)
    BY <1>1
  <2>2. \A i \in 1 .. Len(s) : i \in 0 + 1 .. 0 + Len(s) /\ i - 0 = i
    BY <1>1
  <2> QED
    BY <2>1, <2>2 DEF Overlay
<1>3. s = [i \in 1 .. Len(s) |-> s[i]]
  BY <1>1
<1> QED
  BY <1>2, <1>3, Zenon

\* The objects put into a pack, and what else may be in one.
LEMMA BytesLemma ==
  ASSUME NEW S \in SUBSET Objects
  PROVE  /\ SetToSeq(S) \in Bytes /\ ToSet(SetToSeq(S)) = S
         /\ SetToSeq(S) = <<>> => S = {}
<1>1. IsFiniteSet(S)
  BY FiniteLemma, FS_Subset
<1>2. SetToSeq(S) \in Seq(S) /\ ToSet(SetToSeq(S)) = S
  BY <1>1, SetToSeqLemma
<1>3. Seq(S) \subseteq Bytes
  BY DEF Bytes
<1> QED
  BY <1>2, <1>3 DEF ToSet

\* i names the place in s of each object of s, and of no other.
Fits(i, s) ==
  \A o \in Objects :
    IF i[o] = 0 THEN o \notin ToSet(s) ELSE i[o] \in DOMAIN s /\ s[i[o]] = o

\* The place of each object of s.
PlacesIn(s) ==
  [o \in Objects |-> IF o \in ToSet(s) THEN CHOOSE i \in DOMAIN s : s[i] = o ELSE 0]

LEMMA PlacesLemma ==
  ASSUME NEW s \in Bytes
  PROVE  /\ PlacesIn(s) \in Indexes /\ Fits(PlacesIn(s), s)
         /\ \A o \in Objects : PlacesIn(s)[o] # 0 <=> o \in ToSet(s)
<1>1. DOMAIN s \subseteq Nat \ {0}
  BY DEF Bytes
<1>2. ASSUME NEW o \in Objects, o \in ToSet(s)
      PROVE  LET i == CHOOSE i \in DOMAIN s : s[i] = o IN i \in DOMAIN s /\ s[i] = o
  BY <1>2 DEF ToSet
<1> QED
  BY <1>1, <1>2 DEF PlacesIn, Indexes, Fits

\* The least free file is one.
LEMMA MinLemma ==
  ASSUME NEW S \in SUBSET Files, S # {}
  PROVE  Min(S) \in S
<1>1. S \subseteq Nat
  BY DEF Files
<1>2. \E n \in S : \A m \in S : n <= m
  BY <1>1, LeastLemma
<1> QED
  BY <1>2 DEF Min

-----------------------------------------------------------------------------
(* What each step makes of a process.                                       *)

SameCommand(s, r) == s.view = r.view /\ s.leaf = r.leaf /\ s.head = r.head /\ s.new = r.new
SameWriter(s, r)  == s.file = r.file /\ s.index = r.index /\ s.offset = r.offset /\ s.name = r.name
SameLists(s, r)   == s.todo = r.todo /\ s.half = r.half /\ s.old = r.old /\ s.gone = r.gone

Others(p) == \A q \in Procs \ {p} : proc'[q] = proc[q]

\* Which commands have which fields set.
Phased(p) ==
  /\ proc[p].pc \in {"commit", "load", "put", "save", "tree", "fillTree", "head", "write",
                     "fillCommit"} => proc[p].leaf # None
  /\ proc[p].pc \in {"idle", "receive", "have", "recv", "fillRecv", "gc", "list", "pack",
                     "copy", "drop", "dropIdx", "loose"} => proc[p].leaf = None
  /\ proc[p].pc \in {"rename", "idx", "fillIdx"} => proc[p].name \in Bytes
  /\ proc[p].pc \in {"fillCommit", "ref", "setRef", "have", "recv", "fillRecv"} => proc[p].new # 0

LEMMA IdleTyped == Idle \in Processes
<1>1. /\ NoEntries \in Indexes /\ "idle" \in PCs
      /\ 0 \in 0 .. MaxCommits /\ 0 \in Nat
  BY StoreBoundAssumption DEF NoEntries, Indexes, PCs
<1> QED
  BY <1>1, Zenon DEF Idle, Processes

\* The index of a writer once the objects of s have gone to the end.
PushedIndex(w, s) ==
  [o \in Objects |-> IF o \in ToSet(s)
                     THEN w.offset + (CHOOSE i \in DOMAIN s : s[i] = o)
                     ELSE w.index[o]]

LEMMA PushedTyped ==
  ASSUME NEW w \in Processes, NEW s \in Bytes
  PROVE  PushedIndex(w, s) \in Indexes /\ w.offset + Len(s) \in Nat
<1>1. w.offset \in Nat /\ w.index \in Indexes
  BY DEF Processes
<1>2. Len(s) \in Nat /\ DOMAIN s = 1 .. Len(s)
  BY DEF Bytes
<1>3. ASSUME NEW o \in Objects, o \in ToSet(s)
      PROVE  (CHOOSE i \in DOMAIN s : s[i] = o) \in DOMAIN s
  BY <1>3 DEF ToSet
<1> QED
  BY <1>1, <1>2, <1>3 DEF PushedIndex, Indexes

\* What a commit consists of.
LEMMA LeafTyped ==
  ASSUME NEW l \in Leaves
  PROVE  Leaf(l) \in Objects /\ Tree(l) \in Objects /\ <<Leaf(l)>> \in Bytes
BY DEF Objects, Bytes

LEMMA ObjectsTyped ==
  ASSUME StoreTypeOK, NEW n \in DOMAIN commits
  PROVE  /\ ObjectsOf(n) \subseteq Objects
         /\ Commit(n) \in Objects /\ TreeOf(n) \in Objects /\ LeafOf(n) \in Objects
<1>1. n \in 1 .. MaxCommits /\ commits[n].leaf \in Leaves
  BY ParentLemma
<1> QED
  BY <1>1, LeafTyped DEF ObjectsOf, TreeOf, LeafOf, Objects

LEMMA ReachableTyped ==
  ASSUME StoreTypeOK, NEW v
  PROVE  Walked(v) \subseteq DOMAIN commits /\ Reachable(v) \subseteq Objects
<1>1. tip = 0 \/ tip \in DOMAIN commits
  BY DEF StoreTypeOK
<1>2. Walked(v) \subseteq DOMAIN commits
  BY <1>1, LineageLemma DEF Walked, Follows
<1> QED
  BY <1>2, ObjectsTyped DEF Reachable

LEMMA LoadPacksTyped ==
  ASSUME StoreTypeOK
  PROVE  LoadPacks \in SUBSET [file : Files, index : Indexes]
<1> SUFFICES ASSUME NEW n \in DOMAIN packDir \cap DOMAIN idxDir, idxDir[n] # None
             PROVE  [file |-> packDir[n], index |-> idxDir[n]] \in [file : Files, index : Indexes]
  BY DEF LoadPacks
<1>1. packDir[n] \in Files /\ idxDir[n] \in Indexes
  BY DEF StoreTypeOK, IsDirectory
<1> QED
  BY <1>1

LEMMA ExitMoves ==
  ASSUME StoreTypeOK, NEW p \in Procs, Exit(p)
  PROVE  proc' \in [Procs -> Processes] /\ Others(p) /\ proc'[p] = Idle
<1>1. proc \in [Procs -> Processes]
  BY DEF StoreTypeOK
<1> QED
  BY <1>1, IdleTyped, ZenonT(60) DEF Exit, Others

LEMMA OpenMoves ==
  ASSUME StoreTypeOK, NEW p \in Procs, NEW c \in PCs, NEW l \in Leaves \cup {None},
         proc' = [proc EXCEPT ![p] = [Idle EXCEPT !.pc = c, !.view = LoadPacks, !.leaf = l]]
  PROVE  /\ proc' \in [Procs -> Processes] /\ Others(p)
         /\ proc'[p].pc = c /\ proc'[p].view = LoadPacks /\ proc'[p].leaf = l
         /\ proc'[p].head = 0 /\ proc'[p].new = 0 /\ proc'[p].offset = 0
         /\ proc'[p].index = NoEntries
<1>1. proc \in [Procs -> Processes] /\ LoadPacks \in SUBSET [file : Files, index : Indexes]
  BY LoadPacksTyped DEF StoreTypeOK
<1>2. /\ proc'[p] = [Idle EXCEPT !.pc = c, !.view = LoadPacks, !.leaf = l]
      /\ Others(p)
  BY <1>1, ZenonT(60) DEF Others
<1>3. Idle \in Processes
  BY IdleTyped
<1>4. proc'[p] \in Processes
  BY <1>1, <1>2, <1>3, ZenonT(60) DEF Processes
<1>5. proc' \in [Procs -> Processes]
  BY <1>1, <1>4, Zenon
<1>6. Idle.head = 0 /\ Idle.new = 0 /\ Idle.offset = 0 /\ Idle.index = NoEntries
  BY DEF Idle
<1> QED
  BY <1>2, <1>3, <1>5, <1>6, ZenonT(60) DEF Processes

LEMMA GotoMoves ==
  ASSUME StoreTypeOK, NEW p \in Procs, NEW l \in PCs, Goto(p, l)
  PROVE  /\ proc' \in [Procs -> Processes] /\ Others(p)
         /\ proc'[p].pc = l
         /\ SameCommand(proc'[p], proc[p]) /\ SameWriter(proc'[p], proc[p])
         /\ SameLists(proc'[p], proc[p])
<1>1. proc \in [Procs -> Processes] /\ proc[p] \in Processes
  BY DEF StoreTypeOK
<1>2. proc'[p] = [proc[p] EXCEPT !.pc = l]
      /\ Others(p) /\ DOMAIN proc' = Procs
  BY <1>1, ZenonT(60) DEF Goto, Others
<1>3. l \in PCs
  OBVIOUS
<1>4. proc'[p] \in Processes
  BY <1>1, <1>2, <1>3, ZenonT(60) DEF Processes
<1>5. proc' \in [Procs -> Processes]
  BY <1>1, <1>2, <1>4, ZenonT(60) DEF Goto, Others
<1> QED
  BY <1>1, <1>2, <1>5, ZenonT(60) DEF Processes, SameCommand, SameWriter, SameLists

LEMMA NewWriterMoves ==
  ASSUME StoreTypeOK, NEW p \in Procs, NEW l \in PCs, NewWriter(p, l)
  PROVE  /\ proc' \in [Procs -> Processes] /\ Others(p)
         /\ proc'[p].pc = l /\ proc'[p].file = tmp'
         /\ SameCommand(proc'[p], proc[p]) /\ proc'[p].index = proc[p].index
         /\ proc'[p].offset = proc[p].offset /\ proc'[p].name = proc[p].name
         /\ SameLists(proc'[p], proc[p])
<1>1. proc \in [Procs -> Processes] /\ proc[p] \in Processes
  BY DEF StoreTypeOK
<1>2. proc'[p] = [proc[p] EXCEPT !.pc = l, !.file = tmp']
      /\ Others(p) /\ DOMAIN proc' = Procs
  BY <1>1, ZenonT(60) DEF NewWriter, Others
<1>3. l \in PCs /\ tmp' \in Files
  BY Zenon DEF NewWriter
<1>4. proc'[p] \in Processes
  BY <1>1, <1>2, <1>3, ZenonT(60) DEF Processes
<1>5. proc' \in [Procs -> Processes]
  BY <1>1, <1>2, <1>4, ZenonT(60) DEF NewWriter, Others
<1> QED
  BY <1>1, <1>2, <1>5, ZenonT(60) DEF Processes, SameCommand, SameWriter, SameLists

LEMMA LoadCacheMoves ==
  ASSUME StoreTypeOK, NEW p \in Procs, LoadCache(p)
  PROVE  /\ proc' \in [Procs -> Processes] /\ Others(p)
         /\ proc'[p].pc = "put"
         /\ SameCommand(proc'[p], proc[p]) /\ SameWriter(proc'[p], proc[p])
         /\ SameLists(proc'[p], proc[p])
<1>1. proc \in [Procs -> Processes] /\ proc[p] \in Processes
  BY DEF StoreTypeOK
<1>2. proc'[p] = [proc[p] EXCEPT !.pc = "put", !.known = cache]
      /\ Others(p) /\ DOMAIN proc' = Procs
  BY <1>1, ZenonT(60) DEF LoadCache, Others
<1>3. "put" \in PCs /\ cache \in SUBSET Leaves
  BY DEF PCs, StoreTypeOK
<1>4. proc'[p] \in Processes
  BY <1>1, <1>2, <1>3, ZenonT(60) DEF Processes
<1>5. proc' \in [Procs -> Processes]
  BY <1>1, <1>2, <1>4, ZenonT(60) DEF LoadCache, Others
<1> QED
  BY <1>1, <1>2, <1>5, ZenonT(60) DEF Processes, SameCommand, SameWriter, SameLists

LEMMA FinishHashMoves ==
  ASSUME StoreTypeOK, NEW p \in Procs, FinishHash(p), tmp # 0
  PROVE  /\ proc' \in [Procs -> Processes] /\ Others(p)
         /\ proc'[p].pc = "rename" /\ proc'[p].name = file[tmp]
         /\ SameCommand(proc'[p], proc[p]) /\ proc'[p].file = proc[p].file
         /\ proc'[p].index = proc[p].index /\ proc'[p].offset = proc[p].offset
         /\ SameLists(proc'[p], proc[p])
<1>1. proc \in [Procs -> Processes] /\ proc[p] \in Processes
  BY DEF StoreTypeOK
<1>2. proc'[p] = [proc[p] EXCEPT !.pc = "rename", !.name = file[tmp]]
      /\ Others(p) /\ DOMAIN proc' = Procs
  BY <1>1, ZenonT(60) DEF FinishHash, Others
<1>3. "rename" \in PCs /\ file[tmp] \in Bytes
  BY DEF PCs, StoreTypeOK
<1>4. proc'[p] \in Processes
  BY <1>1, <1>2, <1>3, ZenonT(60) DEF Processes
<1>5. proc' \in [Procs -> Processes]
  BY <1>1, <1>2, <1>4, ZenonT(60) DEF FinishHash, Others
<1> QED
  BY <1>1, <1>2, <1>5, ZenonT(60) DEF Processes, SameCommand, SameWriter, SameLists

LEMMA SaveMoves ==
  ASSUME StoreTypeOK, NEW p \in Procs, Save(p)
  PROVE  /\ proc' \in [Procs -> Processes] /\ Others(p)
         /\ proc'[p].pc = "tree"
         /\ proc'[p].view = IF proc[p].name = None THEN proc[p].view ELSE LoadPacks
         /\ proc'[p].leaf = proc[p].leaf /\ proc'[p].head = proc[p].head
         /\ proc'[p].new = proc[p].new /\ SameWriter(proc'[p], proc[p])
         /\ SameLists(proc'[p], proc[p])
<1>1. proc \in [Procs -> Processes] /\ proc[p] \in Processes
  BY DEF StoreTypeOK
<1>2. proc'[p] = [proc[p] EXCEPT !.pc = "tree",
                    !.view = IF proc[p].name = None THEN proc[p].view ELSE LoadPacks]
      /\ Others(p) /\ DOMAIN proc' = Procs
  BY <1>1, ZenonT(60) DEF Save, Others
<1>3. "tree" \in PCs /\ LoadPacks \in SUBSET [file : Files, index : Indexes]
  BY LoadPacksTyped DEF PCs
<1>4. proc'[p] \in Processes
  BY <1>1, <1>2, <1>3, ZenonT(60) DEF Processes
<1>5. proc' \in [Procs -> Processes]
  BY <1>1, <1>2, <1>4, ZenonT(60) DEF Save, Others
<1> QED
  BY <1>1, <1>2, <1>5, ZenonT(60) DEF Processes, SameCommand, SameWriter, SameLists

LEMMA ReadHeadMoves ==
  ASSUME StoreTypeOK, NEW p \in Procs, proc' = [proc EXCEPT ![p].pc = "write", ![p].head = tip]
  PROVE  /\ proc' \in [Procs -> Processes] /\ Others(p)
         /\ proc'[p].pc = "write" /\ proc'[p].head = tip
         /\ proc'[p].view = proc[p].view /\ proc'[p].leaf = proc[p].leaf
         /\ proc'[p].new = proc[p].new /\ SameWriter(proc'[p], proc[p])
         /\ SameLists(proc'[p], proc[p])
<1>1. proc \in [Procs -> Processes] /\ proc[p] \in Processes
  BY DEF StoreTypeOK
<1>2. proc'[p] = [proc[p] EXCEPT !.pc = "write", !.head = tip]
      /\ Others(p) /\ DOMAIN proc' = Procs
  BY <1>1, ZenonT(60) DEF Others
<1>3. "write" \in PCs /\ tip \in 0 .. MaxCommits
  BY StoreBoundAssumption DEF PCs, StoreTypeOK
<1>4. proc'[p] \in Processes
  BY <1>1, <1>2, <1>3, ZenonT(60) DEF Processes
<1>5. proc' \in [Procs -> Processes]
  BY <1>1, <1>2, <1>4, ZenonT(60) DEF Others
<1> QED
  BY <1>1, <1>2, <1>5, ZenonT(60) DEF Processes, SameCommand, SameWriter, SameLists

LEMMA WriteCommitMoves ==
  ASSUME StoreTypeOK, NEW p \in Procs, WriteCommit(p)
  PROVE  /\ proc' \in [Procs -> Processes] /\ Others(p)
         /\ proc'[p].pc = "fillCommit" /\ proc'[p].new = Len(commits) + 1
         /\ proc'[p].view = proc[p].view /\ proc'[p].leaf = proc[p].leaf
         /\ proc'[p].head = proc[p].head /\ SameWriter(proc'[p], proc[p])
         /\ SameLists(proc'[p], proc[p])
<1>1. proc \in [Procs -> Processes] /\ proc[p] \in Processes
  BY DEF StoreTypeOK
<1>2. proc'[p] = [proc[p] EXCEPT !.pc = "fillCommit", !.new = Len(commits) + 1]
      /\ Others(p) /\ DOMAIN proc' = Procs
  BY <1>1, ZenonT(60) DEF WriteCommit, Others
<1>3. "fillCommit" \in PCs /\ Len(commits) + 1 \in 0 .. MaxCommits
  BY StoreBoundAssumption DEF PCs, StoreTypeOK, WriteCommit
<1>4. proc'[p] \in Processes
  BY <1>1, <1>2, <1>3, ZenonT(60) DEF Processes
<1>5. proc' \in [Procs -> Processes]
  BY <1>1, <1>2, <1>4, ZenonT(60) DEF WriteCommit, Others
<1> QED
  BY <1>1, <1>2, <1>5, ZenonT(60) DEF Processes, SameCommand, SameWriter, SameLists

LEMMA WalkMoves ==
  ASSUME StoreTypeOK, NEW p \in Procs, Walk(p)
  PROVE  /\ proc' \in [Procs -> Processes] /\ Others(p)
         /\ proc'[p].pc = "list" /\ proc'[p].todo = Reachable(proc[p].view)
         /\ SameCommand(proc'[p], proc[p]) /\ SameWriter(proc'[p], proc[p])
         /\ proc'[p].half = proc[p].half /\ proc'[p].old = proc[p].old
         /\ proc'[p].gone = proc[p].gone
<1>1. proc \in [Procs -> Processes] /\ proc[p] \in Processes
  BY DEF StoreTypeOK
<1>2. proc'[p] = [proc[p] EXCEPT !.pc = "list", !.todo = Reachable(proc[p].view)]
      /\ Others(p) /\ DOMAIN proc' = Procs
  BY <1>1, ZenonT(60) DEF Walk, Others
<1>3. "list" \in PCs /\ Reachable(proc[p].view) \in SUBSET Objects
  BY ReachableTyped DEF PCs
<1>4. proc'[p] \in Processes
  BY <1>1, <1>2, <1>3, ZenonT(60) DEF Processes
<1>5. proc' \in [Procs -> Processes]
  BY <1>1, <1>2, <1>4, ZenonT(60) DEF Walk, Others
<1> QED
  BY <1>1, <1>2, <1>5, ZenonT(60) DEF Processes, SameCommand, SameWriter, SameLists

LEMMA ListPacksMoves ==
  ASSUME StoreTypeOK, NEW p \in Procs, ListPacks(p)
  PROVE  /\ proc' \in [Procs -> Processes] /\ Others(p)
         /\ proc'[p].pc = "pack" /\ proc'[p].old = DOMAIN packDir
         /\ SameCommand(proc'[p], proc[p]) /\ SameWriter(proc'[p], proc[p])
         /\ proc'[p].todo = proc[p].todo /\ proc'[p].half = proc[p].half
         /\ proc'[p].gone = proc[p].gone
<1>1. proc \in [Procs -> Processes] /\ proc[p] \in Processes
  BY DEF StoreTypeOK
<1>2. proc'[p] = [proc[p] EXCEPT !.pc = "pack", !.old = DOMAIN packDir]
      /\ Others(p) /\ DOMAIN proc' = Procs
  BY <1>1, ZenonT(60) DEF ListPacks, Others
<1>3. "pack" \in PCs /\ DOMAIN packDir \in SUBSET Bytes
  BY DEF PCs, StoreTypeOK, IsDirectory
<1>4. proc'[p] \in Processes
  BY <1>1, <1>2, <1>3, ZenonT(60) DEF Processes
<1>5. proc' \in [Procs -> Processes]
  BY <1>1, <1>2, <1>4, ZenonT(60) DEF ListPacks, Others
<1> QED
  BY <1>1, <1>2, <1>5, ZenonT(60) DEF Processes, SameCommand, SameWriter, SameLists

LEMMA DropPackMoves ==
  ASSUME StoreTypeOK, NEW p \in Procs, NEW n \in Bytes,
         proc' = [proc EXCEPT ![p].pc = "dropIdx", ![p].old = @ \ {n}, ![p].gone = n]
  PROVE  /\ proc' \in [Procs -> Processes] /\ Others(p)
         /\ proc'[p].pc = "dropIdx" /\ proc'[p].old = proc[p].old \ {n} /\ proc'[p].gone = n
         /\ SameCommand(proc'[p], proc[p]) /\ SameWriter(proc'[p], proc[p])
         /\ proc'[p].todo = proc[p].todo /\ proc'[p].half = proc[p].half
<1>1. proc \in [Procs -> Processes] /\ proc[p] \in Processes
  BY DEF StoreTypeOK
<1>2. proc'[p] = [proc[p] EXCEPT !.pc = "dropIdx", !.old = proc[p].old \ {n}, !.gone = n]
      /\ Others(p) /\ DOMAIN proc' = Procs
  BY <1>1, ZenonT(60) DEF Others
<1>3. "dropIdx" \in PCs /\ proc[p].old \ {n} \in SUBSET Bytes
  BY <1>1 DEF PCs, Processes
<1>4. proc'[p] \in Processes
  BY <1>1, <1>2, <1>3, ZenonT(60) DEF Processes
<1>5. proc' \in [Procs -> Processes]
  BY <1>1, <1>2, <1>4, ZenonT(60) DEF Others
<1> QED
  BY <1>1, <1>2, <1>5, ZenonT(60) DEF Processes, SameCommand, SameWriter, SameLists

LEMMA DropIdxMoves ==
  ASSUME StoreTypeOK, NEW p \in Procs, DropIdx(p)
  PROVE  /\ proc' \in [Procs -> Processes] /\ Others(p)
         /\ proc'[p].pc = "drop" /\ proc'[p].gone = None
         /\ SameCommand(proc'[p], proc[p]) /\ SameWriter(proc'[p], proc[p])
         /\ proc'[p].todo = proc[p].todo /\ proc'[p].half = proc[p].half
         /\ proc'[p].old = proc[p].old
<1>1. proc \in [Procs -> Processes] /\ proc[p] \in Processes
  BY DEF StoreTypeOK
<1>2. proc'[p] = [proc[p] EXCEPT !.pc = "drop", !.gone = None]
      /\ Others(p) /\ DOMAIN proc' = Procs
  BY <1>1, ZenonT(60) DEF DropIdx, Others
<1>3. "drop" \in PCs
  BY DEF PCs
<1>4. proc'[p] \in Processes
  BY <1>1, <1>2, <1>3, ZenonT(60) DEF Processes
<1>5. proc' \in [Procs -> Processes]
  BY <1>1, <1>2, <1>4, ZenonT(60) DEF DropIdx, Others
<1> QED
  BY <1>1, <1>2, <1>5, ZenonT(60) DEF Processes, SameCommand, SameWriter, SameLists

LEMMA PacksDroppedMoves ==
  ASSUME StoreTypeOK, NEW p \in Procs, PacksDropped(p)
  PROVE  /\ proc' \in [Procs -> Processes] /\ Others(p)
         /\ proc'[p].pc = "loose" /\ proc'[p].todo = {o \in Objects : loose[o] # "absent"}
         /\ SameCommand(proc'[p], proc[p]) /\ SameWriter(proc'[p], proc[p])
         /\ proc'[p].half = proc[p].half /\ proc'[p].old = proc[p].old
         /\ proc'[p].gone = proc[p].gone
<1>1. proc \in [Procs -> Processes] /\ proc[p] \in Processes
  BY DEF StoreTypeOK
<1>2. proc'[p] = [proc[p] EXCEPT !.pc = "loose", !.todo = {o \in Objects : loose[o] # "absent"}]
      /\ Others(p) /\ DOMAIN proc' = Procs
  BY <1>1, ZenonT(60) DEF PacksDropped, Others
<1>3. "loose" \in PCs
  BY DEF PCs
<1>4. proc'[p] \in Processes
  BY <1>1, <1>2, <1>3, ZenonT(60) DEF Processes
<1>5. proc' \in [Procs -> Processes]
  BY <1>1, <1>2, <1>4, ZenonT(60) DEF PacksDropped, Others
<1> QED
  BY <1>1, <1>2, <1>5, ZenonT(60) DEF Processes, SameCommand, SameWriter, SameLists

LEMMA ReceiveMoves ==
  ASSUME StoreTypeOK, NEW p \in Procs, NEW l, NEW parent, Receive(p, l, parent)
  PROVE  /\ proc' \in [Procs -> Processes] /\ Others(p)
         /\ proc'[p].pc = "have" /\ proc'[p].new = Len(commits) + 1
         /\ proc'[p].view = proc[p].view /\ proc'[p].leaf = proc[p].leaf
         /\ proc'[p].head = proc[p].head /\ SameWriter(proc'[p], proc[p])
         /\ SameLists(proc'[p], proc[p])
<1>1. proc \in [Procs -> Processes] /\ proc[p] \in Processes
  BY DEF StoreTypeOK
<1>2. proc'[p] = [proc[p] EXCEPT !.pc = "have", !.new = Len(commits) + 1]
      /\ Others(p) /\ DOMAIN proc' = Procs
  BY <1>1, ZenonT(60) DEF Receive, Others
<1>3. "have" \in PCs /\ Len(commits) + 1 \in 0 .. MaxCommits
  BY StoreBoundAssumption DEF PCs, StoreTypeOK, Receive
<1>4. proc'[p] \in Processes
  BY <1>1, <1>2, <1>3, ZenonT(60) DEF Processes
<1>5. proc' \in [Procs -> Processes]
  BY <1>1, <1>2, <1>4, ZenonT(60) DEF Receive, Others
<1> QED
  BY <1>1, <1>2, <1>5, ZenonT(60) DEF Processes, SameCommand, SameWriter, SameLists

\* The objects a process asked for are objects of the history it received.
Lacked(n) == {o \in UNION {ObjectsOf(m) : m \in History[n]} : ~Exists(LoadPacks, o)}

LEMMA LackedTyped ==
  ASSUME StoreTypeOK, NEW p \in Procs
  PROVE  Lacked(proc[p].new) \in SUBSET Objects
<1>1. proc[p].new \in 0 .. Len(commits)
  BY DEF StoreTypeOK, Processes
<1>2. \A m \in History[proc[p].new] : ObjectsOf(m) \subseteq Objects
  BY <1>1, HistoryTyped, ObjectsTyped
<1> QED
  BY <1>2 DEF Lacked

LEMMA HaveMoves ==
  ASSUME StoreTypeOK, NEW p \in Procs, Have(p)
  PROVE  /\ proc' \in [Procs -> Processes] /\ Others(p)
         /\ proc'[p].pc = "recv" /\ proc'[p].todo = Lacked(proc[p].new)
         /\ SameCommand(proc'[p], proc[p]) /\ SameWriter(proc'[p], proc[p])
         /\ proc'[p].half = proc[p].half /\ proc'[p].old = proc[p].old
         /\ proc'[p].gone = proc[p].gone
<1>1. proc \in [Procs -> Processes] /\ proc[p] \in Processes
  BY DEF StoreTypeOK
<1>2. proc'[p] = [proc[p] EXCEPT !.pc = "recv", !.todo = Lacked(proc[p].new)]
      /\ Others(p) /\ DOMAIN proc' = Procs
  BY <1>1, ZenonT(60) DEF Have, Lacked, Others
<1>3. "recv" \in PCs /\ Lacked(proc[p].new) \in SUBSET Objects
  BY LackedTyped DEF PCs
<1>4. proc'[p] \in Processes
  BY <1>1, <1>2, <1>3, ZenonT(60) DEF Processes
<1>5. proc' \in [Procs -> Processes]
  BY <1>1, <1>2, <1>4, ZenonT(60) DEF Have, Lacked, Others
<1> QED
  BY <1>1, <1>2, <1>5, ZenonT(60) DEF Processes, SameCommand, SameWriter, SameLists

LEMMA CreateObjectMoves ==
  ASSUME StoreTypeOK, NEW p \in Procs, NEW o \in Objects,
         proc' = [proc EXCEPT ![p].pc = "fillRecv", ![p].half = {o}]
  PROVE  /\ proc' \in [Procs -> Processes] /\ Others(p)
         /\ proc'[p].pc = "fillRecv" /\ proc'[p].half = {o}
         /\ SameCommand(proc'[p], proc[p]) /\ SameWriter(proc'[p], proc[p])
         /\ proc'[p].todo = proc[p].todo /\ proc'[p].old = proc[p].old
         /\ proc'[p].gone = proc[p].gone
<1>1. proc \in [Procs -> Processes] /\ proc[p] \in Processes
  BY DEF StoreTypeOK
<1>2. proc'[p] = [proc[p] EXCEPT !.pc = "fillRecv", !.half = {o}]
      /\ Others(p) /\ DOMAIN proc' = Procs
  BY <1>1, ZenonT(60) DEF Others
<1>3. "fillRecv" \in PCs /\ {o} \in SUBSET Objects
  BY DEF PCs
<1>4. proc'[p] \in Processes
  BY <1>1, <1>2, <1>3, ZenonT(60) DEF Processes
<1>5. proc' \in [Procs -> Processes]
  BY <1>1, <1>2, <1>4, ZenonT(60) DEF Others
<1> QED
  BY <1>1, <1>2, <1>5, ZenonT(60) DEF Processes, SameCommand, SameWriter, SameLists

LEMMA SkipObjectMoves ==
  ASSUME StoreTypeOK, NEW p \in Procs, NEW o,
         proc' = [proc EXCEPT ![p].todo = @ \ {o}]
  PROVE  /\ proc' \in [Procs -> Processes] /\ Others(p)
         /\ proc'[p].pc = proc[p].pc /\ proc'[p].todo = proc[p].todo \ {o}
         /\ SameCommand(proc'[p], proc[p]) /\ SameWriter(proc'[p], proc[p])
         /\ proc'[p].half = proc[p].half /\ proc'[p].old = proc[p].old
         /\ proc'[p].gone = proc[p].gone
<1>1. proc \in [Procs -> Processes] /\ proc[p] \in Processes
  BY DEF StoreTypeOK
<1>2. proc'[p] = [proc[p] EXCEPT !.pc = proc[p].pc, !.todo = proc[p].todo \ {o}]
      /\ Others(p) /\ DOMAIN proc' = Procs
  BY <1>1, ZenonT(60) DEF Others
<1>3. proc[p].todo \ {o} \in SUBSET Objects
  BY <1>1 DEF Processes
<1>4. proc'[p] \in Processes
  BY <1>1, <1>2, <1>3, ZenonT(60) DEF Processes
<1>5. proc' \in [Procs -> Processes]
  BY <1>1, <1>2, <1>4, ZenonT(60) DEF Others
<1> QED
  BY <1>1, <1>2, <1>5, ZenonT(60) DEF Processes, SameCommand, SameWriter, SameLists

LEMMA FillObjectMoves ==
  ASSUME StoreTypeOK, NEW p \in Procs, NEW o,
         proc' = [proc EXCEPT ![p].pc = "recv", ![p].todo = @ \ {o}, ![p].half = {}]
  PROVE  /\ proc' \in [Procs -> Processes] /\ Others(p)
         /\ proc'[p].pc = "recv" /\ proc'[p].todo = proc[p].todo \ {o} /\ proc'[p].half = {}
         /\ SameCommand(proc'[p], proc[p]) /\ SameWriter(proc'[p], proc[p])
         /\ proc'[p].old = proc[p].old /\ proc'[p].gone = proc[p].gone
<1>1. proc \in [Procs -> Processes] /\ proc[p] \in Processes
  BY DEF StoreTypeOK
<1>2. proc'[p] = [proc[p] EXCEPT !.pc = "recv", !.todo = proc[p].todo \ {o}, !.half = {}]
      /\ Others(p) /\ DOMAIN proc' = Procs
  BY <1>1, ZenonT(60) DEF Others
<1>3. "recv" \in PCs /\ proc[p].todo \ {o} \in SUBSET Objects
  BY <1>1 DEF PCs, Processes
<1>4. proc'[p] \in Processes
  BY <1>1, <1>2, <1>3, ZenonT(60) DEF Processes
<1>5. proc' \in [Procs -> Processes]
  BY <1>1, <1>2, <1>4, ZenonT(60) DEF Others
<1> QED
  BY <1>1, <1>2, <1>5, ZenonT(60) DEF Processes, SameCommand, SameWriter, SameLists

LEMMA CopyMoves ==
  ASSUME StoreTypeOK, NEW p \in Procs, NEW s \in Bytes, NEW l \in PCs,
         proc' = [proc EXCEPT ![p] = [PushPacked(proc[p], s) EXCEPT !.pc = l]]
  PROVE  /\ proc' \in [Procs -> Processes] /\ Others(p)
         /\ proc'[p].index = PushedIndex(proc[p], s) /\ proc'[p].offset = proc[p].offset + Len(s)
         /\ proc'[p].pc = l
         /\ SameCommand(proc'[p], proc[p]) /\ proc'[p].file = proc[p].file
         /\ proc'[p].name = proc[p].name /\ SameLists(proc'[p], proc[p])
<1>1. proc \in [Procs -> Processes] /\ proc[p] \in Processes
  BY DEF StoreTypeOK
<1>2. proc'[p] = [proc[p] EXCEPT !.index = PushedIndex(proc[p], s),
                    !.offset = proc[p].offset + Len(s), !.pc = l]
      /\ Others(p) /\ DOMAIN proc' = Procs
  BY <1>1, ZenonT(60) DEF PushPacked, PushedIndex, Others
<1>3. PushedIndex(proc[p], s) \in Indexes /\ proc[p].offset + Len(s) \in Nat
  BY <1>1, PushedTyped
<1>4. proc'[p] \in Processes
  BY <1>1, <1>2, <1>3, ZenonT(60) DEF Processes
<1>5. proc' \in [Procs -> Processes]
  BY <1>1, <1>2, <1>4, ZenonT(60) DEF PushPacked, PushedIndex, Others
<1> QED
  BY <1>1, <1>2, <1>5, ZenonT(60) DEF Processes, SameCommand, SameWriter, SameLists

LEMMA PutHitMoves ==
  ASSUME StoreTypeOK, NEW p \in Procs, Phased(p), Put(p), Exists(proc[p].view, Leaf(proc[p].leaf))
  PROVE  /\ proc' \in [Procs -> Processes] /\ Others(p)
         /\ proc'[p].pc = "save"
         /\ SameCommand(proc'[p], proc[p]) /\ SameWriter(proc'[p], proc[p])
         /\ SameLists(proc'[p], proc[p])
<1>1. proc \in [Procs -> Processes] /\ proc[p] \in Processes
  BY DEF StoreTypeOK
<1>2. proc'[p] = [proc[p] EXCEPT !.pc = "save", !.known = proc[p].known \cup {proc[p].leaf},
                    !.dirty = proc[p].leaf \notin proc[p].known]
      /\ Others(p) /\ DOMAIN proc' = Procs
  BY <1>1, ZenonT(60) DEF Put, Others
<1>3. /\ "save" \in PCs /\ proc[p].known \cup {proc[p].leaf} \in SUBSET Leaves
      /\ (proc[p].leaf \notin proc[p].known) \in BOOLEAN
  BY <1>1 DEF PCs, Processes, Phased, Put
<1>4. proc'[p] \in Processes
  BY <1>1, <1>2, <1>3, ZenonT(60) DEF Processes
<1>5. proc' \in [Procs -> Processes]
  BY <1>1, <1>2, <1>4, ZenonT(60) DEF Put, Others
<1> QED
  BY <1>1, <1>2, <1>5, ZenonT(60) DEF Processes, SameCommand, SameWriter, SameLists

LEMMA PutMissMoves ==
  ASSUME StoreTypeOK, NEW p \in Procs, Phased(p), Put(p), ~Exists(proc[p].view, Leaf(proc[p].leaf))
  PROVE  /\ proc' \in [Procs -> Processes] /\ Others(p)
         /\ proc'[p].index = PushedIndex(proc[p], <<Leaf(proc[p].leaf)>>)
         /\ proc'[p].offset = proc[p].offset + Len(<<Leaf(proc[p].leaf)>>) /\ proc'[p].pc = "hash"
         /\ SameCommand(proc'[p], proc[p]) /\ proc'[p].file = proc[p].file
         /\ proc'[p].name = proc[p].name /\ SameLists(proc'[p], proc[p])
<1>1. proc \in [Procs -> Processes] /\ proc[p] \in Processes
  BY DEF StoreTypeOK
<1>2. proc'[p] = [proc[p] EXCEPT !.index = PushedIndex(proc[p], <<Leaf(proc[p].leaf)>>),
                    !.offset = proc[p].offset + Len(<<Leaf(proc[p].leaf)>>), !.pc = "hash",
                    !.known = proc[p].known \cup {proc[p].leaf}, !.dirty = TRUE]
      /\ Others(p) /\ DOMAIN proc' = Procs
  BY <1>1, ZenonT(60) DEF Put, PushPacked, PushedIndex, Others
<1>3. /\ "hash" \in PCs /\ proc[p].known \cup {proc[p].leaf} \in SUBSET Leaves
      /\ PushedIndex(proc[p], <<Leaf(proc[p].leaf)>>) \in Indexes
      /\ proc[p].offset + Len(<<Leaf(proc[p].leaf)>>) \in Nat
  BY <1>1, PushedTyped, LeafTyped DEF PCs, Processes, Phased, Put
<1>4. proc'[p] \in Processes
  BY <1>1, <1>2, <1>3, ZenonT(60) DEF Processes
<1>5. proc' \in [Procs -> Processes]
  BY <1>1, <1>2, <1>4, ZenonT(60) DEF Put, PushPacked, PushedIndex, Others
<1> QED
  BY <1>1, <1>2, <1>5, ZenonT(60) DEF Processes, SameCommand, SameWriter, SameLists

-----------------------------------------------------------------------------
(* Type correctness, whoever runs what.                                     *)

DiskTyped ==
  /\ loose \in [Objects -> {"absent", "torn", "whole"}]
  /\ file \in [Files -> Bytes]
  /\ tmp \in Files \cup {0}
  /\ IsDirectory(packDir, Files) /\ IsDirectory(idxDir, Indexes \cup {None})
  /\ cache \subseteq Leaves

CommitsTyped ==
  /\ commits \in Seq([parent : 0 .. MaxCommits, leaf : Leaves]) /\ Len(commits) <= MaxCommits
  /\ \A n \in DOMAIN commits : commits[n].parent < n
  /\ tip \in 0 .. Len(commits) /\ done \subseteq DOMAIN commits

\* The inductive invariant: a command sets a field before it uses it.
TypedInv == StoreTypeOK /\ \A p \in Procs : Phased(p)

LEMMA TypedParts ==
  TypedInv <=> /\ DiskTyped /\ CommitsTyped
               /\ proc \in [Procs -> Processes]
               /\ \A p \in Procs : proc[p].head <= Len(commits) /\ proc[p].new <= Len(commits)
               /\ \A p \in Procs : Phased(p)
BY DEF TypedInv, StoreTypeOK, DiskTyped, CommitsTyped

LEMMA TypedPartsNext ==
  TypedInv' <=> /\ DiskTyped' /\ CommitsTyped'
                /\ proc' \in [Procs -> Processes]
                /\ \A p \in Procs : proc'[p].head <= Len(commits') /\ proc'[p].new <= Len(commits')
                /\ \A p \in Procs : Phased(p)'
BY DEF TypedInv, StoreTypeOK, DiskTyped, CommitsTyped

\* The fields of a process, one by one.
LEMMA FieldsTyped ==
  ASSUME StoreTypeOK, NEW p \in Procs
  PROVE  /\ proc[p].pc \in PCs /\ proc[p].view \in SUBSET [file : Files, index : Indexes]
         /\ proc[p].leaf \in Leaves \cup {None} /\ proc[p].file \in Files \cup {0}
         /\ proc[p].index \in Indexes /\ proc[p].offset \in Nat
         /\ proc[p].name \in {None} \cup Bytes /\ proc[p].gone \in {None} \cup Bytes
         /\ proc[p].known \in SUBSET Leaves
         /\ proc[p].head \in 0 .. Len(commits) /\ proc[p].new \in 0 .. Len(commits)
         /\ proc[p].todo \in SUBSET Objects /\ proc[p].half \in SUBSET Objects
         /\ proc[p].old \in SUBSET Bytes
<1>1. proc[p] \in Processes /\ proc[p].head <= Len(commits) /\ proc[p].new <= Len(commits)
  BY DEF StoreTypeOK
<1>2. Len(commits) \in Nat
  BY DEF StoreTypeOK
<1> QED
  BY <1>1, <1>2, StoreBoundAssumption DEF Processes

\* A step of p that leaves the branch and the commits alone.
LEMMA TypedStep ==
  ASSUME TypedInv, NEW p \in Procs, Others(p), proc' \in [Procs -> Processes],
         Phased(p)', DiskTyped', UNCHANGED <<tip, commits, done>>,
         proc'[p].head \in {0, proc[p].head, tip}, proc'[p].new \in {0, proc[p].new}
  PROVE  TypedInv'
<1>1. CommitsTyped /\ CommitsTyped'
  BY TypedParts DEF CommitsTyped
<1>2. ASSUME NEW q \in Procs PROVE proc'[q].head <= Len(commits') /\ proc'[q].new <= Len(commits')
  <2>1. /\ proc[q].head <= Len(commits) /\ proc[q].new <= Len(commits)
        /\ proc[p].head <= Len(commits) /\ proc[p].new <= Len(commits)
        /\ 0 <= Len(commits) /\ tip <= Len(commits)
    BY <1>1, TypedParts DEF CommitsTyped
  <2> QED
    BY <2>1 DEF Others
<1>3. ASSUME NEW q \in Procs PROVE Phased(q)'
  <2>1. Phased(q)
    BY DEF TypedInv
  <2>2. q # p => proc'[q] = proc[q]
    BY DEF Others
  <2> QED
    BY <2>1, <2>2 DEF Phased
<1> QED
  BY <1>1, <1>2, <1>3, TypedPartsNext

\* A step of p that writes nothing to disk.
LEMMA TypedRead ==
  ASSUME TypedInv, NEW p \in Procs, Others(p), proc' \in [Procs -> Processes],
         Phased(p)', UNCHANGED <<loose, packVars, cache, tip, commits, done>>,
         proc'[p].head \in {0, proc[p].head, tip}, proc'[p].new \in {0, proc[p].new}
  PROVE  TypedInv'
<1>1. DiskTyped
  BY TypedParts
<1>2. DiskTyped'
  BY <1>1 DEF DiskTyped, packVars
<1> QED
  BY <1>2, TypedStep

LEMMA IdlePhased ==
  ASSUME NEW p \in Procs, proc'[p] = Idle
  PROVE  Phased(p)' /\ proc'[p].head = 0 /\ proc'[p].new = 0 /\ proc'[p].leaf = None
BY DEF Idle, Phased

\* p stops.
LEMMA TypedExit ==
  ASSUME TypedInv, NEW p \in Procs, Exit(p), UNCHANGED <<loose, packVars, cache, tip, commits, done>>
  PROVE  TypedInv'
<1>1. StoreTypeOK
  BY DEF TypedInv
<1> QED
  BY <1>1, ExitMoves, IdlePhased, TypedRead

\* p goes on to l.
LEMMA TypedGoto ==
  ASSUME TypedInv, NEW p \in Procs, NEW l \in PCs, Goto(p, l), DiskTyped',
         UNCHANGED <<tip, commits, done>>,
         l \in {"commit", "load", "put", "save", "tree", "fillTree", "head", "write",
                "fillCommit"} => proc[p].leaf # None,
         l \in {"idle", "receive", "have", "recv", "fillRecv", "gc", "list", "pack", "copy",
                "drop", "dropIdx", "loose"} => proc[p].leaf = None,
         l \in {"rename", "idx", "fillIdx"} => proc[p].name \in Bytes,
         l \in {"fillCommit", "ref", "setRef", "have", "recv", "fillRecv"} => proc[p].new # 0
  PROVE  TypedInv'
<1>1. /\ proc' \in [Procs -> Processes] /\ Others(p) /\ proc'[p].pc = l
      /\ SameCommand(proc'[p], proc[p]) /\ SameWriter(proc'[p], proc[p])
  BY GotoMoves DEF TypedInv
<1>2. Phased(p)'
  BY <1>1 DEF Phased, SameCommand, SameWriter
<1> QED
  BY <1>1, <1>2, TypedStep DEF SameCommand

\* A directory that an entry is made in or removed from.
LEMMA EnteredLemma ==
  ASSUME NEW C, NEW d, IsDirectory(d, C), NEW n \in Bytes, NEW x \in C
  PROVE  /\ IsDirectory(Entered(d, n, x), C)
         /\ DOMAIN Entered(d, n, x) = DOMAIN d \cup {n}
         /\ Entered(d, n, x)[n] = x
         /\ \A m \in DOMAIN d \ {n} : Entered(d, n, x)[m] = d[m]
BY DEF IsDirectory, Entered

LEMMA RestrictLemma ==
  ASSUME NEW C, NEW d, IsDirectory(d, C), NEW n
  PROVE  LET e == Restrict(d, DOMAIN d \ {n}) IN
         /\ IsDirectory(e, C) /\ DOMAIN e = DOMAIN d \ {n}
         /\ \A m \in DOMAIN e : e[m] = d[m]
BY DEF IsDirectory, Restrict

\* A loose file that changes.
LEMMA LooseTyped ==
  ASSUME DiskTyped, NEW o, NEW x \in {"absent", "torn", "whole"},
         loose' = [loose EXCEPT ![o] = x], UNCHANGED <<packVars, cache>>
  PROVE  DiskTyped'
BY DEF DiskTyped, packVars

\* A step that starts a pack.
LEMMA TypedWriter ==
  ASSUME TypedInv, NEW p \in Procs, NEW l \in {"load", "copy"}, NewWriter(p, l),
         l = "load" => proc[p].leaf # None, l = "copy" => proc[p].leaf = None,
         UNCHANGED <<loose, cache, tip, commits, done>>
  PROVE  TypedInv'
<1>1. StoreTypeOK /\ DiskTyped /\ l \in PCs
  BY TypedParts DEF TypedInv, PCs
<1>2. /\ proc' \in [Procs -> Processes] /\ Others(p) /\ proc'[p].pc = l
      /\ SameCommand(proc'[p], proc[p])
  BY <1>1, NewWriterMoves
<1>3. Phased(p)'
  BY <1>2 DEF Phased, SameCommand
<1>4. PICK f \in Files : tmp' = f /\ file' = [file EXCEPT ![f] = <<>>] /\ UNCHANGED <<packDir, idxDir>>
  BY Zenon DEF NewWriter
<1>5. <<>> \in Bytes
  BY DEF Bytes
<1>6. DiskTyped'
  BY <1>1, <1>4, <1>5 DEF DiskTyped
<1> QED
  BY <1>2, <1>3, <1>6, TypedStep DEF SameCommand

\* The bytes of a pack that is written to.
LEMMA FileTyped ==
  ASSUME DiskTyped, NEW f, NEW at \in Nat, NEW s \in Bytes,
         file' = [file EXCEPT ![f] = Overlay(@, at, s)],
         UNCHANGED <<loose, tmp, packDir, idxDir, cache>>
  PROVE  DiskTyped'
<1>1. f \in Files => Overlay(file[f], at, s) \in Bytes
  BY OverlayLemma DEF DiskTyped
<1>2. file' \in [Files -> Bytes]
  BY <1>1 DEF DiskTyped
<1> QED
  BY <1>2 DEF DiskTyped

\* A commit that is added to those made.
LEMMA CommitsTypedStep ==
  ASSUME TypedInv, Len(commits) < MaxCommits, NEW l \in Leaves, NEW parent \in 0 .. Len(commits),
         commits' = Append(commits, [parent |-> parent, leaf |-> l]), UNCHANGED <<tip, done>>
  PROVE  CommitsTyped' /\ Len(commits') = Len(commits) + 1 /\ Len(commits) \in Nat
<1> DEFINE r == [parent |-> parent, leaf |-> l]
           R == [parent : 0 .. MaxCommits, leaf : Leaves]
<1>1. /\ commits \in Seq(R) /\ Len(commits) \in Nat /\ tip \in 0 .. Len(commits)
      /\ \A n \in DOMAIN commits : commits[n].parent < n
      /\ done \subseteq DOMAIN commits /\ DOMAIN commits = 1 .. Len(commits)
  BY TypedParts DEF CommitsTyped
<1>2. r \in R
  BY <1>1, StoreBoundAssumption
<1>3. r.parent = parent
  OBVIOUS
<1> HIDE DEF r, R
<1>4. /\ commits' \in Seq(R) /\ Len(commits') = Len(commits) + 1
      /\ DOMAIN commits' = 1 .. Len(commits) + 1
      /\ commits'[Len(commits) + 1] = r
      /\ \A n \in DOMAIN commits : commits'[n] = commits[n]
  BY <1>1, <1>2 DEF r
<1>5. \A n \in DOMAIN commits' : commits'[n].parent < n
  <2> SUFFICES ASSUME NEW n \in 1 .. Len(commits) + 1 PROVE commits'[n].parent < n
    BY <1>4
  <2>1. CASE n = Len(commits) + 1
    BY <1>1, <1>3, <1>4, <2>1
  <2>2. CASE n # Len(commits) + 1
    <3>1. n \in DOMAIN commits
      BY <1>1, <2>2
    <3> QED
      BY <1>1, <1>4, <3>1
  <2> QED
    BY <2>1, <2>2
<1>6. /\ Len(commits') <= MaxCommits /\ tip' \in 0 .. Len(commits')
      /\ done' \subseteq DOMAIN commits'
  BY <1>1, <1>4, StoreBoundAssumption
<1>7. CommitsTyped'
  BY <1>4, <1>5, <1>6 DEF CommitsTyped, R
<1> QED
  BY <1>1, <1>4, <1>7

\* A step of p that adds a commit.
LEMMA TypedAdds ==
  ASSUME TypedInv, NEW p \in Procs, Others(p), proc' \in [Procs -> Processes],
         Phased(p)', DiskTyped', CommitsTyped', Len(commits') = Len(commits) + 1,
         proc'[p].head = proc[p].head, proc'[p].new = Len(commits) + 1
  PROVE  TypedInv'
<1>1. Len(commits) \in Nat
  BY TypedParts DEF CommitsTyped
<1>2. ASSUME NEW q \in Procs PROVE proc'[q].head <= Len(commits') /\ proc'[q].new <= Len(commits')
  <2>1. /\ proc[q].head \in 0 .. Len(commits) /\ proc[q].new \in 0 .. Len(commits)
        /\ proc[p].head \in 0 .. Len(commits)
    BY FieldsTyped DEF TypedInv
  <2> QED
    BY <1>1, <2>1 DEF Others
<1>3. ASSUME NEW q \in Procs PROVE Phased(q)'
  <2>1. Phased(q)
    BY DEF TypedInv
  <2>2. q # p => proc'[q] = proc[q]
    BY DEF Others
  <2> QED
    BY <2>1, <2>2 DEF Phased
<1> QED
  BY <1>2, <1>3, TypedPartsNext

\* Every step of commit keeps the types.
LEMMA TypedCommit ==
  ASSUME TypedInv, NEW p \in Procs,
         \/ Snapshot(p) \/ LoadCache(p) \/ Put(p) \/ Save(p)
         \/ FinishHash(p) \/ Rename(p) \/ CreateIdx(p) \/ FillIdx(p)
         \/ WriteManifest(p) \/ FillManifest(p) \/ ReadHead(p)
         \/ WriteCommit(p) \/ FillCommit(p) \/ TruncateRef(p) \/ WriteRef(p)
  PROVE  TypedInv'
<1>0. StoreTypeOK /\ Phased(p) /\ DiskTyped /\ CommitsTyped
  BY TypedParts DEF TypedInv
<1>1. CASE Snapshot(p)
  <2>1. proc[p].leaf # None
    BY <1>0, <1>1 DEF Snapshot, Phased
  <2> QED
    BY <1>1, <2>1, TypedWriter DEF Snapshot
<1>2. CASE LoadCache(p)
  <2>1. /\ proc' \in [Procs -> Processes] /\ Others(p) /\ proc'[p].pc = "put"
        /\ SameCommand(proc'[p], proc[p])
    BY <1>0, <1>2, LoadCacheMoves
  <2>2. Phased(p)'
    BY <1>0, <1>2, <2>1 DEF LoadCache, Phased, SameCommand
  <2> QED
    BY <1>2, <2>1, <2>2, TypedRead DEF LoadCache, SameCommand
<1>3. CASE Put(p)
  <2>1. CASE Exists(proc[p].view, Leaf(proc[p].leaf))
    <3>1. /\ proc' \in [Procs -> Processes] /\ Others(p) /\ proc'[p].pc = "save"
          /\ SameCommand(proc'[p], proc[p])
      BY <1>0, <1>3, <2>1, PutHitMoves
    <3>2. Phased(p)'
      BY <1>0, <1>3, <3>1 DEF Put, Phased, SameCommand
    <3>3. UNCHANGED <<loose, packVars, cache, tip, commits, done>>
      BY <1>3, <2>1 DEF Put, packVars
    <3> QED
      BY <3>1, <3>2, <3>3, TypedRead DEF SameCommand
  <2>2. CASE ~Exists(proc[p].view, Leaf(proc[p].leaf))
    <3>1. /\ proc' \in [Procs -> Processes] /\ Others(p) /\ proc'[p].pc = "hash"
          /\ SameCommand(proc'[p], proc[p])
      BY <1>0, <1>3, <2>2, PutMissMoves
    <3>2. Phased(p)'
      BY <1>0, <1>3, <3>1 DEF Put, Phased, SameCommand
    <3>3. proc[p].leaf \in Leaves /\ proc[p].offset \in Nat
      BY <1>0, <1>3, FieldsTyped DEF Put, Phased
    <3>4. /\ file' = [file EXCEPT ![proc[p].file] =
                        Overlay(@, proc[p].offset, <<Leaf(proc[p].leaf)>>)]
          /\ UNCHANGED <<loose, tmp, packDir, idxDir, cache, tip, commits, done>>
      BY <1>3, <2>2, Zenon DEF Put
    <3>5. DiskTyped'
      BY <1>0, <3>3, <3>4, FileTyped, LeafTyped
    <3> QED
      BY <3>1, <3>2, <3>4, <3>5, TypedStep DEF SameCommand
  <2> QED
    BY <2>1, <2>2
<1>4. CASE Save(p)
  <2>1. /\ proc' \in [Procs -> Processes] /\ Others(p) /\ proc'[p].pc = "tree"
        /\ proc'[p].leaf = proc[p].leaf /\ proc'[p].head = proc[p].head /\ proc'[p].new = proc[p].new
    BY <1>0, <1>4, SaveMoves
  <2>2. Phased(p)'
    BY <1>0, <1>4, <2>1 DEF Save, Phased
  <2>3. proc[p].known \in SUBSET Leaves
    BY <1>0, FieldsTyped
  <2>4. DiskTyped'
    BY <1>0, <1>4, <2>3 DEF Save, DiskTyped, packVars
  <2> QED
    BY <1>4, <2>1, <2>2, <2>4, TypedStep DEF Save
<1>5. CASE FinishHash(p)
  <2>1. CASE tmp = 0
    BY <1>5, <2>1, TypedExit DEF FinishHash
  <2>2. CASE tmp # 0
    <3>1. /\ proc' \in [Procs -> Processes] /\ Others(p) /\ proc'[p].pc = "rename"
          /\ proc'[p].name = file[tmp] /\ SameCommand(proc'[p], proc[p])
      BY <1>0, <1>5, <2>2, FinishHashMoves
    <3>2. file[tmp] \in Bytes
      BY <1>0, <2>2 DEF DiskTyped
    <3>3. Phased(p)'
      BY <3>1, <3>2 DEF Phased
    <3> QED
      BY <1>5, <3>1, <3>3, TypedRead DEF FinishHash, SameCommand
  <2> QED
    BY <2>1, <2>2
<1>6. CASE Rename(p)
  <2>1. CASE tmp = 0
    <3>1. Exit(p) /\ UNCHANGED <<loose, packVars, cache, tip, commits, done>>
      BY <1>6, <2>1 DEF Rename, packVars
    <3> QED
      BY <3>1, TypedExit
  <2>2. CASE tmp # 0
    <3>1. /\ packDir' = Entered(packDir, proc[p].name, tmp) /\ tmp' = 0 /\ Goto(p, "idx")
          /\ UNCHANGED <<loose, file, idxDir, cache, tip, commits, done>>
      BY <1>6, <2>2 DEF Rename
    <3>2. proc[p].name \in Bytes
      BY <1>0, <1>6 DEF Rename, Phased
    <3>3. IsDirectory(packDir', Files)
      BY <1>0, <2>2, <3>1, <3>2, EnteredLemma DEF DiskTyped
    <3>4. DiskTyped' /\ "idx" \in PCs
      BY <1>0, <3>1, <3>3 DEF DiskTyped, PCs
    <3> QED
      BY <3>1, <3>2, <3>4, TypedGoto
  <2> QED
    BY <2>1, <2>2
<1>7. CASE CreateIdx(p)
  <2>1. proc[p].name \in Bytes /\ "fillIdx" \in PCs
    BY <1>0, <1>7 DEF CreateIdx, Phased, PCs
  <2>2. IsDirectory(Entered(idxDir, proc[p].name, None), Indexes \cup {None})
    BY <1>0, <2>1, EnteredLemma DEF DiskTyped
  <2>3. DiskTyped'
    BY <1>0, <1>7, <2>2 DEF DiskTyped, CreateIdx
  <2> QED
    BY <1>7, <2>1, <2>3, TypedGoto DEF CreateIdx
<1>8. CASE FillIdx(p)
  <2>1. proc[p].index \in Indexes
    BY <1>0, FieldsTyped
  <2>2. IsDirectory(idxDir', Indexes \cup {None})
    BY <1>0, <1>8, <2>1 DEF DiskTyped, FillIdx, IsDirectory
  <2>3. DiskTyped'
    BY <1>0, <1>8, <2>2 DEF DiskTyped, FillIdx
  <2>4. PICK l \in {"drop", "save"} : Goto(p, l) /\ (l = "drop" <=> proc[p].leaf = None)
    BY <1>8 DEF FillIdx
  <2>5. l \in PCs
    BY DEF PCs
  <2> QED
    BY <1>8, <2>3, <2>4, <2>5, TypedGoto DEF FillIdx
<1>9. CASE WriteManifest(p)
  <2>1. PICK l \in {"fillTree", "head"} : Goto(p, l)
    BY <1>9 DEF WriteManifest, CreateLoose
  <2>2. l \in PCs /\ proc[p].leaf # None
    BY <1>0, <1>9 DEF PCs, WriteManifest, Phased
  <2>3. Tree(proc[p].leaf) \in Objects
    BY <1>0, <2>2, FieldsTyped, LeafTyped
  <2>4. DiskTyped'
    BY <1>0, <1>9, <2>3 DEF DiskTyped, WriteManifest, CreateLoose, packVars
  <2> QED
    BY <1>9, <2>1, <2>2, <2>4, TypedGoto DEF WriteManifest
<1>10. CASE FillManifest(p)
  <2>1. Goto(p, "head") /\ "head" \in PCs /\ proc[p].leaf # None
    BY <1>0, <1>10 DEF FillManifest, PCs, Phased
  <2>2. Tree(proc[p].leaf) \in Objects
    BY <1>0, <2>1, FieldsTyped, LeafTyped
  <2>3. DiskTyped'
    BY <1>0, <1>10, <2>2 DEF DiskTyped, FillManifest, FillLoose, packVars
  <2> QED
    BY <1>10, <2>1, <2>3, TypedGoto DEF FillManifest
<1>11. CASE ReadHead(p)
  <2>1. CASE Exit(p)
    BY <1>11, <2>1, TypedExit DEF ReadHead
  <2>2. CASE proc' = [proc EXCEPT ![p].pc = "write", ![p].head = tip]
    <3>1. /\ proc' \in [Procs -> Processes] /\ Others(p) /\ proc'[p].pc = "write"
          /\ proc'[p].head = tip /\ proc'[p].leaf = proc[p].leaf /\ proc'[p].new = proc[p].new
      BY <1>0, <2>2, ReadHeadMoves
    <3>2. Phased(p)'
      BY <1>0, <1>11, <3>1 DEF ReadHead, Phased
    <3> QED
      BY <1>11, <3>1, <3>2, TypedRead DEF ReadHead
  <2> QED
    BY <1>11, <2>1, <2>2, Zenon DEF ReadHead
<1>12. CASE WriteCommit(p)
  <2>1. /\ proc' \in [Procs -> Processes] /\ Others(p) /\ proc'[p].pc = "fillCommit"
        /\ proc'[p].new = Len(commits) + 1
        /\ proc'[p].leaf = proc[p].leaf /\ proc'[p].head = proc[p].head
    BY <1>0, <1>12, WriteCommitMoves
  <2>2. proc[p].leaf \in Leaves /\ proc[p].head \in 0 .. Len(commits)
    BY <1>0, <1>12, FieldsTyped DEF WriteCommit, Phased
  <2>3. /\ commits' = Append(commits, [parent |-> proc[p].head, leaf |-> proc[p].leaf])
        /\ Len(commits) < MaxCommits /\ UNCHANGED <<tip, done>>
    BY <1>12 DEF WriteCommit
  <2>4. CommitsTyped' /\ Len(commits') = Len(commits) + 1 /\ Len(commits) \in Nat
    BY <2>2, <2>3, CommitsTypedStep
  <2>5. DiskTyped'
    BY <1>0, <1>12, LooseTyped DEF WriteCommit
  <2>6. Phased(p)'
    BY <2>1, <2>2, <2>4, StoreBoundAssumption DEF Phased
  <2> QED
    BY <2>1, <2>4, <2>5, <2>6, TypedAdds
<1>13. CASE FillCommit(p)
  <2>1. Goto(p, "ref") /\ "ref" \in PCs /\ proc[p].new # 0
    BY <1>0, <1>13 DEF FillCommit, PCs, Phased
  <2>2. DiskTyped'
    BY <1>0, <1>13 DEF DiskTyped, FillCommit, FillLoose, packVars
  <2> QED
    BY <1>13, <2>1, <2>2, TypedGoto DEF FillCommit
<1>14. CASE TruncateRef(p)
  <2>1. /\ proc' \in [Procs -> Processes] /\ Others(p) /\ proc'[p].pc = "setRef"
        /\ SameCommand(proc'[p], proc[p])
    BY <1>0, <1>14, GotoMoves DEF TruncateRef, PCs
  <2>2. DiskTyped' /\ CommitsTyped'
    BY <1>0, <1>14 DEF DiskTyped, CommitsTyped, TruncateRef, packVars
  <2>3. ASSUME NEW q \in Procs
        PROVE  Phased(q)' /\ proc'[q].head <= Len(commits') /\ proc'[q].new <= Len(commits')
    <3>1. Phased(q) /\ proc[q].head <= Len(commits) /\ proc[q].new <= Len(commits)
      BY TypedParts
    <3>2. commits' = commits /\ proc[p].pc = "ref"
      BY <1>14 DEF TruncateRef
    <3>3. CASE q = p
      BY <1>0, <2>1, <3>1, <3>2, <3>3 DEF Phased, SameCommand
    <3>4. CASE q # p
      <4>1. proc'[q] = proc[q]
        BY <2>1, <3>4 DEF Others
      <4> QED
        BY <3>1, <3>2, <4>1 DEF Phased
    <3> QED
      BY <3>3, <3>4
  <2> QED
    BY <2>1, <2>2, <2>3, TypedPartsNext
<1>15. CASE WriteRef(p)
  <2>1. proc' \in [Procs -> Processes] /\ Others(p) /\ proc'[p] = Idle
    BY <1>0, <1>15, ExitMoves DEF WriteRef
  <2>2. proc[p].new \in DOMAIN commits
    <3>1. proc[p].new \in 0 .. Len(commits) /\ proc[p].new # 0
      BY <1>0, <1>15, FieldsTyped DEF WriteRef, Phased
    <3> QED
      BY <1>0, <3>1 DEF CommitsTyped
  <2>3. DiskTyped' /\ CommitsTyped'
    BY <1>0, <1>15, <2>2 DEF DiskTyped, CommitsTyped, WriteRef, packVars
  <2>4. ASSUME NEW q \in Procs
        PROVE  Phased(q)' /\ proc'[q].head <= Len(commits') /\ proc'[q].new <= Len(commits')
    <3>1. Phased(q) /\ proc[q].head <= Len(commits) /\ proc[q].new <= Len(commits)
      BY TypedParts
    <3>2. commits' = commits /\ Len(commits) \in Nat
      BY <1>0, <1>15 DEF WriteRef, CommitsTyped
    <3>3. CASE q = p
      BY <2>1, <3>2, <3>3, IdlePhased
    <3>4. CASE q # p
      <4>1. proc'[q] = proc[q]
        BY <2>1, <3>4 DEF Others
      <4> QED
        BY <3>1, <3>2, <4>1 DEF Phased
    <3> QED
      BY <3>3, <3>4
  <2> QED
    BY <2>1, <2>3, <2>4, TypedPartsNext
<1> QED
  BY <1>1, <1>2, <1>3, <1>4, <1>5, <1>6, <1>7, <1>8, <1>9, <1>10, <1>11, <1>12, <1>13, <1>14, <1>15

\* What gc puts into the new pack.
LEMMA CopySteps ==
  ASSUME StoreTypeOK, NEW p \in Procs, Copy(p)
  PROVE  \E s \in Bytes, l \in {"drop", "hash"} :
           /\ file' = [file EXCEPT ![proc[p].file] = Overlay(@, proc[p].offset, s)]
           /\ proc' = [proc EXCEPT ![p] = [PushPacked(proc[p], s) EXCEPT !.pc = l]]
           /\ ToSet(s) = {o \in proc[p].todo : Reads(proc[p].view, o)}
           /\ l = "drop" => ToSet(s) = {}
<1> DEFINE S == {o \in proc[p].todo : Reads(proc[p].view, o)}
           s == SetToSeq(S)
           l == IF s = <<>> THEN "drop" ELSE "hash"
<1>1. S \in SUBSET Objects
  BY FieldsTyped
<1>2. s \in Bytes /\ ToSet(s) = S /\ (s = <<>> => S = {})
  BY <1>1, BytesLemma
<1>3. l \in {"drop", "hash"} /\ (l = "drop" => s = <<>>)
  OBVIOUS
<1>4. /\ file' = [file EXCEPT ![proc[p].file] = Overlay(@, proc[p].offset, s)]
      /\ proc' = [proc EXCEPT ![p] = [PushPacked(proc[p], s) EXCEPT !.pc = l]]
  BY Zenon DEF Copy
<1> HIDE DEF s, l
<1> QED
  BY <1>2, <1>3, <1>4, Zenon

\* Every step of gc keeps the types.
LEMMA TypedGc ==
  ASSUME TypedInv, NEW p \in Procs,
         \/ Walk(p) \/ ListPacks(p) \/ NewPack(p) \/ Copy(p)
         \/ DropPack(p) \/ DropIdx(p) \/ PacksDropped(p) \/ DropLoose(p) \/ GcDone(p)
  PROVE  TypedInv'
<1>0. StoreTypeOK /\ Phased(p) /\ DiskTyped /\ CommitsTyped
  BY TypedParts DEF TypedInv
<1>1. CASE Walk(p)
  <2>1. /\ proc' \in [Procs -> Processes] /\ Others(p) /\ proc'[p].pc = "list"
        /\ SameCommand(proc'[p], proc[p])
    BY <1>0, <1>1, WalkMoves
  <2>2. Phased(p)'
    BY <1>0, <1>1, <2>1 DEF Walk, Phased, SameCommand
  <2> QED
    BY <1>1, <2>1, <2>2, TypedRead DEF Walk, SameCommand
<1>2. CASE ListPacks(p)
  <2>1. /\ proc' \in [Procs -> Processes] /\ Others(p) /\ proc'[p].pc = "pack"
        /\ SameCommand(proc'[p], proc[p])
    BY <1>0, <1>2, ListPacksMoves
  <2>2. Phased(p)'
    BY <1>0, <1>2, <2>1 DEF ListPacks, Phased, SameCommand
  <2> QED
    BY <1>2, <2>1, <2>2, TypedRead DEF ListPacks, SameCommand
<1>3. CASE NewPack(p)
  <2>1. proc[p].leaf = None
    BY <1>0, <1>3 DEF NewPack, Phased
  <2> QED
    BY <1>3, <2>1, TypedWriter DEF NewPack
<1>4. CASE Copy(p)
  <2>1. proc[p].offset \in Nat
    BY <1>0, FieldsTyped
  <2>2. PICK s \in Bytes, l \in {"drop", "hash"} :
          /\ file' = [file EXCEPT ![proc[p].file] = Overlay(@, proc[p].offset, s)]
          /\ proc' = [proc EXCEPT ![p] = [PushPacked(proc[p], s) EXCEPT !.pc = l]]
    BY <1>0, <1>4, CopySteps, Zenon
  <2>3. l \in PCs
    BY DEF PCs
  <2>4. /\ proc' \in [Procs -> Processes] /\ Others(p) /\ proc'[p].pc = l
        /\ SameCommand(proc'[p], proc[p])
    BY <1>0, <2>2, <2>3, CopyMoves, ZenonT(60)
  <2>5. Phased(p)'
    BY <1>0, <1>4, <2>4 DEF Copy, Phased, SameCommand
  <2>6. UNCHANGED <<loose, tmp, packDir, idxDir, cache, tip, commits, done>>
    BY <1>4 DEF Copy
  <2>7. DiskTyped'
    BY <1>0, <2>1, <2>2, <2>6, FileTyped
  <2> QED
    BY <2>4, <2>5, <2>6, <2>7, TypedStep DEF SameCommand
<1>5. CASE DropPack(p)
  <2>1. PICK n \in proc[p].old \ {proc[p].name} :
          /\ packDir' = Restrict(packDir, DOMAIN packDir \ {n})
          /\ proc' = [proc EXCEPT ![p].pc = "dropIdx", ![p].old = @ \ {n}, ![p].gone = n]
    BY <1>5, Zenon DEF DropPack
  <2>2. n \in Bytes
    BY <1>0, FieldsTyped
  <2>3. /\ proc' \in [Procs -> Processes] /\ Others(p) /\ proc'[p].pc = "dropIdx"
        /\ SameCommand(proc'[p], proc[p])
    BY <1>0, <2>1, <2>2, DropPackMoves
  <2>4. Phased(p)'
    BY <1>0, <1>5, <2>3 DEF DropPack, Phased, SameCommand
  <2>5. UNCHANGED <<loose, file, tmp, idxDir, cache, tip, commits, done>>
    BY <1>5 DEF DropPack
  <2>6. IsDirectory(packDir', Files)
    BY <1>0, <2>1, RestrictLemma DEF DiskTyped
  <2>7. DiskTyped'
    BY <1>0, <2>5, <2>6 DEF DiskTyped
  <2> QED
    BY <2>3, <2>4, <2>5, <2>7, TypedStep DEF SameCommand
<1>6. CASE DropIdx(p)
  <2>1. /\ proc' \in [Procs -> Processes] /\ Others(p) /\ proc'[p].pc = "drop"
        /\ SameCommand(proc'[p], proc[p])
    BY <1>0, <1>6, DropIdxMoves
  <2>2. Phased(p)'
    BY <1>0, <1>6, <2>1 DEF DropIdx, Phased, SameCommand
  <2>3. IsDirectory(idxDir', Indexes \cup {None})
    BY <1>0, <1>6, RestrictLemma DEF DiskTyped, DropIdx
  <2>4. DiskTyped'
    BY <1>0, <1>6, <2>3 DEF DiskTyped, DropIdx
  <2> QED
    BY <1>6, <2>1, <2>2, <2>4, TypedStep DEF DropIdx, SameCommand
<1>7. CASE PacksDropped(p)
  <2>1. /\ proc' \in [Procs -> Processes] /\ Others(p) /\ proc'[p].pc = "loose"
        /\ SameCommand(proc'[p], proc[p])
    BY <1>0, <1>7, PacksDroppedMoves
  <2>2. Phased(p)'
    BY <1>0, <1>7, <2>1 DEF PacksDropped, Phased, SameCommand
  <2> QED
    BY <1>7, <2>1, <2>2, TypedRead DEF PacksDropped, SameCommand
<1>8. CASE DropLoose(p)
  <2>1. UNCHANGED <<packVars, cache, tip, commits, done, proc>> /\ \E o : loose' = [loose EXCEPT ![o] = "absent"]
    BY <1>8 DEF DropLoose
  <2>2. DiskTyped'
    BY <1>0, <2>1, LooseTyped
  <2>3. /\ proc' \in [Procs -> Processes] /\ Others(p) /\ Phased(p)'
        /\ proc'[p].head = proc[p].head /\ proc'[p].new = proc[p].new
    BY <1>0, <2>1 DEF Others, Phased, StoreTypeOK
  <2> QED
    BY <2>1, <2>2, <2>3, TypedStep
<1>9. CASE GcDone(p)
  BY <1>9, TypedExit DEF GcDone
<1> QED
  BY <1>1, <1>2, <1>3, <1>4, <1>5, <1>6, <1>7, <1>8, <1>9

\* Every step of a push that arrives keeps the types.
LEMMA TypedReceive ==
  ASSUME TypedInv, NEW p \in Procs,
         \/ \E l \in Leaves, parent \in {0, tip} : Receive(p, l, parent)
         \/ Have(p) \/ PutObject(p) \/ FillObject(p) \/ SetRef(p)
  PROVE  TypedInv'
<1>0. StoreTypeOK /\ Phased(p) /\ DiskTyped /\ CommitsTyped
  BY TypedParts DEF TypedInv
<1>1. CASE \E l \in Leaves, parent \in {0, tip} : Receive(p, l, parent)
  <2>1. PICK l \in Leaves, parent \in {0, tip} : Receive(p, l, parent)
    BY <1>1
  <2>2. /\ proc' \in [Procs -> Processes] /\ Others(p) /\ proc'[p].pc = "have"
        /\ proc'[p].new = Len(commits) + 1
        /\ proc'[p].leaf = proc[p].leaf /\ proc'[p].head = proc[p].head
    BY <1>0, <2>1, ReceiveMoves
  <2>3. parent \in 0 .. Len(commits)
    BY <1>0 DEF CommitsTyped
  <2>4. /\ commits' = Append(commits, [parent |-> parent, leaf |-> l])
        /\ Len(commits) < MaxCommits /\ UNCHANGED <<loose, packVars, cache, tip, done>>
    BY <2>1 DEF Receive
  <2>5. CommitsTyped' /\ Len(commits') = Len(commits) + 1 /\ Len(commits) \in Nat
    BY <2>3, <2>4, CommitsTypedStep
  <2>6. DiskTyped'
    BY <1>0, <2>4 DEF DiskTyped, packVars
  <2>7. Phased(p)'
    BY <1>0, <2>1, <2>2, <2>5 DEF Phased, Receive
  <2> QED
    BY <2>2, <2>5, <2>6, <2>7, TypedAdds
<1>2. CASE Have(p)
  <2>1. /\ proc' \in [Procs -> Processes] /\ Others(p) /\ proc'[p].pc = "recv"
        /\ SameCommand(proc'[p], proc[p])
    BY <1>0, <1>2, HaveMoves
  <2>2. Phased(p)'
    BY <1>0, <1>2, <2>1 DEF Have, Phased, SameCommand
  <2> QED
    BY <1>2, <2>1, <2>2, TypedRead DEF Have, SameCommand
<1>3. CASE PutObject(p)
  <2>1. PICK o \in proc[p].todo :
          \/ /\ loose' = [loose EXCEPT ![o] = "torn"]
             /\ proc' = [proc EXCEPT ![p].pc = "fillRecv", ![p].half = {o}]
          \/ /\ UNCHANGED loose
             /\ proc' = [proc EXCEPT ![p].todo = @ \ {o}]
    BY <1>3, Zenon DEF PutObject
  <2>2. o \in Objects
    BY <1>0, FieldsTyped
  <2>3. UNCHANGED <<packVars, cache, tip, commits, done>> /\ proc[p].pc = "recv"
    BY <1>3 DEF PutObject
  <2>4. CASE loose' = [loose EXCEPT ![o] = "torn"]
             /\ proc' = [proc EXCEPT ![p].pc = "fillRecv", ![p].half = {o}]
    <3>1. /\ proc' \in [Procs -> Processes] /\ Others(p) /\ proc'[p].pc = "fillRecv"
          /\ SameCommand(proc'[p], proc[p])
      BY <1>0, <2>2, <2>4, CreateObjectMoves
    <3>2. Phased(p)'
      BY <1>0, <2>3, <3>1 DEF Phased, SameCommand
    <3>3. DiskTyped'
      BY <1>0, <2>3, <2>4, LooseTyped
    <3> QED
      BY <2>3, <3>1, <3>2, <3>3, TypedStep DEF SameCommand
  <2>5. CASE UNCHANGED loose /\ proc' = [proc EXCEPT ![p].todo = @ \ {o}]
    <3>1. /\ proc' \in [Procs -> Processes] /\ Others(p) /\ proc'[p].pc = proc[p].pc
          /\ SameCommand(proc'[p], proc[p]) /\ SameWriter(proc'[p], proc[p])
      BY <1>0, <2>5, SkipObjectMoves
    <3>2. Phased(p)'
      BY <1>0, <2>3, <3>1 DEF Phased, SameCommand, SameWriter
    <3> QED
      BY <2>3, <2>5, <3>1, <3>2, TypedRead DEF SameCommand
  <2> QED
    BY <2>1, <2>4, <2>5
<1>4. CASE FillObject(p)
  <2>1. PICK o \in proc[p].half :
          /\ FillLoose(o)
          /\ proc' = [proc EXCEPT ![p].pc = "recv", ![p].todo = @ \ {o}, ![p].half = {}]
    BY <1>4, Zenon DEF FillObject
  <2>2. UNCHANGED <<packVars, cache, tip, commits, done>> /\ proc[p].pc = "fillRecv"
    BY <1>4 DEF FillObject
  <2>3. /\ proc' \in [Procs -> Processes] /\ Others(p) /\ proc'[p].pc = "recv"
        /\ SameCommand(proc'[p], proc[p])
    BY <1>0, <2>1, FillObjectMoves
  <2>4. Phased(p)'
    BY <1>0, <2>2, <2>3 DEF Phased, SameCommand
  <2>5. DiskTyped'
    BY <1>0, <2>1, <2>2 DEF DiskTyped, FillLoose, packVars
  <2> QED
    BY <2>2, <2>3, <2>4, <2>5, TypedStep DEF SameCommand
<1>5. CASE SetRef(p)
  <2>1. CASE Exit(p)
    BY <1>5, <2>1, TypedExit DEF SetRef
  <2>2. CASE Goto(p, "ref")
    <3>1. "ref" \in PCs /\ proc[p].new # 0
      BY <1>0, <1>5 DEF PCs, SetRef, Phased
    <3>2. DiskTyped'
      BY <1>0, <1>5 DEF DiskTyped, SetRef, packVars
    <3> QED
      BY <1>5, <2>2, <3>1, <3>2, TypedGoto DEF SetRef
  <2> QED
    BY <1>5, <2>1, <2>2 DEF SetRef
<1> QED
  BY <1>1, <1>2, <1>3, <1>4, <1>5

\* Whoever opens the repository.
LEMMA OpenSteps ==
  ASSUME StoreTypeOK, NEW p \in Procs, Start(p)
  PROVE  \E c \in {"commit", "gc", "receive"}, l \in Leaves \cup {None} :
           /\ proc[p].pc = "idle" /\ (c = "commit" <=> l # None)
           /\ proc' \in [Procs -> Processes] /\ Others(p)
           /\ proc'[p].pc = c /\ proc'[p].view = LoadPacks /\ proc'[p].leaf = l
           /\ proc'[p].head = 0 /\ proc'[p].new = 0 /\ proc'[p].offset = 0
           /\ proc'[p].index = NoEntries
           /\ UNCHANGED <<loose, packVars, cache, tip, commits, done>>
<1>1. PICK c \in {"commit", "gc", "receive"}, l \in Leaves \cup {None} :
        Open(p, c, l) /\ (c = "commit" <=> l # None)
  BY StoreBoundAssumption, Zenon DEF Start
<1>2. c \in PCs
  BY DEF PCs
<1>3. /\ proc[p].pc = "idle" /\ UNCHANGED <<loose, packVars, cache, tip, commits, done>>
      /\ proc' = [proc EXCEPT ![p] = [Idle EXCEPT !.pc = c, !.view = LoadPacks, !.leaf = l]]
  BY <1>1, Zenon DEF Open
<1>4. /\ proc' \in [Procs -> Processes] /\ Others(p)
      /\ proc'[p].pc = c /\ proc'[p].view = LoadPacks /\ proc'[p].leaf = l
      /\ proc'[p].head = 0 /\ proc'[p].new = 0 /\ proc'[p].offset = 0
      /\ proc'[p].index = NoEntries
  BY <1>2, <1>3, OpenMoves
<1> QED
  BY <1>1, <1>3, <1>4, Zenon

LEMMA TypedNext ==
  ASSUME TypedInv, Next \/ UNCHANGED vars
  PROVE  TypedInv'
<1>1. CASE UNCHANGED vars
  BY <1>1 DEF vars, packVars, TypedInv, StoreTypeOK, Phased
<1>2. ASSUME NEW p \in Procs, Start(p) PROVE TypedInv'
  <2>1. StoreTypeOK
    BY DEF TypedInv
  <2>2. PICK c \in {"commit", "gc", "receive"}, l \in Leaves \cup {None} :
           /\ proc[p].pc = "idle" /\ (c = "commit" <=> l # None)
           /\ proc' \in [Procs -> Processes] /\ Others(p)
           /\ proc'[p].pc = c /\ proc'[p].view = LoadPacks /\ proc'[p].leaf = l
           /\ proc'[p].head = 0 /\ proc'[p].new = 0 /\ proc'[p].offset = 0
           /\ proc'[p].index = NoEntries
           /\ UNCHANGED <<loose, packVars, cache, tip, commits, done>>
    BY <1>2, <2>1, OpenSteps, Zenon
  <2>3. Phased(p)'
    BY <2>2 DEF Phased
  <2> QED
    BY <2>2, <2>3, TypedRead
<1>3. ASSUME NEW p \in Procs, Step(p) PROVE TypedInv'
  BY <1>3, TypedCommit, TypedGc, TypedReceive DEF Step
<1>4. ASSUME NEW p \in Procs, Kill(p) PROVE TypedInv'
  BY <1>4, TypedExit DEF Kill
<1> QED
  BY <1>1, <1>2, <1>3, <1>4 DEF Next

LEMMA TypedInit == Init => TypedInv
<1> SUFFICES ASSUME Init PROVE TypedInv
  OBVIOUS
<1>1. \A p \in Procs : proc[p] = Idle
  BY DEF Init
<1>2. proc \in [Procs -> Processes]
  BY IdleTyped DEF Init
<1>3. \A p \in Procs : Phased(p) /\ proc[p].head = 0 /\ proc[p].new = 0
  BY <1>1 DEF Phased, Idle
<1>4. DiskTyped
  BY DEF Init, DiskTyped, IsDirectory, Bytes
<1>5. CommitsTyped /\ Len(commits) = 0
  BY StoreBoundAssumption DEF Init, CommitsTyped
<1> QED
  BY <1>2, <1>3, <1>4, <1>5, TypedParts

\* The files, the ref and the processes keep their types, however many
\* processes run whatever they may at the same time and wherever they are
\* killed: above all, a pack is always installed under a name that is its
\* bytes, and the ref names a commit that was made.
THEOREM StoreTyped == Spec => []StoreTypeOK
<1>1. Init => TypedInv
  BY TypedInit
<1>2. TypedInv /\ [Next]_vars => TypedInv'
  BY TypedNext
<1>3. TypedInv => StoreTypeOK
  BY DEF TypedInv
<1> QED
  BY <1>1, <1>2, <1>3, PTL DEF Spec

-----------------------------------------------------------------------------
(* Packs, as long as one process at a time writes them.                     *)

\* The commands that write packs.
Busy(p) == Committing(p) \/ Collecting(p)

\* The writer has a file of its own, which nobody else has under a name, and
\* knows what is in it.
PackHolds(p) ==
  /\ proc[p].pc \in {"commit", "load", "put", "gc", "list", "pack", "copy"} =>
       proc[p].offset = 0 /\ proc[p].index = NoEntries
  /\ proc[p].pc \in {"load", "put", "copy", "hash", "rename"} => tmp = proc[p].file /\ tmp # 0
  /\ proc[p].pc \in {"load", "put", "copy"} => file[tmp] = <<>>
  /\ proc[p].pc = "hash" => Fits(proc[p].index, file[tmp])
  /\ proc[p].pc = "rename" => proc[p].name = file[tmp]
  /\ proc[p].pc \in {"rename", "idx", "fillIdx"} => Fits(proc[p].index, proc[p].name)
  /\ proc[p].pc \in {"idx", "fillIdx"} => proc[p].name \in DOMAIN packDir

Installed == \A n \in DOMAIN packDir : file[packDir[n]] = n /\ packDir[n] # tmp

PackInv == TypedInv /\ Careful /\ Installed /\ \A p \in Procs : PackHolds(p)

\* One busy process at a time.
LEMMA BusyLemma ==
  ASSUME TypedInv, Careful, NEW p \in Procs, Busy(p), NEW q \in Procs, q # p
  PROVE  /\ ~Busy(q)
         /\ proc[q].pc \notin {"commit", "load", "put", "gc", "list", "pack", "copy", "hash",
                               "rename", "idx", "fillIdx", "drop", "dropIdx", "loose"}
<1>1. Phased(p) /\ Phased(q)
  BY DEF TypedInv
<1>2. ~Busy(q)
  BY <1>1 DEF Careful, Busy, Committing, Collecting, Phased
<1> QED
  BY <1>1, <1>2 DEF Busy, Committing, Collecting, Phased

LEMMA BusySteps ==
  ASSUME TypedInv, NEW p \in Procs,
         proc[p].pc \in {"commit", "load", "put", "gc", "list", "pack", "copy", "hash",
                         "rename", "idx", "fillIdx", "drop", "dropIdx", "loose"}
  PROVE  Busy(p)
<1>1. Phased(p)
  BY DEF TypedInv
<1> QED
  BY <1>1 DEF Busy, Committing, Collecting, Phased

\* A step that writes no pack and installs none.
LEMMA PackStays ==
  ASSUME PackInv, TypedInv', Careful', NEW p \in Procs, Others(p), PackHolds(p)',
         UNCHANGED <<file, tmp>>,
         DOMAIN packDir' \subseteq DOMAIN packDir,
         \A n \in DOMAIN packDir' : packDir'[n] = packDir[n],
         packDir' = packDir \/ Collecting(p)
  PROVE  PackInv'
<1>1. Installed'
  BY DEF PackInv, Installed
<1>2. ASSUME NEW q \in Procs PROVE PackHolds(q)'
  <2>1. CASE q = p
    BY <2>1
  <2>2. CASE q # p
    <3>1. proc'[q] = proc[q] /\ PackHolds(q)
      BY <2>2 DEF Others, PackInv
    <3>2. CASE packDir' = packDir
      BY <3>1, <3>2 DEF PackHolds
    <3>3. CASE Collecting(p)
      <4>1. proc[q].pc = "idle"
        BY <2>2, <3>3 DEF PackInv, Careful
      <4> QED
        BY <3>1, <4>1 DEF PackHolds
    <3> QED
      BY <3>2, <3>3
  <2> QED
    BY <2>1, <2>2
<1> QED
  BY <1>1, <1>2 DEF PackInv

\* A step to a place where nothing is claimed of packs.
LEMMA PackLeft ==
  ASSUME PackInv, TypedInv', Careful', NEW p \in Procs, Others(p), UNCHANGED packVars,
         proc'[p].pc \notin {"commit", "load", "put", "gc", "list", "pack", "copy", "hash",
                             "rename", "idx", "fillIdx"}
  PROVE  PackInv'
<1>1. PackHolds(p)'
  BY DEF PackHolds
<1> QED
  BY <1>1, PackStays DEF packVars

LEMMA PackExits ==
  ASSUME PackInv, TypedInv', Careful', NEW p \in Procs, Exit(p), UNCHANGED packVars
  PROVE  PackInv'
<1>1. Others(p) /\ proc'[p] = Idle
  BY ExitMoves DEF PackInv, TypedInv
<1>2. proc'[p].pc = "idle"
  BY <1>1 DEF Idle
<1> QED
  BY <1>1, <1>2, PackLeft

\* A new pack file.
LEMMA PackStarts ==
  ASSUME PackInv, TypedInv', Careful', NEW p \in Procs, NEW l \in {"load", "copy"},
         proc[p].pc \in {"commit", "pack"}, NewWriter(p, l)
  PROVE  PackInv'
<1>1. TypedInv /\ StoreTypeOK /\ Careful /\ l \in PCs /\ PackHolds(p) /\ Installed
  BY DEF PackInv, TypedInv, PCs
<1>2. PICK f \in Files :
        /\ IF tmp # 0 THEN f = tmp ELSE FreeFiles # {} /\ f = Min(FreeFiles)
        /\ tmp' = f /\ file' = [file EXCEPT ![f] = <<>>] /\ UNCHANGED <<packDir, idxDir>>
  BY Zenon DEF NewWriter
<1>3. /\ Others(p) /\ proc'[p].pc = l /\ proc'[p].file = tmp'
      /\ proc'[p].offset = proc[p].offset /\ proc'[p].index = proc[p].index
  BY <1>1, NewWriterMoves
<1>4. \A n \in DOMAIN packDir : packDir[n] # f
  <2>1. CASE tmp # 0
    BY <1>1, <1>2, <2>1 DEF Installed
  <2>2. CASE tmp = 0
    <3>1. FreeFiles \subseteq Files
      BY DEF FreeFiles
    <3>2. f \in FreeFiles
      BY <1>2, <2>2, <3>1, MinLemma
    <3> QED
      BY <3>2 DEF FreeFiles, Range
  <2> QED
    BY <2>1, <2>2
<1>5. file \in [Files -> Bytes] /\ f # 0 /\ \A n \in DOMAIN packDir : packDir[n] \in Files
  BY <1>1, <1>2, StoreBoundAssumption DEF StoreTypeOK, IsDirectory, Files
<1>6. Installed'
  BY <1>1, <1>2, <1>4, <1>5 DEF Installed
<1>7. PackHolds(p)'
  BY <1>1, <1>2, <1>3, <1>5 DEF PackHolds
<1>8. ASSUME NEW q \in Procs, q # p PROVE PackHolds(q)'
  <2>1. proc'[q] = proc[q]
    BY <1>3, <1>8 DEF Others
  <2>2. proc[q].pc \notin {"commit", "load", "put", "gc", "list", "pack", "copy", "hash",
                           "rename", "idx", "fillIdx", "drop", "dropIdx", "loose"}
    BY <1>1, <1>8, BusyLemma, BusySteps
  <2> QED
    BY <2>1, <2>2 DEF PackHolds
<1> QED
  BY <1>6, <1>7, <1>8 DEF PackInv

\* The first objects of a pack.
LEMMA PackFills ==
  ASSUME PackInv, TypedInv', Careful', NEW p \in Procs, proc[p].pc \in {"put", "copy"},
         NEW s \in Bytes, file' = [file EXCEPT ![proc[p].file] = Overlay(@, proc[p].offset, s)],
         UNCHANGED <<tmp, packDir, idxDir>>, Others(p), proc'[p].pc \in {"hash", "drop"},
         proc'[p].index = PushedIndex(proc[p], s), proc'[p].file = proc[p].file
  PROVE  PackInv' /\ proc'[p].index = PlacesIn(s)
<1>1. TypedInv /\ StoreTypeOK /\ Careful /\ PackHolds(p) /\ Installed
  BY DEF PackInv, TypedInv
<1>2. /\ proc[p].offset = 0 /\ proc[p].index = NoEntries
      /\ tmp = proc[p].file /\ tmp # 0 /\ file[tmp] = <<>>
  BY <1>1 DEF PackHolds
<1>3. file \in [Files -> Bytes] /\ tmp \in Files
  BY <1>1, <1>2 DEF StoreTypeOK
<1>4. file'[tmp] = s /\ \A f \in Files \ {tmp} : file'[f] = file[f]
  <2>1. file' = [file EXCEPT ![tmp] = Overlay(<<>>, 0, s)]
    BY <1>2
  <2>2. file' = [file EXCEPT ![tmp] = s]
    BY <2>1, FirstWrite
  <2> QED
    BY <1>3, <2>2
<1>5. proc'[p].index = PlacesIn(s)
  <2>1. ASSUME NEW o \in Objects, o \in ToSet(s)
        PROVE  0 + (CHOOSE i \in DOMAIN s : s[i] = o) = CHOOSE i \in DOMAIN s : s[i] = o
    <3>1. DOMAIN s \subseteq Nat
      BY DEF Bytes
    <3>2. (CHOOSE i \in DOMAIN s : s[i] = o) \in DOMAIN s
      BY <2>1 DEF ToSet
    <3> QED
      BY <3>1, <3>2
  <2> QED
    BY <1>2, <2>1, ZenonT(60) DEF PushedIndex, PlacesIn, NoEntries
<1>6. Installed'
  <2>1. \A n \in DOMAIN packDir : packDir[n] \in Files /\ packDir[n] # tmp /\ file[packDir[n]] = n
    BY <1>1 DEF StoreTypeOK, IsDirectory, Installed
  <2> QED
    BY <1>4, <2>1 DEF Installed
<1>7. PackHolds(p)'
  <2>1. Fits(PlacesIn(s), s)
    BY PlacesLemma
  <2> QED
    BY <1>2, <1>4, <1>5, <2>1 DEF PackHolds
<1>8. ASSUME NEW q \in Procs, q # p PROVE PackHolds(q)'
  <2>1. proc'[q] = proc[q]
    BY <1>8 DEF Others
  <2>2. proc[q].pc \notin {"commit", "load", "put", "gc", "list", "pack", "copy", "hash",
                           "rename", "idx", "fillIdx", "drop", "dropIdx", "loose"}
    BY <1>1, <1>8, BusyLemma, BusySteps
  <2> QED
    BY <2>1, <2>2 DEF PackHolds
<1> QED
  BY <1>5, <1>6, <1>7, <1>8 DEF PackInv

\* A step of p alone that keeps the packs.
LEMMA PackCommit ==
  ASSUME PackInv, TypedInv', Careful', NEW p \in Procs,
         \/ Snapshot(p) \/ LoadCache(p) \/ Put(p) \/ Save(p)
         \/ FinishHash(p) \/ Rename(p) \/ CreateIdx(p) \/ FillIdx(p)
         \/ WriteManifest(p) \/ FillManifest(p) \/ ReadHead(p)
         \/ WriteCommit(p) \/ FillCommit(p) \/ TruncateRef(p) \/ WriteRef(p)
  PROVE  PackInv'
<1>0. TypedInv /\ StoreTypeOK /\ Phased(p) /\ Careful /\ PackHolds(p) /\ Installed
  BY DEF PackInv, TypedInv
<1>1. CASE Snapshot(p)
  BY <1>1, PackStarts DEF Snapshot
<1>2. CASE LoadCache(p)
  <2>1. Others(p) /\ proc'[p].pc = "put" /\ SameWriter(proc'[p], proc[p])
    BY <1>0, <1>2, LoadCacheMoves
  <2>2. PackHolds(p)'
    BY <1>0, <1>2, <2>1 DEF LoadCache, PackHolds, SameWriter, packVars
  <2> QED
    BY <1>2, <2>1, <2>2, PackStays DEF LoadCache, packVars
<1>3. CASE Put(p)
  <2>1. CASE Exists(proc[p].view, Leaf(proc[p].leaf))
    <3>1. Others(p) /\ proc'[p].pc = "save"
      BY <1>0, <1>3, <2>1, PutHitMoves
    <3>2. UNCHANGED packVars
      BY <1>3, <2>1 DEF Put, packVars
    <3> QED
      BY <3>1, <3>2, PackLeft
  <2>2. CASE ~Exists(proc[p].view, Leaf(proc[p].leaf))
    <3> DEFINE s == <<Leaf(proc[p].leaf)>>
    <3>1. /\ Others(p) /\ proc'[p].pc = "hash" /\ proc'[p].index = PushedIndex(proc[p], s)
          /\ proc'[p].file = proc[p].file
      BY <1>0, <1>3, <2>2, PutMissMoves
    <3>2. s \in Bytes
      BY <1>0, <1>3, FieldsTyped, LeafTyped DEF Put, Phased
    <3>3. /\ file' = [file EXCEPT ![proc[p].file] = Overlay(@, proc[p].offset, s)]
          /\ UNCHANGED <<tmp, packDir, idxDir>> /\ proc[p].pc = "put"
      BY <1>3, <2>2, Zenon DEF Put
    <3> HIDE DEF s
    <3> QED
      BY <3>1, <3>2, <3>3, PackFills
  <2> QED
    BY <2>1, <2>2
<1>4. CASE Save(p)
  <2>1. Others(p) /\ proc'[p].pc = "tree"
    BY <1>0, <1>4, SaveMoves
  <2> QED
    BY <1>4, <2>1, PackLeft DEF Save
<1>5. CASE FinishHash(p)
  <2>1. tmp # 0
    BY <1>0, <1>5 DEF FinishHash, PackHolds
  <2>2. /\ Others(p) /\ proc'[p].pc = "rename" /\ proc'[p].name = file[tmp]
        /\ proc'[p].file = proc[p].file /\ proc'[p].index = proc[p].index
    BY <1>0, <1>5, <2>1, FinishHashMoves
  <2>3. PackHolds(p)'
    BY <1>0, <1>5, <2>2 DEF FinishHash, PackHolds, packVars
  <2> QED
    BY <1>5, <2>2, <2>3, PackStays DEF FinishHash, packVars
<1>6. CASE Rename(p)
  <2>1. tmp # 0 /\ file[tmp] = proc[p].name /\ Fits(proc[p].index, proc[p].name)
    BY <1>0, <1>6 DEF Rename, PackHolds
  <2>2. /\ packDir' = Entered(packDir, proc[p].name, tmp) /\ tmp' = 0 /\ Goto(p, "idx")
        /\ UNCHANGED <<file, idxDir>>
    BY <1>6, <2>1 DEF Rename
  <2>3. Others(p) /\ proc'[p].pc = "idx" /\ SameWriter(proc'[p], proc[p])
    BY <1>0, <2>2, GotoMoves DEF PCs
  <2>4. proc[p].name \in Bytes /\ IsDirectory(packDir, Files) /\ tmp \in Files
    BY <1>0, <1>6, <2>1 DEF Rename, Phased, StoreTypeOK
  <2>5. /\ DOMAIN packDir' = DOMAIN packDir \cup {proc[p].name} /\ packDir'[proc[p].name] = tmp
        /\ \A n \in DOMAIN packDir \ {proc[p].name} : packDir'[n] = packDir[n]
    BY <2>2 DEF Entered
  <2>6. \A n \in DOMAIN packDir : packDir[n] # 0 /\ file[packDir[n]] = n
    BY <1>0, <2>4 DEF Installed, IsDirectory, Files
  <2>7. Installed'
    BY <2>1, <2>2, <2>5, <2>6 DEF Installed
  <2>8. PackHolds(p)'
    BY <2>1, <2>3, <2>5 DEF PackHolds, SameWriter
  <2>9. ASSUME NEW q \in Procs, q # p PROVE PackHolds(q)'
    <3>1. proc'[q] = proc[q]
      BY <2>3, <2>9 DEF Others
    <3>2. Busy(p)
      BY <1>0, <1>6, BusySteps DEF Rename
    <3>3. proc[q].pc \notin {"commit", "load", "put", "gc", "list", "pack", "copy", "hash",
                             "rename", "idx", "fillIdx", "drop", "dropIdx", "loose"}
      BY <1>0, <2>9, <3>2, BusyLemma
    <3> QED
      BY <3>1, <3>3 DEF PackHolds
  <2> QED
    BY <2>7, <2>8, <2>9 DEF PackInv
<1>7. CASE CreateIdx(p)
  <2>1. Others(p) /\ proc'[p].pc = "fillIdx" /\ SameWriter(proc'[p], proc[p])
    BY <1>0, <1>7, GotoMoves DEF CreateIdx, PCs
  <2>2. PackHolds(p)'
    BY <1>0, <1>7, <2>1 DEF CreateIdx, PackHolds, SameWriter
  <2> QED
    BY <1>7, <2>1, <2>2, PackStays DEF CreateIdx
<1>8. CASE FillIdx(p)
  <2>1. PICK l \in {"drop", "save"} : Goto(p, l)
    BY <1>8 DEF FillIdx
  <2>2. l \in PCs
    BY DEF PCs
  <2>3. Others(p) /\ proc'[p].pc \in {"drop", "save"}
    BY <1>0, <2>1, <2>2, GotoMoves
  <2>4. PackHolds(p)'
    BY <2>3 DEF PackHolds
  <2> QED
    BY <1>8, <2>3, <2>4, PackStays DEF FillIdx
<1>9. CASE WriteManifest(p)
  <2>1. PICK l \in {"fillTree", "head"} : Goto(p, l)
    BY <1>9 DEF WriteManifest, CreateLoose
  <2>2. l \in PCs
    BY DEF PCs
  <2>3. Others(p) /\ proc'[p].pc \in {"fillTree", "head"}
    BY <1>0, <2>1, <2>2, GotoMoves
  <2> QED
    BY <1>9, <2>3, PackLeft DEF WriteManifest
<1>10. CASE FillManifest(p)
  <2>1. Others(p) /\ proc'[p].pc = "head"
    BY <1>0, <1>10, GotoMoves DEF FillManifest, PCs
  <2> QED
    BY <1>10, <2>1, PackLeft DEF FillManifest
<1>11. CASE ReadHead(p)
  <2>1. CASE Exit(p)
    BY <1>11, <2>1, PackExits DEF ReadHead
  <2>2. CASE proc' = [proc EXCEPT ![p].pc = "write", ![p].head = tip]
    <3>1. Others(p) /\ proc'[p].pc = "write"
      BY <1>0, <2>2, ReadHeadMoves
    <3> QED
      BY <1>11, <3>1, PackLeft DEF ReadHead
  <2> QED
    BY <1>11, <2>1, <2>2, Zenon DEF ReadHead
<1>12. CASE WriteCommit(p)
  <2>1. Others(p) /\ proc'[p].pc = "fillCommit"
    BY <1>0, <1>12, WriteCommitMoves
  <2> QED
    BY <1>12, <2>1, PackLeft DEF WriteCommit
<1>13. CASE FillCommit(p)
  <2>1. Others(p) /\ proc'[p].pc = "ref"
    BY <1>0, <1>13, GotoMoves DEF FillCommit, PCs
  <2> QED
    BY <1>13, <2>1, PackLeft DEF FillCommit
<1>14. CASE TruncateRef(p)
  <2>1. Others(p) /\ proc'[p].pc = "setRef"
    BY <1>0, <1>14, GotoMoves DEF TruncateRef, PCs
  <2> QED
    BY <1>14, <2>1, PackLeft DEF TruncateRef
<1>15. CASE WriteRef(p)
  BY <1>15, PackExits DEF WriteRef
<1> QED
  BY <1>1, <1>2, <1>3, <1>4, <1>5, <1>6, <1>7, <1>8, <1>9, <1>10, <1>11, <1>12, <1>13, <1>14, <1>15

LEMMA PackGc ==
  ASSUME PackInv, TypedInv', Careful', NEW p \in Procs,
         \/ Walk(p) \/ ListPacks(p) \/ NewPack(p) \/ Copy(p)
         \/ DropPack(p) \/ DropIdx(p) \/ PacksDropped(p) \/ DropLoose(p) \/ GcDone(p)
  PROVE  PackInv'
<1>0. TypedInv /\ StoreTypeOK /\ Phased(p) /\ Careful /\ PackHolds(p) /\ Installed
  BY DEF PackInv, TypedInv
<1>1. CASE Walk(p)
  <2>1. Others(p) /\ proc'[p].pc = "list" /\ SameWriter(proc'[p], proc[p])
    BY <1>0, <1>1, WalkMoves
  <2>2. PackHolds(p)'
    BY <1>0, <1>1, <2>1 DEF Walk, PackHolds, SameWriter
  <2> QED
    BY <1>1, <2>1, <2>2, PackStays DEF Walk, packVars
<1>2. CASE ListPacks(p)
  <2>1. Others(p) /\ proc'[p].pc = "pack" /\ SameWriter(proc'[p], proc[p])
    BY <1>0, <1>2, ListPacksMoves
  <2>2. PackHolds(p)'
    BY <1>0, <1>2, <2>1 DEF ListPacks, PackHolds, SameWriter
  <2> QED
    BY <1>2, <2>1, <2>2, PackStays DEF ListPacks, packVars
<1>3. CASE NewPack(p)
  BY <1>3, PackStarts DEF NewPack
<1>4. CASE Copy(p)
  <2>1. PICK s \in Bytes, l \in {"drop", "hash"} :
          /\ file' = [file EXCEPT ![proc[p].file] = Overlay(@, proc[p].offset, s)]
          /\ proc' = [proc EXCEPT ![p] = [PushPacked(proc[p], s) EXCEPT !.pc = l]]
    BY <1>0, <1>4, CopySteps, Zenon
  <2>2. l \in PCs
    BY DEF PCs
  <2>3. /\ Others(p) /\ proc'[p].pc = l /\ proc'[p].index = PushedIndex(proc[p], s)
        /\ proc'[p].file = proc[p].file
    BY <1>0, <2>1, <2>2, CopyMoves, ZenonT(60)
  <2>4. proc[p].pc = "copy" /\ UNCHANGED <<tmp, packDir, idxDir>>
    BY <1>4 DEF Copy
  <2> QED
    BY <2>1, <2>3, <2>4, PackFills
<1>5. CASE DropPack(p)
  <2>1. PICK n \in proc[p].old \ {proc[p].name} :
          /\ packDir' = Restrict(packDir, DOMAIN packDir \ {n})
          /\ proc' = [proc EXCEPT ![p].pc = "dropIdx", ![p].old = @ \ {n}, ![p].gone = n]
    BY <1>5, Zenon DEF DropPack
  <2>2. n \in Bytes
    BY <1>0, FieldsTyped
  <2>3. Others(p) /\ proc'[p].pc = "dropIdx"
    BY <1>0, <2>1, <2>2, DropPackMoves
  <2>4. PackHolds(p)'
    BY <2>3 DEF PackHolds
  <2>5. DOMAIN packDir' \subseteq DOMAIN packDir /\ \A m \in DOMAIN packDir' : packDir'[m] = packDir[m]
    BY <2>1 DEF Restrict
  <2>6. UNCHANGED <<file, tmp>> /\ Collecting(p)
    BY <1>0, <1>5 DEF DropPack, Collecting, Phased
  <2> QED
    BY <2>3, <2>4, <2>5, <2>6, PackStays
<1>6. CASE DropIdx(p)
  <2>1. Others(p) /\ proc'[p].pc = "drop"
    BY <1>0, <1>6, DropIdxMoves
  <2>2. PackHolds(p)'
    BY <2>1 DEF PackHolds
  <2> QED
    BY <1>6, <2>1, <2>2, PackStays DEF DropIdx
<1>7. CASE PacksDropped(p)
  <2>1. Others(p) /\ proc'[p].pc = "loose"
    BY <1>0, <1>7, PacksDroppedMoves
  <2> QED
    BY <1>7, <2>1, PackLeft DEF PacksDropped
<1>8. CASE DropLoose(p)
  <2>1. Others(p) /\ proc'[p].pc = "loose" /\ UNCHANGED packVars
    BY <1>8 DEF DropLoose, Others
  <2> QED
    BY <2>1, PackLeft
<1>9. CASE GcDone(p)
  BY <1>9, PackExits DEF GcDone
<1> QED
  BY <1>1, <1>2, <1>3, <1>4, <1>5, <1>6, <1>7, <1>8, <1>9

LEMMA PackReceive ==
  ASSUME PackInv, TypedInv', Careful', NEW p \in Procs,
         \/ \E l \in Leaves, parent \in {0, tip} : Receive(p, l, parent)
         \/ Have(p) \/ PutObject(p) \/ FillObject(p) \/ SetRef(p)
  PROVE  PackInv'
<1>0. TypedInv /\ StoreTypeOK
  BY DEF PackInv, TypedInv
<1>1. CASE \E l \in Leaves, parent \in {0, tip} : Receive(p, l, parent)
  <2>1. PICK l \in Leaves, parent \in {0, tip} : Receive(p, l, parent)
    BY <1>1
  <2>2. Others(p) /\ proc'[p].pc = "have"
    BY <1>0, <2>1, ReceiveMoves
  <2> QED
    BY <2>1, <2>2, PackLeft DEF Receive
<1>2. CASE Have(p)
  <2>1. Others(p) /\ proc'[p].pc = "recv"
    BY <1>0, <1>2, HaveMoves
  <2> QED
    BY <1>2, <2>1, PackLeft DEF Have
<1>3. CASE PutObject(p)
  <2>1. PICK o \in proc[p].todo :
          \/ proc' = [proc EXCEPT ![p].pc = "fillRecv", ![p].half = {o}]
          \/ proc' = [proc EXCEPT ![p].todo = @ \ {o}]
    BY <1>3, Zenon DEF PutObject
  <2>2. o \in Objects
    BY <1>0, FieldsTyped
  <2>3. Others(p) /\ proc'[p].pc \in {"fillRecv", proc[p].pc}
    BY <1>0, <2>1, <2>2, CreateObjectMoves, SkipObjectMoves
  <2> QED
    BY <1>3, <2>3, PackLeft DEF PutObject
<1>4. CASE FillObject(p)
  <2>1. PICK o : proc' = [proc EXCEPT ![p].pc = "recv", ![p].todo = @ \ {o}, ![p].half = {}]
    BY <1>4, Zenon DEF FillObject
  <2>2. Others(p) /\ proc'[p].pc = "recv"
    BY <1>0, <2>1, FillObjectMoves
  <2> QED
    BY <1>4, <2>2, PackLeft DEF FillObject
<1>5. CASE SetRef(p)
  <2>1. CASE Exit(p)
    BY <1>5, <2>1, PackExits DEF SetRef
  <2>2. CASE Goto(p, "ref")
    <3>1. Others(p) /\ proc'[p].pc = "ref"
      BY <1>0, <2>2, GotoMoves DEF PCs
    <3> QED
      BY <1>5, <3>1, PackLeft DEF SetRef
  <2> QED
    BY <1>5, <2>1, <2>2 DEF SetRef
<1> QED
  BY <1>1, <1>2, <1>3, <1>4, <1>5

LEMMA PackNext ==
  ASSUME PackInv, (Next /\ Careful') \/ UNCHANGED vars
  PROVE  PackInv'
<1>1. CASE UNCHANGED vars
  BY <1>1 DEF vars, packVars, PackInv, TypedInv, StoreTypeOK, Phased, Careful, Committing,
              Collecting, Installed, PackHolds
<1>2. CASE Next /\ Careful'
  <2>0. TypedInv /\ TypedInv' /\ StoreTypeOK /\ Careful'
    BY <1>2, TypedNext DEF PackInv, TypedInv
  <2>1. ASSUME NEW p \in Procs, Start(p) PROVE PackInv'
    <3>1. PICK c \in {"commit", "gc", "receive"} :
            /\ Others(p) /\ proc'[p].pc = c
            /\ proc'[p].offset = 0 /\ proc'[p].index = NoEntries
            /\ UNCHANGED <<loose, packVars, cache, tip, commits, done>>
      BY <2>0, <2>1, OpenSteps, Zenon
    <3>2. PackHolds(p)'
      BY <3>1 DEF PackHolds
    <3> QED
      BY <2>0, <3>1, <3>2, PackStays DEF packVars
  <2>2. ASSUME NEW p \in Procs, Step(p) PROVE PackInv'
    BY <2>0, <2>2, PackCommit, PackGc, PackReceive DEF Step
  <2>3. ASSUME NEW p \in Procs, Kill(p) PROVE PackInv'
    BY <2>0, <2>3, PackExits DEF Kill
  <2> QED
    BY <1>2, <2>1, <2>2, <2>3 DEF Next
<1> QED
  BY <1>1, <1>2

LEMMA PackInit == Init => PackInv
<1> SUFFICES ASSUME Init PROVE PackInv
  OBVIOUS
<1>1. TypedInv
  BY TypedInit
<1>2. \A p \in Procs : proc[p].pc = "idle" /\ proc[p].leaf = None
  BY DEF Init, Idle
<1>3. Careful /\ \A p \in Procs : PackHolds(p)
  BY <1>2 DEF Careful, Committing, Collecting, PackHolds
<1>4. Installed
  BY DEF Init, Installed
<1> QED
  BY <1>1, <1>3, <1>4 DEF PackInv

\* An installed pack keeps the bytes it is named by, for any number of
\* processes and packs and wherever a process is killed, as long as no two
\* processes write packs at once: pack.rs gives every writer the same tmp path,
\* and nothing else of it depends on the writer being alone.
THEOREM PacksIntactTheorem == CarefulSpec => []PacksIntact
<1>1. Init => PackInv
  BY PackInit
<1>2. PackInv /\ [Next /\ Careful']_vars => PackInv'
  BY PackNext
<1>3. PackInv => PacksIntact
  BY DEF PackInv, Installed, PacksIntact
<1> QED
  BY <1>1, <1>2, <1>3, PTL DEF CarefulSpec

-----------------------------------------------------------------------------
(* What is stored, as long as commits take turns and gc runs alone.         *)

\* An object in a pack that has an index, and one that is there at all.
Packed(n, o) == n \in DOMAIN packDir \cap DOMAIN idxDir /\ o \in ToSet(n)
Held(o) == loose[o] # "absent" \/ \E n \in DOMAIN packDir : Packed(n, o)

Whole(n) == \A m \in History[n] : \A o \in ObjectsOf(m) : Held(o)
Keeps(S) == \A m \in History[tip] : ObjectsOf(m) \subseteq S

\* What a commit has stored so far.
CommitHolds(p) ==
  /\ proc[p].pc \in {"commit", "load", "put"} =>
       \A o \in Objects : Hits(proc[p].view, o) # {} => Held(o)
  /\ proc[p].pc \in {"hash", "rename", "idx", "fillIdx"} /\ proc[p].leaf # None =>
       proc[p].index[Leaf(proc[p].leaf)] # 0
  /\ proc[p].pc \in {"save", "tree", "fillTree", "head", "write"} => Held(Leaf(proc[p].leaf))
  /\ proc[p].pc \in {"fillTree", "head", "write"} => Held(Tree(proc[p].leaf))
  /\ proc[p].pc = "write" => Whole(proc[p].head)
  /\ proc[p].pc \in {"fillCommit", "ref", "setRef"} => Whole(proc[p].new)
  /\ proc[p].pc = "fillIdx" => proc[p].name \in DOMAIN idxDir

\* What a push has stored so far.
ReceiveHolds(p) ==
  /\ proc[p].pc \in {"recv", "fillRecv"} =>
       \A m \in History[proc[p].new] : \A o \in ObjectsOf(m) : Held(o) \/ o \in proc[p].todo
  /\ proc[p].pc = "fillRecv" =>
       \A o \in proc[p].half : proc[p].half = {o} /\ loose[o] # "absent"

\* What gc keeps: first it has all of the branch in its list, then in the new
\* pack, and from then on that pack stays.
GcHolds(p) ==
  /\ proc[p].pc \in {"gc", "list", "pack", "copy"} => proc[p].view = LoadPacks
  /\ proc[p].pc \in {"list", "pack", "copy"} => Keeps(proc[p].todo)
  /\ proc[p].pc \in {"hash", "rename", "idx", "fillIdx"} /\ proc[p].leaf = None =>
       Keeps({o \in Objects : proc[p].index[o] # 0})
  /\ proc[p].pc \in {"drop", "dropIdx", "loose"} =>
       \A m \in History[tip] : \A o \in ObjectsOf(m) : Packed(proc[p].name, o)
  /\ proc[p].pc = "dropIdx" => proc[p].gone # proc[p].name

Sound(p) == CommitHolds(p) /\ ReceiveHolds(p) /\ GcHolds(p)

\* An index is right, or somebody is about to write it; a loose file is whole,
\* or somebody is about to fill it.
Fills(p, o) ==
  \/ proc[p].pc = "fillTree" /\ o = Tree(proc[p].leaf)
  \/ proc[p].pc = "fillCommit" /\ o = Commit(proc[p].new)
  \/ proc[p].pc = "fillRecv" /\ o \in proc[p].half

Indexed ==
  \A n \in DOMAIN idxDir :
    IF idxDir[n] = None THEN \E p \in Procs : proc[p].pc = "fillIdx" /\ proc[p].name = n
    ELSE Fits(idxDir[n], n)

Filled == \A o \in Objects : loose[o] = "torn" => \E p \in Procs : Fills(p, o)

SoundInv == PackInv /\ Indexed /\ Filled /\ Whole(tip) /\ \A p \in Procs : Sound(p)

\* What is there can be read by whoever opens the repository, when nobody is
\* in the middle of a write.
LEMMA ReadsLemma ==
  ASSUME SoundInv, Quiet, NEW o \in Objects
  PROVE  /\ Held(o) => Exists(LoadPacks, o)
         /\ Exists(LoadPacks, o) => Reads(LoadPacks, o)
<1>0. StoreTypeOK /\ Installed /\ Indexed /\ Filled
  BY DEF SoundInv, PackInv, TypedInv
<1>1. \A n \in DOMAIN idxDir : idxDir[n] # None /\ Fits(idxDir[n], n)
  BY <1>0 DEF Indexed, Quiet, MidWrite
<1>2. loose[o] # "torn"
  BY <1>0 DEF Filled, Fills, Quiet, MidWrite
<1>3. \A n \in DOMAIN packDir \cap DOMAIN idxDir :
        [file |-> packDir[n], index |-> idxDir[n]] \in LoadPacks
  BY <1>1 DEF LoadPacks
<1>4. ASSUME NEW n \in DOMAIN packDir, Packed(n, o) PROVE Hits(LoadPacks, o) # {}
  <2> DEFINE k == [file |-> packDir[n], index |-> idxDir[n]]
  <2>1. k \in LoadPacks /\ idxDir[n][o] # 0
    BY <1>1, <1>3, <1>4 DEF Packed, Fits
  <2>2. k.index[o] # 0
    BY <2>1
  <2> QED
    BY <2>1, <2>2 DEF Hits
<1>5. Held(o) => Exists(LoadPacks, o)
  BY <1>4 DEF Held, Exists
<1>6. ASSUME NEW k \in Hits(LoadPacks, o) PROVE Intact(k, o)
  <2>1. PICK n \in DOMAIN packDir \cap DOMAIN idxDir : k = [file |-> packDir[n], index |-> idxDir[n]]
    BY DEF Hits, LoadPacks
  <2>2. k.index = idxDir[n] /\ k.file = packDir[n] /\ k.index[o] # 0
    BY <2>1 DEF Hits
  <2>3. idxDir[n][o] \in DOMAIN n /\ n[idxDir[n][o]] = o
    BY <1>1, <2>1, <2>2 DEF Fits
  <2>4. file[k.file] = n /\ n \in Bytes
    BY <1>0, <2>1, <2>2 DEF Installed, StoreTypeOK, IsDirectory
  <2>5. Len(n) \in Nat /\ DOMAIN n = 1 .. Len(n)
    BY <2>4 DEF Bytes
  <2> QED
    BY <2>2, <2>3, <2>4, <2>5 DEF Intact
<1>7. Exists(LoadPacks, o) => Reads(LoadPacks, o)
  <2>1. loose[o] \in {"absent", "torn", "whole"}
    BY <1>0 DEF StoreTypeOK
  <2> QED
    BY <1>2, <1>6, <2>1 DEF Exists, Reads
<1> QED
  BY <1>5, <1>7

\* The walk from the branch meets all of its history where that can be read.
LEMMA WalkedLemma ==
  ASSUME StoreTypeOK, NEW v, \A n \in History[tip] : Reads(v, Commit(n))
  PROVE  Walked(v) = History[tip]
<1> DEFINE on == {n \in DOMAIN commits : Reads(v, Commit(n))}
<1>1. PICK w, h : /\ w = Walked(v) /\ h = History[tip]
                  /\ tip = 0 => w = {} /\ h = {}
                  /\ tip # 0 => Follows(on, tip, w) /\ Follows(DOMAIN commits, tip, h)
  <2>1. tip = 0 \/ tip \in DOMAIN commits
    BY DEF StoreTypeOK
  <2> QED
    BY <2>1, LineageLemma, HistoryLemma DEF Walked, HistoryOK
<1>2. CASE tip = 0
  BY <1>1, <1>2
<1>3. CASE tip # 0
  <2>1. h \subseteq on
    BY <1>1, <1>3 DEF Follows
  <2>2. ClosedIn(on, h)
    BY <1>1, <1>3 DEF Follows, ClosedIn
  <2>3. w \subseteq h
    BY <1>1, <1>3, <2>2 DEF Follows
  <2>4. ClosedIn(DOMAIN commits, w)
    BY <1>1, <1>3, <2>1, <2>3 DEF Follows, ClosedIn
  <2>5. h \subseteq w
    BY <1>1, <1>3, <2>4 DEF Follows
  <2> QED
    BY <1>1, <2>3, <2>5
<1> QED
  BY <1>2, <1>3

\* All of the branch can be read when nobody is in the middle of a write.
LEMMA BranchReads ==
  ASSUME SoundInv, Quiet, NEW m \in History[tip], NEW o \in ObjectsOf(m)
  PROVE  o \in Objects /\ Exists(LoadPacks, o) /\ Reads(LoadPacks, o)
<1>1. StoreTypeOK /\ Whole(tip)
  BY DEF SoundInv, PackInv, TypedInv
<1>2. m \in DOMAIN commits
  BY <1>1, HistoryTyped DEF StoreTypeOK
<1>3. o \in Objects /\ Held(o)
  BY <1>1, <1>2, ObjectsTyped DEF Whole
<1> QED
  BY <1>3, ReadsLemma

LEMMA SoundIsClean ==
  ASSUME SoundInv, Quiet
  PROVE  is_clean(LoadPacks)
<1>1. StoreTypeOK
  BY DEF SoundInv, PackInv, TypedInv
<1>2. Corrupt(LoadPacks) = {}
  BY ReadsLemma DEF Corrupt
<1> DEFINE v == LoadPacks
<1>3. \A m \in History[tip] : /\ Reads(v, Commit(m)) /\ Reads(v, TreeOf(m))
                              /\ Reads(v, LeafOf(m)) /\ Exists(v, LeafOf(m))
  BY BranchReads DEF ObjectsOf
<1> HIDE DEF v
<1>4. Walked(v) = History[tip]
  BY <1>1, <1>3, WalkedLemma
<1>5. Missing(v) = {}
  BY <1>3, <1>4 DEF Missing
<1> QED
  BY <1>2, <1>5 DEF is_clean, v

\* The list gc makes of what it keeps.
LEMMA ReachableKeeps ==
  ASSUME SoundInv, Quiet
  PROVE  Keeps(Reachable(LoadPacks))
<1>1. StoreTypeOK
  BY DEF SoundInv, PackInv, TypedInv
<1> DEFINE v == LoadPacks
<1>2. \A m \in History[tip] : /\ Reads(v, Commit(m)) /\ Exists(v, Commit(m))
                              /\ Reads(v, TreeOf(m)) /\ Reads(v, LeafOf(m))
  BY BranchReads DEF ObjectsOf
<1> HIDE DEF v
<1>3. Walked(v) = History[tip]
  BY <1>1, <1>2, WalkedLemma
<1>4. ASSUME NEW m \in History[tip] PROVE ObjectsOf(m) \subseteq Reachable(v)
  BY <1>2, <1>3, <1>4 DEF ObjectsOf, Reachable
<1> QED
  BY <1>4 DEF Keeps, v

\* What a step leaves as it is when it writes nothing that is read.
LEMMA SoundSame ==
  ASSUME UNCHANGED <<loose, packDir, idxDir, tip, commits>>
  PROVE  /\ History' = History /\ LoadPacks' = LoadPacks
         /\ \A m : ObjectsOf(m)' = ObjectsOf(m)
         /\ \A o : Held(o)' <=> Held(o)
         /\ \A n, o : Packed(n, o)' <=> Packed(n, o)
         /\ \A n : Whole(n)' <=> Whole(n)
         /\ \A S : Keeps(S)' <=> Keeps(S)
<1>1. History' = History /\ \A m : ObjectsOf(m)' = ObjectsOf(m)
  BY DEF History, Lineage, ObjectsOf, TreeOf, LeafOf
<1>2. /\ LoadPacks' = LoadPacks /\ \A o : Held(o)' <=> Held(o)
      /\ \A n, o : Packed(n, o)' <=> Packed(n, o)
  BY DEF LoadPacks, Held, Packed
<1> QED
  BY <1>1, <1>2 DEF Whole, Keeps

\* What a step that only adds to the store leaves to the others.
Gains ==
  /\ \A o \in Objects : Held(o) => Held(o)'
  /\ \A o \in Objects : loose[o] # "absent" => loose'[o] # "absent"
  /\ DOMAIN idxDir \subseteq DOMAIN idxDir'
  /\ \A m \in 0 .. Len(commits) : History'[m] = History[m]
  /\ \A m \in DOMAIN commits : ObjectsOf(m)' = ObjectsOf(m)

\* A history that was all there still is.
LEMMA GainsWhole ==
  ASSUME StoreTypeOK, Gains, NEW n \in 0 .. Len(commits), Whole(n)
  PROVE  Whole(n)'
<1>1. History'[n] = History[n] /\ History[n] \subseteq DOMAIN commits
  BY HistoryTyped DEF Gains
<1>2. \A m \in History[n] : ObjectsOf(m)' = ObjectsOf(m) /\ ObjectsOf(m) \subseteq Objects
  BY <1>1, ObjectsTyped DEF Gains
<1> QED
  BY <1>1, <1>2 DEF Gains, Whole

\* Such a step takes nothing from the others, as none of them is gc.
LEMMA SoundStep ==
  ASSUME SoundInv, PackInv', NEW p \in Procs, Others(p), Gains,
         proc[p].pc # "idle" \/ proc'[p].pc # "idle",
         Indexed', Filled', Whole(tip)', Sound(p)'
  PROVE  SoundInv'
<1>0. StoreTypeOK /\ Careful /\ Careful' /\ \A q \in Procs : Phased(q) /\ Sound(q)
  BY DEF SoundInv, PackInv, TypedInv
<1>1. ASSUME NEW q \in Procs PROVE Sound(q)'
  <2>1. CASE q = p
    BY <2>1
  <2>2. CASE q # p
    <3>1. proc'[q] = proc[q] /\ Phased(q) /\ Sound(q)
      BY <1>0, <2>2 DEF Others
    <3>2. ~Collecting(q)
      BY <1>0, <2>2, <3>1 DEF Careful, Collecting
    <3>3. GcHolds(q)'
      BY <3>1, <3>2 DEF GcHolds, Collecting, Phased
    <3>4. /\ proc[q].new \in 0 .. Len(commits) /\ proc[q].head \in 0 .. Len(commits)
          /\ proc[q].half \subseteq Objects /\ proc[q].leaf \in Leaves \cup {None}
      BY <1>0, FieldsTyped
    <3>5. proc[q].leaf # None => Leaf(proc[q].leaf) \in Objects /\ Tree(proc[q].leaf) \in Objects
      BY <3>4, LeafTyped
    <3>6. CommitHolds(q)'
      BY <1>0, <3>1, <3>4, <3>5, GainsWhole DEF Sound, CommitHolds, Phased, Gains
    <3>7. ReceiveHolds(q)'
      <4>1. /\ History'[proc[q].new] = History[proc[q].new]
            /\ History[proc[q].new] \subseteq DOMAIN commits
        BY <1>0, <3>4, HistoryTyped DEF Gains
      <4>2. \A m \in History[proc[q].new] : ObjectsOf(m)' = ObjectsOf(m) /\ ObjectsOf(m) \subseteq Objects
        BY <1>0, <4>1, ObjectsTyped DEF Gains
      <4> QED
        BY <3>1, <3>4, <4>1, <4>2 DEF Sound, ReceiveHolds, Gains
    <3> QED
      BY <3>3, <3>6, <3>7 DEF Sound
  <2> QED
    BY <2>1, <2>2
<1> QED
  BY <1>1 DEF SoundInv

\* Files that are to be filled, after a step of p.
LEMMA FilledStep ==
  ASSUME SoundInv, NEW p \in Procs, Others(p),
         \A o \in Objects : loose'[o] = "torn" =>
           Fills(p, o)' \/ (loose[o] = "torn" /\ ~Fills(p, o))
  PROVE  Filled'
<1> SUFFICES ASSUME NEW o \in Objects, loose'[o] = "torn" PROVE \E q \in Procs : Fills(q, o)'
  BY DEF Filled
<1>1. CASE loose[o] = "torn" /\ ~Fills(p, o)
  <2>1. PICK q \in Procs : Fills(q, o)
    BY <1>1 DEF SoundInv, Filled
  <2>2. proc'[q] = proc[q]
    BY <1>1, <2>1 DEF Others
  <2> QED
    BY <2>1, <2>2 DEF Fills
<1> QED
  BY <1>1

LEMMA IndexedStep ==
  ASSUME SoundInv, NEW p \in Procs, Others(p),
         \A n \in DOMAIN idxDir' :
           \/ idxDir'[n] = None /\ proc'[p].pc = "fillIdx" /\ proc'[p].name = n
           \/ idxDir'[n] # None /\ Fits(idxDir'[n], n)
           \/ /\ n \in DOMAIN idxDir /\ idxDir'[n] = idxDir[n]
              /\ ~(proc[p].pc = "fillIdx" /\ proc[p].name = n)
  PROVE  Indexed'
<1> SUFFICES ASSUME NEW n \in DOMAIN idxDir'
             PROVE  IF idxDir'[n] = None
                    THEN \E q \in Procs : proc'[q].pc = "fillIdx" /\ proc'[q].name = n
                    ELSE Fits(idxDir'[n], n)
  BY DEF Indexed, Fits
<1>1. CASE /\ n \in DOMAIN idxDir /\ idxDir'[n] = idxDir[n]
           /\ ~(proc[p].pc = "fillIdx" /\ proc[p].name = n)
  <2>1. CASE idxDir[n] = None
    <3>1. PICK q \in Procs : proc[q].pc = "fillIdx" /\ proc[q].name = n
      BY <1>1, <2>1 DEF SoundInv, Indexed
    <3>2. proc'[q] = proc[q]
      BY <1>1, <3>1 DEF Others
    <3> QED
      BY <1>1, <2>1, <3>1, <3>2
  <2>2. CASE idxDir[n] # None
    BY <1>1, <2>2 DEF SoundInv, Indexed
  <2> QED
    BY <2>1, <2>2
<1> QED
  BY <1>1

\* A step that writes nothing that is read, of a process that has nothing to
\* fill.
LEMMA SoundRead ==
  ASSUME SoundInv, PackInv', NEW p \in Procs, Others(p),
         UNCHANGED <<loose, packDir, idxDir, tip, commits>>,
         proc[p].pc # "idle" \/ proc'[p].pc # "idle",
         proc[p].pc \notin {"fillIdx", "fillTree", "fillCommit", "fillRecv"}, Sound(p)'
  PROVE  SoundInv'
<1>1. Gains
  BY SoundSame DEF Gains
<1>2. Filled'
  BY FilledStep DEF Fills
<1>3. Indexed'
  BY IndexedStep
<1>4. Whole(tip)'
  BY SoundSame DEF SoundInv
<1> QED
  BY <1>1, <1>2, <1>3, <1>4, SoundStep

\* p stops where nothing is half written.
LEMMA SoundExits ==
  ASSUME SoundInv, PackInv', NEW p \in Procs, Exit(p),
         UNCHANGED <<loose, packDir, idxDir, tip, commits>>,
         proc[p].pc \notin {"idle", "fillIdx", "fillTree", "fillCommit", "fillRecv"}
  PROVE  SoundInv'
<1>1. Others(p) /\ proc'[p] = Idle
  BY ExitMoves DEF SoundInv, PackInv, TypedInv
<1>2. Sound(p)'
  BY <1>1 DEF Idle, Sound, CommitHolds, ReceiveHolds, GcHolds
<1> QED
  BY <1>1, <1>2, SoundRead

\* A step that installs what it adds, and touches no branch or commit.
LEMMA SoundAdds ==
  ASSUME SoundInv, PackInv', NEW p \in Procs, Others(p), UNCHANGED <<tip, commits>>,
         proc[p].pc # "idle", Indexed', Filled', Sound(p)',
         \A o \in Objects : loose[o] # "absent" => loose'[o] # "absent",
         DOMAIN packDir \subseteq DOMAIN packDir', DOMAIN idxDir \subseteq DOMAIN idxDir'
  PROVE  SoundInv'
<1>1. History' = History /\ \A m : ObjectsOf(m)' = ObjectsOf(m)
  BY DEF History, Lineage, ObjectsOf, TreeOf, LeafOf
<1>2. \A o \in Objects : Held(o) => Held(o)'
  BY DEF Held, Packed
<1>3. Gains
  BY <1>1, <1>2 DEF Gains
<1>4. Whole(tip)'
  <2>1. StoreTypeOK /\ tip \in 0 .. Len(commits) /\ Whole(tip)
    BY DEF SoundInv, PackInv, TypedInv, StoreTypeOK
  <2> QED
    BY <1>3, <2>1, GainsWhole
<1> QED
  BY <1>3, <1>4, SoundStep

\* The packs of a commit or of gc.
LEMMA SoundPacks ==
  ASSUME SoundInv, PackInv', NEW p \in Procs,
         Snapshot(p) \/ NewPack(p) \/ FinishHash(p) \/ Rename(p) \/ CreateIdx(p) \/ FillIdx(p)
  PROVE  SoundInv'
<1>0. StoreTypeOK /\ Phased(p) /\ PackHolds(p) /\ Sound(p) /\ CommitHolds(p) /\ GcHolds(p)
  BY DEF SoundInv, PackInv, TypedInv, Sound
<1>1. CASE Snapshot(p) \/ NewPack(p)
  <2>1. PICK l \in {"load", "copy"} :
          /\ NewWriter(p, l) /\ proc[p].pc = (IF l = "load" THEN "commit" ELSE "pack")
          /\ UNCHANGED <<loose, tip, commits>>
    BY <1>1 DEF Snapshot, NewPack
  <2>2. UNCHANGED <<packDir, idxDir>> /\ l \in PCs
    BY <2>1, Zenon DEF NewWriter, PCs
  <2>3. /\ Others(p) /\ proc'[p].pc = l /\ SameCommand(proc'[p], proc[p])
        /\ SameLists(proc'[p], proc[p])
    BY <1>0, <2>1, <2>2, NewWriterMoves
  <2>4. Sound(p)'
    BY <1>0, <2>1, <2>2, <2>3, SoundSame
       DEF Sound, CommitHolds, ReceiveHolds, GcHolds, SameCommand, SameLists
  <2> QED
    BY <2>1, <2>2, <2>3, <2>4, SoundRead
<1>2. CASE FinishHash(p)
  <2>1. tmp # 0
    BY <1>0, <1>2 DEF FinishHash, PackHolds
  <2>2. /\ Others(p) /\ proc'[p].pc = "rename" /\ SameCommand(proc'[p], proc[p])
        /\ proc'[p].index = proc[p].index
    BY <1>0, <1>2, <2>1, FinishHashMoves
  <2>3. UNCHANGED <<loose, packDir, idxDir, tip, commits>> /\ proc[p].pc = "hash"
    BY <1>2 DEF FinishHash, packVars
  <2>4. Sound(p)'
    BY <1>0, <2>2, <2>3, SoundSame DEF Sound, CommitHolds, ReceiveHolds, GcHolds, SameCommand
  <2> QED
    BY <2>2, <2>3, <2>4, SoundRead
<1>3. CASE Rename(p)
  <2>1. tmp # 0
    BY <1>0, <1>3 DEF Rename, PackHolds
  <2>2. /\ proc[p].pc = "rename" /\ Goto(p, "idx") /\ DOMAIN packDir \subseteq DOMAIN packDir'
        /\ UNCHANGED <<loose, idxDir, tip, commits>>
    BY <1>3, <2>1 DEF Rename, Entered
  <2>3. /\ Others(p) /\ proc'[p].pc = "idx" /\ SameCommand(proc'[p], proc[p])
        /\ SameWriter(proc'[p], proc[p])
    BY <1>0, <2>2, GotoMoves DEF PCs
  <2>4. History' = History /\ \A m : ObjectsOf(m)' = ObjectsOf(m)
    BY <2>2 DEF History, Lineage, ObjectsOf, TreeOf, LeafOf
  <2>5. Sound(p)'
    BY <1>0, <2>2, <2>3, <2>4
       DEF Sound, CommitHolds, ReceiveHolds, GcHolds, Keeps, SameCommand, SameWriter
  <2>6. Filled'
    BY <2>2, <2>3, FilledStep DEF Fills
  <2>7. Indexed'
    BY <2>2, <2>3, IndexedStep
  <2> QED
    BY <2>2, <2>3, <2>5, <2>6, <2>7, SoundAdds
<1>4. CASE CreateIdx(p)
  <2>1. /\ proc[p].pc = "idx" /\ Goto(p, "fillIdx")
        /\ DOMAIN idxDir' = DOMAIN idxDir \cup {proc[p].name}
        /\ idxDir'[proc[p].name] = None
        /\ \A n \in DOMAIN idxDir \ {proc[p].name} : idxDir'[n] = idxDir[n]
        /\ UNCHANGED <<loose, packDir, tip, commits>>
    BY <1>4 DEF CreateIdx, Entered
  <2>2. /\ Others(p) /\ proc'[p].pc = "fillIdx" /\ SameCommand(proc'[p], proc[p])
        /\ SameWriter(proc'[p], proc[p])
    BY <1>0, <2>1, GotoMoves DEF PCs
  <2>3. History' = History /\ \A m : ObjectsOf(m)' = ObjectsOf(m)
    BY <2>1 DEF History, Lineage, ObjectsOf, TreeOf, LeafOf
  <2>4. Sound(p)'
    BY <1>0, <2>1, <2>2, <2>3
       DEF Sound, CommitHolds, ReceiveHolds, GcHolds, Keeps, SameCommand, SameWriter
  <2>5. Filled'
    BY <2>1, <2>2, FilledStep DEF Fills
  <2>6. Indexed'
    BY <2>1, <2>2, IndexedStep DEF SameWriter
  <2> QED
    BY <2>1, <2>2, <2>4, <2>5, <2>6, SoundAdds
<1>5. CASE FillIdx(p)
  <2>0. PICK nm, l : nm = proc[p].name /\ l = IF proc[p].leaf = None THEN "drop" ELSE "save"
    OBVIOUS
  <2>1. /\ proc[p].pc = "fillIdx" /\ Goto(p, l) /\ UNCHANGED <<loose, packDir, tip, commits>>
        /\ nm \in DOMAIN packDir /\ nm \in DOMAIN idxDir /\ Fits(proc[p].index, nm)
        /\ proc[p].index \in Indexes
    BY <1>0, <1>5, <2>0, FieldsTyped DEF FillIdx, PackHolds, CommitHolds
  <2>2. /\ DOMAIN idxDir' = DOMAIN idxDir /\ idxDir'[nm] = proc[p].index
        /\ \A n \in DOMAIN idxDir \ {nm} : idxDir'[n] = idxDir[n]
    BY <1>5, <2>0, <2>1 DEF FillIdx
  <2>3. /\ Others(p) /\ proc'[p].pc = l /\ SameCommand(proc'[p], proc[p])
        /\ SameWriter(proc'[p], proc[p])
    BY <1>0, <2>0, <2>1, GotoMoves DEF PCs
  <2>4. History' = History /\ \A m : ObjectsOf(m)' = ObjectsOf(m)
    BY <2>1 DEF History, Lineage, ObjectsOf, TreeOf, LeafOf
  <2>5. \A o \in Objects : proc[p].index[o] # 0 => o \in ToSet(nm)
    BY <2>1 DEF Fits, ToSet
  <2>6. \A o \in Objects : proc[p].index[o] # 0 => Packed(nm, o)'
    BY <2>1, <2>2, <2>5 DEF Packed
  <2>7. Sound(p)'
    <3>1. CASE proc[p].leaf # None
      <4>1. PICK o \in Objects : o = Leaf(proc[p].leaf) /\ proc[p].index[o] # 0
        BY <1>0, <2>1, <3>1, FieldsTyped, LeafTyped DEF CommitHolds
      <4>2. o = Leaf(proc'[p].leaf) /\ Held(o)'
        BY <2>1, <2>3, <2>6, <4>1 DEF Held, SameCommand
      <4> QED
        BY <2>0, <2>3, <3>1, <4>2 DEF Sound, CommitHolds, ReceiveHolds, GcHolds
    <3>2. CASE proc[p].leaf = None
      <4>1. Keeps({o \in Objects : proc[p].index[o] # 0})
        BY <1>0, <2>1, <3>2 DEF GcHolds
      <4>2. \A m \in History'[tip'] : \A o \in ObjectsOf(m)' : Packed(nm, o)'
        BY <2>1, <2>4, <2>6, <4>1 DEF Keeps
      <4>3. proc'[p].name = nm /\ proc'[p].pc = "drop"
        BY <2>0, <2>3, <3>2 DEF SameWriter
      <4> QED
        BY <4>2, <4>3 DEF Sound, CommitHolds, ReceiveHolds, GcHolds
    <3> QED
      BY <3>1, <3>2
  <2>8. Filled'
    BY <2>1, <2>3, FilledStep DEF Fills
  <2>9. Indexed'
    BY <2>0, <2>1, <2>2, <2>3, NoIndexAssumption, IndexedStep
  <2> QED
    BY <2>1, <2>2, <2>3, <2>7, <2>8, <2>9, SoundAdds
<1> QED
  BY <1>1, <1>2, <1>3, <1>4, <1>5

\* A step of p that changes one loose file.
LEMMA SoundLoose ==
  ASSUME SoundInv, PackInv', NEW p \in Procs, Others(p),
         UNCHANGED <<packDir, idxDir, tip, commits>>,
         proc[p].pc \notin {"idle", "fillIdx"}, Sound(p)', NEW o \in Objects,
         \A x \in Objects \ {o} : loose'[x] = loose[x] /\ ~Fills(p, x),
         loose[o] # "absent" => loose'[o] # "absent",
         loose'[o] = "torn" => Fills(p, o)' \/ (loose[o] = "torn" /\ ~Fills(p, o))
  PROVE  SoundInv'
<1>1. Filled'
  BY FilledStep
<1>2. Indexed'
  BY IndexedStep
<1> QED
  BY <1>1, <1>2, SoundAdds

LEMMA HeldStays ==
  ASSUME UNCHANGED <<packDir, idxDir>>,
         \A x \in Objects : loose[x] # "absent" => loose'[x] # "absent"
  PROVE  \A x \in Objects : Held(x) => Held(x)'
BY DEF Held, Packed

\* The manifest of a commit.
LEMMA SoundManifest ==
  ASSUME SoundInv, PackInv', NEW p \in Procs, WriteManifest(p) \/ FillManifest(p)
  PROVE  SoundInv'
<1>0. StoreTypeOK /\ Phased(p) /\ Sound(p) /\ CommitHolds(p)
  BY DEF SoundInv, PackInv, TypedInv, Sound
<1>1. PICK t \in Objects, l \in Objects : t = Tree(proc[p].leaf) /\ l = Leaf(proc[p].leaf)
  BY <1>0, FieldsTyped, LeafTyped DEF Phased, WriteManifest, FillManifest
<1>2. /\ loose \in [Objects -> {"absent", "torn", "whole"}]
      /\ UNCHANGED <<packDir, idxDir, tip, commits>>
  BY <1>0 DEF StoreTypeOK, WriteManifest, FillManifest, packVars
<1>3. CASE WriteManifest(p)
  <2>1. PICK c \in {"fillTree", "head"} :
          /\ proc[p].pc = "tree" /\ Goto(p, c)
          /\ c = IF loose[t] = "absent" THEN "fillTree" ELSE "head"
          /\ loose'[t] = IF loose[t] = "absent" THEN "torn" ELSE loose[t]
          /\ \A x \in Objects \ {t} : loose'[x] = loose[x]
    BY <1>1, <1>2, <1>3 DEF WriteManifest, CreateLoose
  <2>2. c \in PCs
    BY DEF PCs
  <2>3. Others(p) /\ proc'[p].pc = c /\ SameCommand(proc'[p], proc[p])
    BY <1>0, <2>1, <2>2, GotoMoves
  <2>4. Held(t)' /\ Held(l)'
    <3>1. Held(l)
      BY <1>0, <1>1, <2>1 DEF CommitHolds
    <3>2. loose'[t] # "absent"
      BY <1>1, <1>2, <2>1
    <3> QED
      BY <1>1, <1>2, <2>1, <3>1, <3>2, HeldStays DEF Held
  <2>5. Sound(p)'
    BY <1>1, <2>3, <2>4 DEF Sound, CommitHolds, ReceiveHolds, GcHolds, SameCommand
  <2>6. loose'[t] = "torn" => Fills(p, t)' \/ (loose[t] = "torn" /\ ~Fills(p, t))
    BY <1>1, <2>1, <2>3 DEF Fills, SameCommand
  <2>7. \A x \in Objects \ {t} : loose'[x] = loose[x] /\ ~Fills(p, x)
    BY <2>1 DEF Fills
  <2> QED
    BY <1>2, <2>1, <2>3, <2>5, <2>6, <2>7, SoundLoose
<1>4. CASE FillManifest(p)
  <2>1. /\ proc[p].pc = "fillTree" /\ Goto(p, "head")
        /\ loose'[t] = IF loose[t] = "torn" THEN "whole" ELSE loose[t]
        /\ \A x \in Objects \ {t} : loose'[x] = loose[x]
    BY <1>1, <1>2, <1>4 DEF FillManifest, FillLoose
  <2>2. Others(p) /\ proc'[p].pc = "head" /\ SameCommand(proc'[p], proc[p])
    BY <1>0, <2>1, GotoMoves DEF PCs
  <2>3. Held(t)' /\ Held(l)'
    <3>1. Held(l) /\ Held(t)
      BY <1>0, <1>1, <2>1 DEF CommitHolds
    <3> QED
      BY <1>1, <1>2, <2>1, <3>1, HeldStays
  <2>4. Sound(p)'
    BY <1>1, <2>2, <2>3 DEF Sound, CommitHolds, ReceiveHolds, GcHolds, SameCommand
  <2>5. \A x \in Objects \ {t} : loose'[x] = loose[x] /\ ~Fills(p, x)
    BY <1>1, <2>1 DEF Fills
  <2>6. loose'[t] # "torn" /\ (loose[t] # "absent" => loose'[t] # "absent")
    BY <2>1
  <2> QED
    BY <1>2, <2>1, <2>2, <2>4, <2>5, <2>6, SoundLoose
<1> QED
  BY <1>3, <1>4

\* A new commit object.
LEMMA SoundWriteCommit ==
  ASSUME SoundInv, PackInv', NEW p \in Procs, WriteCommit(p)
  PROVE  SoundInv'
<1>0. StoreTypeOK /\ StoreTypeOK' /\ Phased(p) /\ Sound(p) /\ CommitHolds(p) /\ Whole(tip)
  BY DEF SoundInv, PackInv, TypedInv, Sound
<1>1. PICK n, r : n = Len(commits) + 1 /\ r = [parent |-> proc[p].head, leaf |-> proc[p].leaf]
  OBVIOUS
<1>2. /\ proc[p].pc = "write" /\ commits' = Append(commits, r)
      /\ loose' = [loose EXCEPT ![Commit(n)] = "torn"]
      /\ UNCHANGED <<packDir, idxDir, tip>>
  BY <1>1 DEF WriteCommit, packVars
<1>3. /\ Others(p) /\ proc'[p].pc = "fillCommit" /\ proc'[p].new = n
  BY <1>0, <1>1, WriteCommitMoves
<1>4. /\ \A m \in 0 .. Len(commits) : History'[m] = History[m]
      /\ History'[n] = {n} \cup History[r.parent]
      /\ n \in DOMAIN commits' /\ commits'[n] = r
      /\ \A m \in DOMAIN commits : m \in DOMAIN commits' /\ commits'[m] = commits[m]
  BY <1>0, <1>1, <1>2, AppendLemma
<1>5. /\ proc[p].head \in 0 .. Len(commits) /\ Whole(proc[p].head)
      /\ Held(Leaf(proc[p].leaf)) /\ Held(Tree(proc[p].leaf))
      /\ Leaf(proc[p].leaf) \in Objects /\ Tree(proc[p].leaf) \in Objects
  BY <1>0, <1>2, FieldsTyped, LeafTyped DEF CommitHolds, Phased
<1>6. Commit(n) \in Objects /\ loose \in [Objects -> {"absent", "torn", "whole"}]
  <2>1. Len(commits') <= MaxCommits /\ n \in 1 .. Len(commits') /\ Len(commits') \in Nat
    BY <1>0, <1>4 DEF StoreTypeOK
  <2> QED
    BY <1>0, <2>1, StoreBoundAssumption DEF StoreTypeOK, Objects
<1>7. loose'[Commit(n)] = "torn" /\ \A x \in Objects \ {Commit(n)} : loose'[x] = loose[x]
  BY <1>2, <1>6
<1>8. \A x \in Objects : Held(x) => Held(x)'
  BY <1>2, <1>7, HeldStays
<1>9. \A m \in DOMAIN commits : ObjectsOf(m)' = ObjectsOf(m)
  BY <1>4 DEF ObjectsOf, TreeOf, LeafOf
<1>10. Gains
  BY <1>2, <1>4, <1>7, <1>8, <1>9 DEF Gains
<1>11. Whole(n)'
  <2>2. ObjectsOf(n)' = {Commit(n), Tree(proc[p].leaf), Leaf(proc[p].leaf)}
    BY <1>1, <1>4 DEF ObjectsOf, TreeOf, LeafOf
  <2>3. Held(Commit(n))'
    BY <1>7 DEF Held
  <2>4. \A o \in ObjectsOf(n)' : Held(o)'
    BY <1>5, <1>8, <2>2, <2>3
  <2>5. History'[n] = {n} \cup History'[proc[p].head]
    BY <1>1, <1>4, <1>5
  <2>6. PICK h : h = proc[p].head
    OBVIOUS
  <2>7. Whole(h)'
    <3>1. Whole(h)
      BY <1>5, <2>6
    <3> QED
      BY <1>0, <1>5, <1>10, <2>6, <3>1, GainsWhole
  <2> QED
    BY <2>4, <2>5, <2>6, <2>7 DEF Whole
<1>12. Sound(p)'
  BY <1>3, <1>11 DEF Sound, CommitHolds, ReceiveHolds, GcHolds
<1>13. Filled'
  <2>1. Fills(p, Commit(n))'
    BY <1>3 DEF Fills
  <2>2. \A x \in Objects \ {Commit(n)} : loose'[x] = loose[x] /\ ~Fills(p, x)
    BY <1>2, <1>7 DEF Fills
  <2> QED
    BY <1>3, <2>1, <2>2, FilledStep
<1>14. Indexed'
  BY <1>2, <1>3, IndexedStep
<1>15. Whole(tip)'
  <2>1. tip \in 0 .. Len(commits)
    BY <1>0 DEF StoreTypeOK
  <2> QED
    BY <1>0, <1>2, <1>10, <2>1, GainsWhole
<1> QED
  BY <1>2, <1>3, <1>10, <1>12, <1>13, <1>14, <1>15, SoundStep

LEMMA SoundCommit ==
  ASSUME SoundInv, PackInv', NEW p \in Procs,
         \/ LoadCache(p) \/ Put(p) \/ Save(p) \/ ReadHead(p) \/ FillCommit(p)
         \/ TruncateRef(p) \/ WriteRef(p)
  PROVE  SoundInv'
<1>0. /\ StoreTypeOK /\ StoreTypeOK' /\ Phased(p) /\ PackHolds(p)
      /\ Sound(p) /\ CommitHolds(p) /\ Whole(tip)
  BY DEF SoundInv, PackInv, TypedInv, Sound
<1>1. CASE LoadCache(p)
  <2>1. Others(p) /\ proc'[p].pc = "put" /\ SameCommand(proc'[p], proc[p])
    BY <1>0, <1>1, LoadCacheMoves
  <2>2. UNCHANGED <<loose, packDir, idxDir, tip, commits>> /\ proc[p].pc = "load"
    BY <1>1 DEF LoadCache, packVars
  <2>3. Sound(p)'
    BY <1>0, <2>1, <2>2, SoundSame DEF Sound, CommitHolds, ReceiveHolds, GcHolds, SameCommand
  <2> QED
    BY <2>1, <2>2, <2>3, SoundRead
<1>2. CASE Put(p)
  <2>0. UNCHANGED <<loose, packDir, idxDir, tip, commits>> /\ proc[p].pc = "put"
    BY <1>2 DEF Put
  <2>1. PICK o \in Objects : o = Leaf(proc[p].leaf)
    BY <1>0, <2>0, FieldsTyped, LeafTyped DEF Phased
  <2>2. CASE Exists(proc[p].view, o)
    <3>1. Others(p) /\ proc'[p].pc = "save" /\ SameCommand(proc'[p], proc[p])
      BY <1>0, <1>2, <2>1, <2>2, PutHitMoves
    <3>2. Held(o)'
      <4>1. Held(o)
        BY <1>0, <2>0, <2>2 DEF CommitHolds, Exists, Held
      <4> QED
        BY <2>0, <4>1, SoundSame
    <3>3. Sound(p)'
      BY <2>1, <3>1, <3>2 DEF Sound, CommitHolds, ReceiveHolds, GcHolds, SameCommand
    <3> QED
      BY <2>0, <3>1, <3>3, SoundRead
  <2>3. CASE ~Exists(proc[p].view, o)
    <3>1. /\ Others(p) /\ proc'[p].pc = "hash" /\ proc'[p].index = PushedIndex(proc[p], <<o>>)
          /\ SameCommand(proc'[p], proc[p])
      BY <1>0, <1>2, <2>1, <2>3, PutMissMoves
    <3>2. proc'[p].index[o] # 0
      <4>1. proc[p].offset \in Nat /\ DOMAIN <<o>> = {1} /\ <<o>>[1] = o
        BY <1>0, FieldsTyped
      <4>2. (CHOOSE i \in DOMAIN <<o>> : <<o>>[i] = o) = 1 /\ o \in ToSet(<<o>>)
        BY <4>1 DEF ToSet
      <4>3. proc'[p].index[o] = proc[p].offset + 1
        BY <3>1, <4>2 DEF PushedIndex
      <4> QED
        BY <4>1, <4>3
    <3>3. proc'[p].leaf # None
      BY <1>0, <2>0, <3>1 DEF Phased, SameCommand
    <3>4. Sound(p)'
      BY <2>1, <3>1, <3>2, <3>3 DEF Sound, CommitHolds, ReceiveHolds, GcHolds, SameCommand
    <3> QED
      BY <2>0, <3>1, <3>4, SoundRead
  <2> QED
    BY <2>2, <2>3
<1>3. CASE Save(p)
  <2>1. Others(p) /\ proc'[p].pc = "tree" /\ proc'[p].leaf = proc[p].leaf
    BY <1>0, <1>3, SaveMoves
  <2>2. UNCHANGED <<loose, packDir, idxDir, tip, commits>> /\ proc[p].pc = "save"
    BY <1>3 DEF Save, packVars
  <2>3. Sound(p)'
    BY <1>0, <2>1, <2>2, SoundSame DEF Sound, CommitHolds, ReceiveHolds, GcHolds
  <2> QED
    BY <2>1, <2>2, <2>3, SoundRead
<1>4. CASE ReadHead(p)
  <2>0. UNCHANGED <<loose, packDir, idxDir, tip, commits>> /\ proc[p].pc = "head"
    BY <1>4 DEF ReadHead, packVars
  <2>1. CASE Exit(p)
    BY <2>0, <2>1, SoundExits
  <2>2. CASE proc' = [proc EXCEPT ![p].pc = "write", ![p].head = tip]
    <3>1. /\ Others(p) /\ proc'[p].pc = "write" /\ proc'[p].head = tip
          /\ proc'[p].leaf = proc[p].leaf
      BY <1>0, <2>2, ReadHeadMoves
    <3>2. Sound(p)'
      BY <1>0, <2>0, <3>1, SoundSame DEF Sound, CommitHolds, ReceiveHolds, GcHolds
    <3> QED
      BY <2>0, <3>1, <3>2, SoundRead
  <2> QED
    BY <1>4, <2>1, <2>2, Zenon DEF ReadHead
<1>5. CASE FillCommit(p)
  <2>1. /\ proc[p].pc = "fillCommit" /\ Goto(p, "ref") /\ UNCHANGED <<packDir, idxDir, tip, commits>>
        /\ loose' = [loose EXCEPT ![Commit(proc[p].new)] = IF @ = "torn" THEN "whole" ELSE @]
    BY <1>5 DEF FillCommit, FillLoose, packVars
  <2>2. PICK c \in Objects, n \in DOMAIN commits : c = Commit(n) /\ n = proc[p].new
    <3>1. proc[p].new \in DOMAIN commits
      BY <1>0, <2>1, FieldsTyped DEF Phased, StoreTypeOK
    <3> QED
      BY <1>0, <3>1, ObjectsTyped
  <2>3. /\ loose'[c] = IF loose[c] = "torn" THEN "whole" ELSE loose[c]
        /\ \A x \in Objects \ {c} : loose'[x] = loose[x] /\ ~Fills(p, x)
    BY <1>0, <2>1, <2>2 DEF StoreTypeOK, Fills
  <2>4. Others(p) /\ proc'[p].pc = "ref" /\ SameCommand(proc'[p], proc[p])
    BY <1>0, <2>1, GotoMoves DEF PCs
  <2>5. Whole(n)'
    <3>1. Whole(n)
      BY <1>0, <2>1, <2>2 DEF CommitHolds
    <3>2. \A x \in Objects : Held(x) => Held(x)'
      BY <2>1, <2>3, HeldStays
    <3>3. History' = History /\ \A m : ObjectsOf(m)' = ObjectsOf(m)
      BY <2>1 DEF History, Lineage, ObjectsOf, TreeOf, LeafOf
    <3>4. Gains
      BY <2>1, <2>3, <3>2, <3>3 DEF Gains
    <3>5. n \in 0 .. Len(commits)
      BY <1>0 DEF StoreTypeOK
    <3> QED
      BY <1>0, <3>1, <3>4, <3>5, GainsWhole
  <2>6. Sound(p)'
    BY <2>2, <2>4, <2>5 DEF Sound, CommitHolds, ReceiveHolds, GcHolds, SameCommand
  <2>7. loose'[c] # "torn" /\ (loose[c] # "absent" => loose'[c] # "absent")
    BY <2>3
  <2> QED
    BY <2>1, <2>3, <2>4, <2>6, <2>7, SoundLoose
<1>6. CASE TruncateRef(p) \/ WriteRef(p)
  <2>0. UNCHANGED <<loose, packDir, idxDir, commits>> /\ proc[p].pc \in {"ref", "setRef"}
    BY <1>6 DEF TruncateRef, WriteRef, packVars
  <2>1. /\ History' = History /\ \A m : ObjectsOf(m)' = ObjectsOf(m)
        /\ \A o : Held(o)' <=> Held(o)
    BY <2>0 DEF History, Lineage, ObjectsOf, TreeOf, LeafOf, Held, Packed
  <2>2. Gains /\ \A n : Whole(n) <=> Whole(n)'
    BY <2>0, <2>1 DEF Gains, Whole
  <2>3. Others(p) /\ Sound(p)' /\ Whole(tip)'
    <3>1. CASE TruncateRef(p)
      <4>1. Goto(p, "setRef") /\ tip' = 0 /\ proc[p].pc = "ref"
        BY <3>1 DEF TruncateRef
      <4>2. Others(p) /\ proc'[p].pc = "setRef" /\ SameCommand(proc'[p], proc[p])
        BY <1>0, <4>1, GotoMoves DEF PCs
      <4>3. Sound(p)'
        BY <1>0, <2>2, <4>1, <4>2 DEF Sound, CommitHolds, ReceiveHolds, GcHolds, SameCommand
      <4>4. Whole(0)'
        BY <1>0, HistoryNext DEF HistoryOK, Whole
      <4> QED
        BY <4>1, <4>2, <4>3, <4>4
    <3>2. CASE WriteRef(p)
      <4>1. Exit(p) /\ tip' = proc[p].new /\ proc[p].pc = "setRef"
        BY <3>2 DEF WriteRef
      <4>2. Others(p) /\ proc'[p] = Idle
        BY <1>0, <4>1, ExitMoves
      <4>3. Sound(p)'
        BY <4>2 DEF Idle, Sound, CommitHolds, ReceiveHolds, GcHolds
      <4>4. PICK n : n = proc[p].new /\ Whole(n)'
        BY <1>0, <2>2, <4>1 DEF CommitHolds
      <4> QED
        BY <4>1, <4>2, <4>3, <4>4
    <3> QED
      BY <1>6, <3>1, <3>2
  <2>4. Filled'
    BY <2>0, <2>3, FilledStep DEF Fills
  <2>5. Indexed'
    BY <2>0, <2>3, IndexedStep
  <2> QED
    BY <2>0, <2>2, <2>3, <2>4, <2>5, SoundStep
<1> QED
  BY <1>1, <1>2, <1>3, <1>4, <1>5, <1>6

\* Whoever opens the repository finds nothing that is not there.
LEMMA LoadedIsHeld ==
  ASSUME Indexed, NEW o \in Objects, Exists(LoadPacks, o)
  PROVE  Held(o)
<1>1. ASSUME NEW k \in Hits(LoadPacks, o) PROVE Held(o)
  <2>1. PICK n \in DOMAIN packDir \cap DOMAIN idxDir :
          idxDir[n] # None /\ k = [file |-> packDir[n], index |-> idxDir[n]]
    BY DEF Hits, LoadPacks
  <2>2. idxDir[n][o] # 0
    BY <2>1 DEF Hits
  <2>3. o \in ToSet(n)
    BY <2>1, <2>2 DEF Indexed, Fits, ToSet
  <2> QED
    BY <2>1, <2>3 DEF Held, Packed
<1> QED
  BY <1>1 DEF Exists, Held

\* A push.
LEMMA SoundReceive ==
  ASSUME SoundInv, PackInv', NEW p \in Procs,
         \/ \E l \in Leaves, parent \in {0, tip} : Receive(p, l, parent)
         \/ Have(p) \/ PutObject(p) \/ FillObject(p) \/ SetRef(p)
  PROVE  SoundInv'
<1>0. /\ StoreTypeOK /\ StoreTypeOK' /\ Phased(p) /\ Sound(p) /\ ReceiveHolds(p)
      /\ Whole(tip) /\ Indexed
  BY DEF SoundInv, PackInv, TypedInv, Sound
<1>1. CASE \E l \in Leaves, parent \in {0, tip} : Receive(p, l, parent)
  <2>1. PICK l \in Leaves, parent \in {0, tip} : Receive(p, l, parent)
    BY <1>1
  <2>2. PICK r : r = [parent |-> parent, leaf |-> l]
    OBVIOUS
  <2>3. /\ proc[p].pc = "receive" /\ commits' = Append(commits, r)
        /\ UNCHANGED <<loose, packDir, idxDir, tip>>
    BY <2>1, <2>2 DEF Receive, packVars
  <2>4. Others(p) /\ proc'[p].pc = "have"
    BY <1>0, <2>1, ReceiveMoves
  <2>5. /\ \A m \in 0 .. Len(commits) : History'[m] = History[m]
        /\ \A m \in DOMAIN commits : commits'[m] = commits[m]
    BY <1>0, <2>3, AppendLemma
  <2>6. \A m \in DOMAIN commits : ObjectsOf(m)' = ObjectsOf(m)
    BY <2>5 DEF ObjectsOf, TreeOf, LeafOf
  <2>7. Gains
    BY <2>3, <2>5, <2>6, HeldStays DEF Gains
  <2>8. Whole(tip)'
    <3>1. tip \in 0 .. Len(commits)
      BY <1>0 DEF StoreTypeOK
    <3> QED
      BY <1>0, <2>3, <2>7, <3>1, GainsWhole
  <2>9. Sound(p)'
    BY <2>4 DEF Sound, CommitHolds, ReceiveHolds, GcHolds
  <2>10. Filled'
    BY <2>3, <2>4, FilledStep DEF Fills
  <2>11. Indexed'
    BY <2>3, <2>4, IndexedStep
  <2> QED
    BY <2>3, <2>4, <2>7, <2>8, <2>9, <2>10, <2>11, SoundStep
<1>2. CASE Have(p)
  <2>1. /\ Others(p) /\ proc'[p].pc = "recv" /\ proc'[p].todo = Lacked(proc[p].new)
        /\ SameCommand(proc'[p], proc[p])
    BY <1>0, <1>2, HaveMoves
  <2>2. UNCHANGED <<loose, packDir, idxDir, tip, commits>> /\ proc[p].pc = "have"
    BY <1>2 DEF Have, packVars
  <2>3. \A o \in Objects : Exists(LoadPacks, o) => Held(o)
    BY <1>0, LoadedIsHeld
  <2>4. proc[p].new \in 0 .. Len(commits)
    BY <1>0, FieldsTyped
  <2>5. \A m \in History[proc[p].new] : ObjectsOf(m) \subseteq Objects
    BY <1>0, <2>4, HistoryTyped, ObjectsTyped
  <2>6. \A m \in History[proc[p].new] : \A o \in ObjectsOf(m) : Held(o) \/ o \in proc'[p].todo
    BY <2>1, <2>3, <2>5 DEF Lacked
  <2>7. Sound(p)'
    BY <2>1, <2>2, <2>6, SoundSame DEF Sound, CommitHolds, ReceiveHolds, GcHolds, SameCommand
  <2> QED
    BY <2>1, <2>2, <2>7, SoundRead
<1>3. CASE PutObject(p)
  <2>1. PICK o \in proc[p].todo :
          IF loose[o] = "absent"
          THEN /\ loose' = [loose EXCEPT ![o] = "torn"]
               /\ proc' = [proc EXCEPT ![p].pc = "fillRecv", ![p].half = {o}]
          ELSE /\ UNCHANGED loose
               /\ proc' = [proc EXCEPT ![p].todo = @ \ {o}]
    BY <1>3, Zenon DEF PutObject
  <2>2. /\ proc[p].pc = "recv" /\ UNCHANGED <<packDir, idxDir, tip, commits>>
        /\ o \in Objects /\ loose \in [Objects -> {"absent", "torn", "whole"}]
    BY <1>0, <1>3, FieldsTyped DEF PutObject, packVars, StoreTypeOK
  <2>3. History' = History /\ \A m : ObjectsOf(m)' = ObjectsOf(m)
    BY <2>2 DEF History, Lineage, ObjectsOf, TreeOf, LeafOf
  <2>4. \A x \in History[proc[p].new] : ObjectsOf(x) \subseteq Objects
    BY <1>0, FieldsTyped, HistoryTyped, ObjectsTyped
  <2>5. CASE loose[o] = "absent"
    <3>1. loose'[o] = "torn" /\ \A x \in Objects \ {o} : loose'[x] = loose[x] /\ ~Fills(p, x)
      BY <2>1, <2>2, <2>5 DEF Fills
    <3>2. proc' = [proc EXCEPT ![p].pc = "fillRecv", ![p].half = {o}]
      BY <2>1, <2>5
    <3>3. /\ Others(p) /\ proc'[p].pc = "fillRecv" /\ proc'[p].half = {o}
          /\ SameCommand(proc'[p], proc[p]) /\ proc'[p].todo = proc[p].todo
      BY <1>0, <2>2, <3>2, CreateObjectMoves
    <3>4. \A x \in Objects : Held(x) => Held(x)'
      BY <2>2, <2>5, <3>1, HeldStays
    <3>5. Sound(p)'
      BY <1>0, <2>2, <2>3, <2>4, <3>1, <3>3, <3>4
         DEF Sound, CommitHolds, ReceiveHolds, GcHolds, SameCommand
    <3>6. Fills(p, o)'
      BY <3>3 DEF Fills
    <3> QED
      BY <2>2, <2>5, <3>1, <3>3, <3>5, <3>6, SoundLoose
  <2>6. CASE loose[o] # "absent"
    <3>1. UNCHANGED loose /\ proc' = [proc EXCEPT ![p].todo = @ \ {o}]
      BY <2>1, <2>6
    <3>2. /\ Others(p) /\ proc'[p].pc = "recv" /\ proc'[p].todo = proc[p].todo \ {o}
          /\ SameCommand(proc'[p], proc[p])
      BY <1>0, <2>2, <3>1, SkipObjectMoves
    <3>3. Held(o)
      BY <2>6 DEF Held
    <3>4. Sound(p)'
      BY <1>0, <2>2, <3>1, <3>2, <3>3, SoundSame
         DEF Sound, CommitHolds, ReceiveHolds, GcHolds, SameCommand
    <3> QED
      BY <2>2, <3>1, <3>2, <3>4, SoundRead
  <2> QED
    BY <2>5, <2>6
<1>4. CASE FillObject(p)
  <2>1. PICK o \in proc[p].half :
          /\ loose' = [loose EXCEPT ![o] = IF @ = "torn" THEN "whole" ELSE @]
          /\ proc' = [proc EXCEPT ![p].pc = "recv", ![p].todo = @ \ {o}, ![p].half = {}]
    <3>1. PICK o \in proc[p].half :
            /\ FillLoose(o)
            /\ proc' = [proc EXCEPT ![p].pc = "recv", ![p].todo = @ \ {o}, ![p].half = {}]
      BY <1>4, Zenon DEF FillObject
    <3>2. loose' = [loose EXCEPT ![o] = IF @ = "torn" THEN "whole" ELSE @]
      BY <3>1 DEF FillLoose
    <3> QED
      BY <3>1, <3>2, Zenon
  <2>2. /\ proc[p].pc = "fillRecv" /\ UNCHANGED <<packDir, idxDir, tip, commits>>
        /\ proc[p].half = {o} /\ o \in Objects /\ loose[o] # "absent"
        /\ loose \in [Objects -> {"absent", "torn", "whole"}]
    <3>1. proc[p].pc = "fillRecv" /\ UNCHANGED <<packVars, tip, commits>>
      BY <1>4, Zenon DEF FillObject
    <3> QED
      BY <1>0, <3>1, FieldsTyped DEF packVars, StoreTypeOK, ReceiveHolds
  <2>3. loose'[o] = "whole" /\ \A x \in Objects \ {o} : loose'[x] = loose[x] /\ ~Fills(p, x)
    BY <2>1, <2>2 DEF Fills
  <2>4. /\ Others(p) /\ proc'[p].pc = "recv" /\ proc'[p].todo = proc[p].todo \ {o}
        /\ SameCommand(proc'[p], proc[p])
    <3>1. proc' = [proc EXCEPT ![p].pc = "recv", ![p].todo = @ \ {o}, ![p].half = {}]
      BY <2>1, Zenon
    <3> QED
      BY <1>0, <3>1, FillObjectMoves, Zenon
  <2>5. Held(o)' /\ \A x \in Objects : Held(x) => Held(x)'
    BY <2>2, <2>3, HeldStays DEF Held
  <2>6. History' = History /\ \A m : ObjectsOf(m)' = ObjectsOf(m)
    BY <2>2 DEF History, Lineage, ObjectsOf, TreeOf, LeafOf
  <2>7. \A m \in History[proc[p].new] : ObjectsOf(m) \subseteq Objects
    BY <1>0, FieldsTyped, HistoryTyped, ObjectsTyped
  <2>8. Sound(p)'
    BY <1>0, <2>2, <2>4, <2>5, <2>6, <2>7
       DEF Sound, CommitHolds, ReceiveHolds, GcHolds, SameCommand
  <2> QED
    BY <2>2, <2>3, <2>4, <2>8, SoundLoose
<1>5. CASE SetRef(p)
  <2>0. /\ UNCHANGED <<loose, packDir, idxDir, tip, commits>> /\ proc[p].pc = "recv"
        /\ proc[p].todo = {} /\ (Exit(p) \/ Goto(p, "ref"))
    BY <1>5 DEF SetRef, packVars
  <2>1. CASE Exit(p)
    BY <2>0, <2>1, SoundExits
  <2>2. CASE Goto(p, "ref")
    <3>1. Others(p) /\ proc'[p].pc = "ref" /\ SameCommand(proc'[p], proc[p])
      BY <1>0, <2>2, GotoMoves DEF PCs
    <3>2. Whole(proc[p].new)
      BY <1>0, <2>0 DEF ReceiveHolds, Whole
    <3>3. Sound(p)'
      BY <2>0, <3>1, <3>2, SoundSame DEF Sound, CommitHolds, ReceiveHolds, GcHolds, SameCommand
    <3> QED
      BY <2>0, <3>1, <3>3, SoundRead
  <2> QED
    BY <2>0, <2>1, <2>2
<1> QED
  BY <1>1, <1>2, <1>3, <1>4, <1>5

\* gc removes what is not in its new pack, or is there as well.
LEMMA SoundDrops ==
  ASSUME SoundInv, PackInv', NEW p \in Procs, Others(p), UNCHANGED <<tip, commits>>,
         \A q \in Procs \ {p} : proc[q].pc = "idle",
         proc[p].pc \in {"drop", "dropIdx", "loose"}, proc'[p].pc \in {"drop", "dropIdx", "loose"},
         proc'[p].name = proc[p].name, proc'[p].pc = "dropIdx" => proc'[p].gone # proc[p].name,
         proc[p].name \in DOMAIN packDir => proc[p].name \in DOMAIN packDir',
         proc[p].name \in DOMAIN idxDir => proc[p].name \in DOMAIN idxDir',
         \A n \in DOMAIN idxDir' : n \in DOMAIN idxDir /\ idxDir'[n] = idxDir[n],
         \A o \in Objects : loose'[o] = "torn" => loose[o] = "torn"
  PROVE  SoundInv'
<1>1. History' = History /\ \A m : ObjectsOf(m)' = ObjectsOf(m)
  BY DEF History, Lineage, ObjectsOf, TreeOf, LeafOf
<1>2. PICK n : n = proc[p].name /\ n = proc'[p].name
  OBVIOUS
<1>3. \A m \in History[tip] : \A o \in ObjectsOf(m) : Packed(n, o)
  BY <1>2 DEF SoundInv, Sound, GcHolds
<1>4. \A o : Packed(n, o) => Packed(n, o)'
  BY <1>2 DEF Packed
<1>5. \A m \in History'[tip'] : \A o \in ObjectsOf(m)' : Packed(n, o)'
  BY <1>1, <1>3, <1>4
<1>6. Whole(tip)'
  <2>1. \A o : Packed(n, o)' => Held(o)'
    BY DEF Packed, Held
  <2> QED
    BY <1>5, <2>1 DEF Whole
<1>7. Sound(p)'
  BY <1>2, <1>5 DEF Sound, CommitHolds, ReceiveHolds, GcHolds
<1>8. ASSUME NEW q \in Procs, q # p PROVE Sound(q)'
  <2>1. proc'[q].pc = "idle"
    BY <1>8 DEF Others
  <2> QED
    BY <2>1 DEF Sound, CommitHolds, ReceiveHolds, GcHolds
<1>9. Filled'
  BY FilledStep DEF Fills
<1>10. Indexed'
  BY IndexedStep
<1> QED
  BY <1>6, <1>7, <1>8, <1>9, <1>10 DEF SoundInv

\* gc.
LEMMA SoundGc ==
  ASSUME SoundInv, PackInv', NEW p \in Procs,
         \/ Walk(p) \/ ListPacks(p) \/ Copy(p)
         \/ DropPack(p) \/ DropIdx(p) \/ PacksDropped(p) \/ DropLoose(p) \/ GcDone(p)
  PROVE  SoundInv'
<1>0. /\ TypedInv /\ StoreTypeOK /\ Phased(p) /\ PackHolds(p) /\ Careful /\ Indexed /\ Filled
      /\ Sound(p) /\ GcHolds(p) /\ Whole(tip)
  BY DEF SoundInv, PackInv, TypedInv, Sound
<1>1. /\ proc[p].pc \in {"gc", "list", "copy", "drop", "dropIdx", "loose"}
      /\ Collecting(p) /\ proc[p].leaf = None
      /\ \A q \in Procs \ {p} : proc[q].pc = "idle"
  <2>1. proc[p].pc \in {"gc", "list", "copy", "drop", "dropIdx", "loose"}
    BY Zenon DEF Walk, ListPacks, Copy, DropPack, DropIdx, PacksDropped, DropLoose, GcDone
  <2>2. Collecting(p) /\ proc[p].leaf = None
    BY <1>0, <2>1 DEF Collecting, Phased
  <2> QED
    BY <1>0, <2>1, <2>2 DEF Careful
<1>2. Quiet
  BY <1>1 DEF Quiet, MidWrite
<1>3. CASE Walk(p)
  <2>1. /\ Others(p) /\ proc'[p].pc = "list" /\ proc'[p].todo = Reachable(proc[p].view)
        /\ SameCommand(proc'[p], proc[p])
    BY <1>0, <1>3, WalkMoves
  <2>2. UNCHANGED <<loose, packDir, idxDir, tip, commits>> /\ proc[p].pc = "gc"
    BY <1>3 DEF Walk, packVars
  <2>3. proc[p].view = LoadPacks /\ Keeps(Reachable(LoadPacks))
    BY <1>0, <1>2, <2>2, ReachableKeeps DEF GcHolds
  <2>4. PICK S : S = proc'[p].todo /\ Keeps(S)'
    BY <2>1, <2>2, <2>3, SoundSame
  <2>5. Sound(p)'
    BY <2>1, <2>2, <2>3, <2>4, SoundSame DEF Sound, CommitHolds, ReceiveHolds, GcHolds, SameCommand
  <2> QED
    BY <2>1, <2>2, <2>5, SoundRead
<1>4. CASE ListPacks(p)
  <2>1. /\ Others(p) /\ proc'[p].pc = "pack" /\ proc'[p].todo = proc[p].todo
        /\ SameCommand(proc'[p], proc[p])
    BY <1>0, <1>4, ListPacksMoves
  <2>2. UNCHANGED <<loose, packDir, idxDir, tip, commits>> /\ proc[p].pc = "list"
    BY <1>4 DEF ListPacks, packVars
  <2>3. Sound(p)'
    BY <1>0, <2>1, <2>2, SoundSame DEF Sound, CommitHolds, ReceiveHolds, GcHolds, SameCommand
  <2> QED
    BY <2>1, <2>2, <2>3, SoundRead
<1>5. CASE GcDone(p)
  BY <1>1, <1>5, SoundExits DEF GcDone, packVars
<1>6. CASE PacksDropped(p)
  <2>1. Others(p) /\ proc'[p].pc = "loose" /\ proc'[p].name = proc[p].name
    BY <1>0, <1>6, PacksDroppedMoves DEF SameWriter
  <2>2. UNCHANGED <<loose, packDir, idxDir, tip, commits>> /\ proc[p].pc = "drop"
    BY <1>6 DEF PacksDropped, packVars
  <2>3. Sound(p)'
    BY <1>0, <2>1, <2>2, SoundSame DEF Sound, CommitHolds, ReceiveHolds, GcHolds
  <2> QED
    BY <2>1, <2>2, <2>3, SoundRead
<1>7. CASE Copy(p)
  <2>1. PICK S : S = {o \in proc[p].todo : Reads(proc[p].view, o)}
    OBVIOUS
  <2>2. S \subseteq Objects /\ SetToSeq(S) \in Bytes /\ ToSet(SetToSeq(S)) = S
    BY <1>0, <2>1, FieldsTyped, BytesLemma
  <2>3. PICK s \in Bytes, l \in {"drop", "hash"} :
          /\ s = SetToSeq(S) /\ l = (IF s = <<>> THEN "drop" ELSE "hash")
          /\ file' = [file EXCEPT ![proc[p].file] = Overlay(@, proc[p].offset, s)]
          /\ proc' = [proc EXCEPT ![p] = [PushPacked(proc[p], s) EXCEPT !.pc = l]]
    BY <1>7, <2>1, <2>2, Zenon DEF Copy
  <2>4. l \in PCs
    BY DEF PCs
  <2>5. /\ Others(p) /\ proc'[p].pc = l /\ proc'[p].index = PushedIndex(proc[p], s)
        /\ SameCommand(proc'[p], proc[p])
    <3>1. proc' = [proc EXCEPT ![p] = [PushPacked(proc[p], s) EXCEPT !.pc = l]]
      BY <2>3, Zenon
    <3> QED
      BY <1>0, <2>4, <3>1, CopyMoves, ZenonT(60)
  <2>6. UNCHANGED <<loose, packDir, idxDir, tip, commits>> /\ proc[p].pc = "copy"
    BY <1>7 DEF Copy
  <2>7. Keeps(S)
    <3>1. proc[p].view = LoadPacks /\ Keeps(proc[p].todo)
      BY <1>0, <2>6 DEF GcHolds
    <3>2. \A m \in History[tip] : \A o \in ObjectsOf(m) : Reads(LoadPacks, o)
      BY <1>2, BranchReads
    <3> QED
      BY <2>1, <3>1, <3>2 DEF Keeps
  <2>8. S \subseteq {o \in Objects : proc'[p].index[o] # 0}
    <3>1. proc[p].offset = 0 /\ DOMAIN s \subseteq Nat \ {0}
      BY <1>0, <2>6 DEF PackHolds, Bytes
    <3>2. ASSUME NEW o \in S PROVE proc'[p].index[o] # 0
      <4>1. o \in Objects /\ o \in ToSet(s)
        BY <2>2, <2>3
      <4>2. (CHOOSE i \in DOMAIN s : s[i] = o) \in DOMAIN s
        BY <4>1 DEF ToSet
      <4>3. proc'[p].index[o] = 0 + (CHOOSE i \in DOMAIN s : s[i] = o)
        BY <2>5, <3>1, <4>1 DEF PushedIndex
      <4> QED
        BY <3>1, <4>2, <4>3
    <3> QED
      BY <2>2, <3>2
  <2>9. Sound(p)'
    <3>1. CASE l = "hash"
      <4>1. PICK K : K = {o \in Objects : proc'[p].index[o] # 0} /\ Keeps(K)'
        BY <2>6, <2>7, <2>8, SoundSame DEF Keeps
      <4>2. proc'[p].leaf = None
        BY <1>1, <2>5 DEF SameCommand
      <4> QED
        BY <2>5, <3>1, <4>1, <4>2 DEF Sound, CommitHolds, ReceiveHolds, GcHolds
    <3>2. CASE l = "drop"
      <4>1. S = {}
        BY <2>2, <2>3, <3>2 DEF ToSet
      <4>2. \A m \in History[tip] : ObjectsOf(m) = {}
        BY <2>7, <4>1 DEF Keeps
      <4>3. \A m \in History'[tip'] : ObjectsOf(m)' = {}
        BY <2>6, <4>2, SoundSame
      <4> QED
        BY <2>5, <3>2, <4>3 DEF Sound, CommitHolds, ReceiveHolds, GcHolds
    <3> QED
      BY <3>1, <3>2
  <2> QED
    BY <2>5, <2>6, <2>9, SoundRead
<1>8. CASE DropPack(p)
  <2>1. PICK n \in proc[p].old \ {proc[p].name} :
          /\ packDir' = Restrict(packDir, DOMAIN packDir \ {n})
          /\ proc' = [proc EXCEPT ![p].pc = "dropIdx", ![p].old = @ \ {n}, ![p].gone = n]
    BY <1>8, Zenon DEF DropPack
  <2>2. n \in Bytes /\ n # proc[p].name
    BY <1>0, FieldsTyped
  <2>3. /\ Others(p) /\ proc'[p].pc = "dropIdx" /\ proc'[p].gone = n
        /\ SameWriter(proc'[p], proc[p])
    <3>1. proc' = [proc EXCEPT ![p].pc = "dropIdx", ![p].old = @ \ {n}, ![p].gone = n]
      BY <2>1, Zenon
    <3> QED
      BY <1>0, <2>2, <3>1, DropPackMoves, Zenon
  <2>4. /\ UNCHANGED <<loose, idxDir, tip, commits>> /\ proc[p].pc = "drop"
        /\ DOMAIN packDir' = DOMAIN packDir \ {n}
    <3>1. packDir' = Restrict(packDir, DOMAIN packDir \ {n})
      BY <2>1, Zenon
    <3>2. UNCHANGED <<loose, idxDir, tip, commits>> /\ proc[p].pc = "drop"
      BY <1>8, Zenon DEF DropPack
    <3> QED
      BY <3>1, <3>2 DEF Restrict
  <2> QED
    BY <1>1, <2>2, <2>3, <2>4, SoundDrops DEF SameWriter
<1>9. CASE DropIdx(p)
  <2>1. Others(p) /\ proc'[p].pc = "drop" /\ SameWriter(proc'[p], proc[p])
    BY <1>0, <1>9, DropIdxMoves
  <2>2. /\ UNCHANGED <<loose, packDir, tip, commits>> /\ proc[p].pc = "dropIdx"
        /\ DOMAIN idxDir' = DOMAIN idxDir \ {proc[p].gone}
        /\ \A n \in DOMAIN idxDir' : idxDir'[n] = idxDir[n]
    <3>1. /\ UNCHANGED <<loose, packDir, tip, commits>> /\ proc[p].pc = "dropIdx"
          /\ idxDir' = Restrict(idxDir, DOMAIN idxDir \ {proc[p].gone})
      BY <1>9, Zenon DEF DropIdx
    <3> QED
      BY <3>1 DEF Restrict
  <2>3. proc[p].gone # proc[p].name
    BY <1>0, <2>2 DEF GcHolds
  <2> QED
    BY <1>1, <2>1, <2>2, <2>3, SoundDrops DEF SameWriter
<1>10. CASE DropLoose(p)
  <2>1. /\ UNCHANGED <<packDir, idxDir, tip, commits, proc>> /\ proc[p].pc = "loose"
        /\ \A o \in Objects : loose'[o] = "torn" => loose[o] = "torn"
    BY <1>0, <1>10 DEF DropLoose, packVars, StoreTypeOK
  <2>2. Others(p)
    BY <2>1 DEF Others
  <2> QED
    BY <1>1, <2>1, <2>2, SoundDrops
<1> QED
  BY <1>3, <1>4, <1>5, <1>6, <1>7, <1>8, <1>9, <1>10

LEMMA SoundNext ==
  ASSUME KillMidWrite = FALSE, SoundInv, (Next /\ Careful') \/ UNCHANGED vars
  PROVE  SoundInv'
<1>0. PackInv /\ PackInv' /\ StoreTypeOK
  BY PackNext DEF SoundInv, PackInv, TypedInv
<1>1. CASE UNCHANGED vars
  <2>1. UNCHANGED <<loose, packDir, idxDir, tip, commits>> /\ proc' = proc
    BY <1>1 DEF vars, packVars
  <2>2. \A p \in Procs : Sound(p)'
    BY <2>1, SoundSame DEF SoundInv, Sound, CommitHolds, ReceiveHolds, GcHolds
  <2>3. Indexed' /\ Filled' /\ Whole(tip)'
    BY <2>1, SoundSame DEF SoundInv, Indexed, Filled, Fills, Fits
  <2> QED
    BY <1>0, <2>2, <2>3 DEF SoundInv
<1>2. CASE Next /\ Careful'
  <2>1. ASSUME NEW p \in Procs, Start(p) PROVE SoundInv'
    <3>1. PICK c \in {"commit", "gc", "receive"} :
            /\ proc[p].pc = "idle" /\ Others(p)
            /\ proc'[p].pc = c /\ proc'[p].view = LoadPacks
            /\ UNCHANGED <<loose, packVars, cache, tip, commits, done>>
      BY <1>0, <2>1, OpenSteps, Zenon
    <3>2. UNCHANGED <<loose, packDir, idxDir, tip, commits>>
      BY <3>1 DEF packVars
    <3>3. \A o \in Objects : Hits(LoadPacks, o) # {} => Held(o)
      BY LoadedIsHeld DEF Exists, SoundInv
    <3>4. Sound(p)'
      BY <3>1, <3>2, <3>3, SoundSame DEF Sound, CommitHolds, ReceiveHolds, GcHolds
    <3> QED
      BY <1>0, <3>1, <3>2, <3>4, SoundRead
  <2>2. ASSUME NEW p \in Procs, Step(p) PROVE SoundInv'
    <3>1. CASE Snapshot(p) \/ NewPack(p) \/ FinishHash(p) \/ Rename(p) \/ CreateIdx(p) \/ FillIdx(p)
      BY <1>0, <3>1, SoundPacks
    <3>2. CASE WriteManifest(p) \/ FillManifest(p)
      BY <1>0, <3>2, SoundManifest
    <3>3. CASE WriteCommit(p)
      BY <1>0, <3>3, SoundWriteCommit
    <3>4. CASE \/ LoadCache(p) \/ Put(p) \/ Save(p) \/ ReadHead(p) \/ FillCommit(p)
               \/ TruncateRef(p) \/ WriteRef(p)
      BY <1>0, <3>4, SoundCommit
    <3>5. CASE \/ Walk(p) \/ ListPacks(p) \/ Copy(p)
               \/ DropPack(p) \/ DropIdx(p) \/ PacksDropped(p) \/ DropLoose(p) \/ GcDone(p)
      BY <1>0, <3>5, SoundGc
    <3>6. CASE \/ \E l \in Leaves, parent \in {0, tip} : Receive(p, l, parent)
               \/ Have(p) \/ PutObject(p) \/ FillObject(p) \/ SetRef(p)
      BY <1>0, <3>6, SoundReceive
    <3> QED
      BY <2>2, <3>1, <3>2, <3>3, <3>4, <3>5, <3>6 DEF Step
  <2>3. ASSUME NEW p \in Procs, Kill(p) PROVE SoundInv'
    BY <1>0, <2>3, SoundExits DEF Kill, MidWrite, packVars
  <2> QED
    BY <1>2, <2>1, <2>2, <2>3 DEF Next
<1> QED
  BY <1>1, <1>2

LEMMA SoundInit == Init => SoundInv
<1> SUFFICES ASSUME Init PROVE SoundInv
  OBVIOUS
<1>1. PackInv /\ StoreTypeOK
  BY PackInit DEF PackInv, TypedInv
<1>2. \A p \in Procs : proc[p].pc = "idle"
  BY DEF Init, Idle
<1>3. \A p \in Procs : Sound(p)
  BY <1>2 DEF Sound, CommitHolds, ReceiveHolds, GcHolds
<1>4. Indexed /\ Filled
  BY DEF Init, Indexed, Filled
<1>5. Whole(tip)
  BY <1>1, HistoryLemma DEF Init, HistoryOK, Whole
<1> QED
  BY <1>1, <1>3, <1>4, <1>5 DEF SoundInv

\* The store is clean whenever nobody is in the middle of a write, for any
\* number of processes, commits and packs, if no process dies in the middle
\* of a write, commits take turns and gc runs alone.
THEOREM FsckCleanTheorem ==
  ASSUME KillMidWrite = FALSE
  PROVE  CarefulSpec => []FsckClean
<1>1. Init => SoundInv
  BY SoundInit
<1>2. SoundInv /\ [Next /\ Careful']_vars => SoundInv'
  BY SoundNext, Zenon
<1>3. SoundInv => FsckClean
  BY SoundIsClean DEF FsckClean
<1> QED
  BY <1>1, <1>2, <1>3, PTL DEF CarefulSpec

-----------------------------------------------------------------------------
(* What a commit that reported success is worth.                            *)

\* A commit that is on its way has the history of the branch behind it.
Lasting(p) ==
  /\ proc[p].pc \notin {"receive", "have", "recv", "fillRecv"}
  /\ proc[p].pc \in {"ref", "setRef"} => proc[p].leaf # None
  /\ proc[p].pc = "write" => done \subseteq History[proc[p].head]
  /\ proc[p].pc \in {"fillCommit", "ref", "setRef"} => done \subseteq History[proc[p].new]

\* Only while the ref is being rewritten is the branch behind.
LastingInv ==
  /\ TypedInv /\ Careful /\ \A p \in Procs : Lasting(p)
  /\ (\A p \in Procs : proc[p].pc # "setRef") => done \subseteq History[tip]

LEMMA LastingStep ==
  ASSUME LastingInv, TypedInv', Careful', NEW p \in Procs, Others(p),
         UNCHANGED <<tip, commits, done>>,
         proc[p].pc # "setRef", Lasting(p)'
  PROVE  LastingInv'
<1>1. History' = History
  BY DEF History, Lineage
<1>2. \A q \in Procs : Lasting(q)'
  BY <1>1 DEF LastingInv, Lasting, Others
<1>3. (\A q \in Procs : proc'[q].pc # "setRef") => done \subseteq History[tip]
  BY DEF LastingInv, Others
<1> QED
  BY <1>1, <1>2, <1>3 DEF LastingInv

\* A step to a place where nothing is claimed of commits.
LEMMA LastingLeft ==
  ASSUME LastingInv, TypedInv', Careful', NEW p \in Procs, Others(p),
         UNCHANGED <<tip, commits, done>>,
         proc[p].pc # "setRef",
         proc'[p].pc \notin {"receive", "have", "recv", "fillRecv", "write", "fillCommit",
                                "ref", "setRef"}
  PROVE  LastingInv'
<1>1. Lasting(p)'
  BY DEF Lasting
<1> QED
  BY <1>1, LastingStep

LEMMA LastingExits ==
  ASSUME LastingInv, TypedInv', Careful', NEW p \in Procs, Exit(p),
         UNCHANGED <<tip, commits, done>>,
         proc[p].pc # "setRef"
  PROVE  LastingInv'
<1>1. Others(p) /\ proc'[p] = Idle
  BY ExitMoves DEF LastingInv, TypedInv
<1>2. proc'[p].pc = "idle"
  BY <1>1 DEF Idle
<1> QED
  BY <1>1, <1>2, LastingLeft

\* Where a step that does not touch the branch goes.
LEMMA PlainSteps ==
  ASSUME TypedInv, NEW p \in Procs,
         \/ Snapshot(p) \/ LoadCache(p) \/ Put(p) \/ Save(p)
         \/ FinishHash(p) \/ Rename(p) \/ CreateIdx(p) \/ FillIdx(p)
         \/ WriteManifest(p) \/ FillManifest(p)
         \/ Walk(p) \/ ListPacks(p) \/ NewPack(p) \/ Copy(p)
         \/ DropPack(p) \/ DropIdx(p) \/ PacksDropped(p) \/ DropLoose(p) \/ GcDone(p)
  PROVE  /\ UNCHANGED <<tip, commits, done>> /\ Others(p) /\ proc[p].pc # "setRef"
         /\ proc'[p].pc \notin {"receive", "have", "recv", "fillRecv", "write", "fillCommit",
                                "ref", "setRef"}
<1>0. StoreTypeOK /\ Phased(p)
  BY DEF TypedInv
<1> DEFINE Away == {"receive", "have", "recv", "fillRecv", "write", "fillCommit", "ref", "setRef"}
<1>1. UNCHANGED <<tip, commits, done>> /\ proc[p].pc # "setRef"
  BY Zenon DEF Snapshot, LoadCache, Put, Save, FinishHash, Rename, CreateIdx, FillIdx, WriteManifest,
               FillManifest, Walk, ListPacks, NewPack, Copy, DropPack, DropIdx, PacksDropped,
               DropLoose, GcDone
<1>2. ASSUME NEW l \in {"drop", "save", "fillTree", "head", "idx", "fillIdx"}, Goto(p, l)
      PROVE  Others(p) /\ proc'[p].pc \notin Away
  <2>1. l \in PCs
    BY DEF PCs
  <2> QED
    BY <1>0, <1>2, <2>1, GotoMoves
<1>3. ASSUME Exit(p) PROVE Others(p) /\ proc'[p].pc \notin Away
  <2>1. Others(p) /\ proc'[p] = Idle
    BY <1>0, <1>3, ExitMoves
  <2> QED
    BY <2>1 DEF Idle
<1>4. CASE Snapshot(p) \/ NewPack(p)
  <2>1. PICK l \in {"load", "copy"} : NewWriter(p, l)
    BY <1>4 DEF Snapshot, NewPack
  <2>2. l \in PCs
    BY DEF PCs
  <2> QED
    BY <1>0, <1>1, <2>1, <2>2, NewWriterMoves
<1>5. CASE LoadCache(p)
  BY <1>0, <1>1, <1>5, LoadCacheMoves
<1>6. CASE Put(p)
  BY <1>0, <1>1, <1>6, PutHitMoves, PutMissMoves
<1>7. CASE Save(p)
  BY <1>0, <1>1, <1>7, SaveMoves
<1>8. CASE FinishHash(p)
  <2>1. tmp = 0 => Exit(p)
    BY <1>8 DEF FinishHash
  <2> QED
    BY <1>0, <1>1, <1>3, <1>8, <2>1, FinishHashMoves
<1>9. CASE Rename(p)
  <2>1. Exit(p) \/ Goto(p, "idx")
    BY <1>9 DEF Rename
  <2> QED
    BY <1>1, <1>2, <1>3, <2>1
<1>10. CASE CreateIdx(p)
  BY <1>1, <1>2, <1>10 DEF CreateIdx
<1>11. CASE FillIdx(p)
  BY <1>1, <1>2, <1>11 DEF FillIdx
<1>12. CASE WriteManifest(p)
  BY <1>1, <1>2, <1>12 DEF WriteManifest, CreateLoose
<1>13. CASE FillManifest(p)
  BY <1>1, <1>2, <1>13 DEF FillManifest
<1>14. CASE Walk(p)
  BY <1>0, <1>1, <1>14, WalkMoves
<1>15. CASE ListPacks(p)
  BY <1>0, <1>1, <1>15, ListPacksMoves
<1>16. CASE Copy(p)
  <2>1. PICK s \in Bytes, l \in {"drop", "hash"} :
          /\ file' = [file EXCEPT ![proc[p].file] = Overlay(@, proc[p].offset, s)]
          /\ proc' = [proc EXCEPT ![p] = [PushPacked(proc[p], s) EXCEPT !.pc = l]]
    BY <1>0, <1>16, CopySteps, Zenon
  <2>2. l \in PCs
    BY DEF PCs
  <2>3. Others(p) /\ proc'[p].pc = l
    BY <1>0, <2>1, <2>2, CopyMoves, ZenonT(60)
  <2> QED
    BY <1>1, <2>3
<1>17. CASE DropPack(p)
  <2>1. PICK n \in proc[p].old :
          proc' = [proc EXCEPT ![p].pc = "dropIdx", ![p].old = @ \ {n}, ![p].gone = n]
    BY <1>17, Zenon DEF DropPack
  <2>2. n \in Bytes
    BY <1>0, FieldsTyped
  <2>3. Others(p) /\ proc'[p].pc = "dropIdx"
    BY <1>0, <2>1, <2>2, DropPackMoves, Zenon
  <2> QED
    BY <1>1, <2>3
<1>18. CASE DropIdx(p)
  BY <1>0, <1>1, <1>18, DropIdxMoves
<1>19. CASE PacksDropped(p)
  BY <1>0, <1>1, <1>19, PacksDroppedMoves
<1>20. CASE DropLoose(p)
  BY <1>1, <1>20 DEF DropLoose, Others
<1>21. CASE GcDone(p)
  BY <1>1, <1>3, <1>21 DEF GcDone
<1> QED
  BY <1>4, <1>5, <1>6, <1>7, <1>8, <1>9, <1>10, <1>11, <1>12, <1>13, <1>14, <1>15, <1>16, <1>17,
     <1>18, <1>19, <1>20, <1>21

\* The steps of a commit from the HEAD it reads to the ref it writes.
LEMMA LastingCommit ==
  ASSUME LastingInv, TypedInv', Careful', NEW p \in Procs,
         ReadHead(p) \/ WriteCommit(p) \/ FillCommit(p) \/ TruncateRef(p) \/ WriteRef(p)
  PROVE  LastingInv'
<1>0. /\ TypedInv /\ StoreTypeOK /\ StoreTypeOK' /\ Phased(p) /\ Lasting(p) /\ Careful
      /\ \A q \in Procs : Lasting(q) /\ Phased(q)
  BY DEF LastingInv, TypedInv
<1>1. /\ proc[p].pc \in {"head", "write", "fillCommit", "ref", "setRef"} /\ proc[p].leaf # None
      /\ \A q \in Procs \ {p} : proc[q].pc \notin {"write", "fillCommit", "ref", "setRef"}
  <2>1. proc[p].pc \in {"head", "write", "fillCommit", "ref", "setRef"}
    BY Zenon DEF ReadHead, WriteCommit, FillCommit, TruncateRef, WriteRef
  <2>2. proc[p].leaf # None
    BY <1>0, <2>1 DEF Phased, Lasting
  <2>3. \A q \in Procs \ {p} : proc[q].leaf = None
    BY <1>0, <2>2 DEF Careful, Committing
  <2> QED
    BY <1>0, <2>1, <2>2, <2>3 DEF Phased, Lasting
<1>2. proc[p].pc # "setRef" => done \subseteq History[tip]
  BY <1>1 DEF LastingInv
<1>3. CASE ReadHead(p)
  <2>0. UNCHANGED <<tip, commits, done>> /\ proc[p].pc = "head"
    BY <1>3 DEF ReadHead
  <2>1. CASE Exit(p)
    BY <2>0, <2>1, LastingExits
  <2>2. CASE proc' = [proc EXCEPT ![p].pc = "write", ![p].head = tip]
    <3>1. Others(p) /\ proc'[p].pc = "write" /\ proc'[p].head = tip
      BY <1>0, <2>2, ReadHeadMoves
    <3>2. History' = History
      BY <2>0 DEF History, Lineage
    <3>3. Lasting(p)'
      BY <1>2, <2>0, <3>1, <3>2 DEF Lasting
    <3> QED
      BY <2>0, <3>1, <3>3, LastingStep
  <2> QED
    BY <1>3, <2>1, <2>2, Zenon DEF ReadHead
<1>4. CASE WriteCommit(p)
  <2>1. PICK n, r : n = Len(commits) + 1 /\ r = [parent |-> proc[p].head, leaf |-> proc[p].leaf]
    OBVIOUS
  <2>2. proc[p].pc = "write" /\ commits' = Append(commits, r) /\ UNCHANGED <<tip, done>>
    BY <1>4, <2>1 DEF WriteCommit
  <2>3. Others(p) /\ proc'[p].pc = "fillCommit" /\ proc'[p].new = n
    BY <1>0, <1>4, <2>1, WriteCommitMoves
  <2>4. /\ \A m \in 0 .. Len(commits) : History'[m] = History[m]
        /\ History'[n] = {n} \cup History[proc[p].head]
    <3>1. r.parent = proc[p].head
      BY <2>1
    <3> QED
      BY <1>0, <2>1, <2>2, <3>1, AppendLemma
  <2>5. Lasting(p)'
    BY <1>0, <2>2, <2>3, <2>4 DEF Lasting
  <2>6. tip \in 0 .. Len(commits)
    BY <1>0 DEF StoreTypeOK
  <2>7. done' \subseteq History'[tip']
    BY <1>2, <2>2, <2>4, <2>6
  <2>8. ASSUME NEW q \in Procs, q # p PROVE Lasting(q)'
    BY <1>0, <1>1, <2>3, <2>8 DEF Lasting, Others
  <2> QED
    BY <1>0, <2>5, <2>7, <2>8 DEF LastingInv
<1>5. CASE FillCommit(p)
  <2>1. UNCHANGED <<tip, commits, done>> /\ Goto(p, "ref") /\ proc[p].pc = "fillCommit"
    BY <1>5 DEF FillCommit
  <2>2. Others(p) /\ proc'[p].pc = "ref" /\ SameCommand(proc'[p], proc[p])
    BY <1>0, <2>1, GotoMoves DEF PCs
  <2>3. History' = History
    BY <2>1 DEF History, Lineage
  <2>4. Lasting(p)'
    BY <1>0, <1>1, <2>1, <2>2, <2>3 DEF Lasting, SameCommand
  <2> QED
    BY <2>1, <2>2, <2>4, LastingStep
<1>6. CASE TruncateRef(p) \/ WriteRef(p)
  <2>1. UNCHANGED commits /\ History' = History
    BY <1>6 DEF TruncateRef, WriteRef, History, Lineage
  <2>2. CASE TruncateRef(p)
    <3>1. Goto(p, "setRef") /\ proc[p].pc = "ref" /\ done' = done
      BY <2>2 DEF TruncateRef
    <3>2. Others(p) /\ proc'[p].pc = "setRef" /\ SameCommand(proc'[p], proc[p])
      BY <1>0, <3>1, GotoMoves DEF PCs
    <3>3. Lasting(p)'
      BY <1>0, <1>1, <2>1, <3>1, <3>2 DEF Lasting, SameCommand
    <3>4. ASSUME NEW q \in Procs, q # p PROVE Lasting(q)'
      BY <1>0, <1>1, <3>2, <3>4 DEF Lasting, Others
    <3> QED
      BY <3>2, <3>3, <3>4 DEF LastingInv
  <2>3. CASE WriteRef(p)
    <3>1. /\ Exit(p) /\ tip' = proc[p].new /\ proc[p].pc = "setRef"
          /\ done' = done \cup {proc[p].new}
      BY <2>3 DEF WriteRef
    <3>2. Others(p) /\ proc'[p] = Idle
      BY <1>0, <3>1, ExitMoves
    <3>3. Lasting(p)'
      BY <3>2 DEF Idle, Lasting
    <3>4. ASSUME NEW q \in Procs, q # p PROVE Lasting(q)'
      BY <1>0, <1>1, <3>2, <3>4 DEF Lasting, Others
    <3>5. proc[p].new \in DOMAIN commits
      BY <1>0, <3>1, FieldsTyped DEF Phased, StoreTypeOK
    <3>6. proc[p].new \in History[proc[p].new]
      BY <1>0, <3>5, BackLemma DEF BackOK
    <3>7. done' \subseteq History'[tip']
      BY <1>0, <2>1, <3>1, <3>6 DEF Lasting
    <3> QED
      BY <3>3, <3>4, <3>7 DEF LastingInv
  <2> QED
    BY <1>6, <2>2, <2>3
<1> QED
  BY <1>3, <1>4, <1>5, <1>6

LEMMA LastingInit == Init => LastingInv
<1> SUFFICES ASSUME Init PROVE LastingInv
  OBVIOUS
<1>1. TypedInv /\ Careful
  BY PackInit DEF PackInv
<1>2. \A p \in Procs : proc[p].pc = "idle"
  BY DEF Init, Idle
<1>3. \A p \in Procs : Lasting(p)
  BY <1>2 DEF Lasting
<1> QED
  BY <1>1, <1>3 DEF Init, LastingInv

LEMMA LastingNext ==
  ASSUME KillMidWrite = FALSE, \A p \in Procs : ~Open(p, "receive", None),
         LastingInv, (Next /\ Careful') \/ UNCHANGED vars
  PROVE  LastingInv'
<1>0. TypedInv /\ TypedInv' /\ StoreTypeOK /\ \A p \in Procs : Lasting(p)
  BY TypedNext DEF LastingInv, TypedInv
<1>1. CASE UNCHANGED vars
  <2>1. proc' = proc /\ UNCHANGED <<tip, commits, done>>
    BY <1>1 DEF vars
  <2>2. History' = History
    BY <2>1 DEF History, Lineage
  <2> QED
    BY <1>0, <2>1, <2>2 DEF LastingInv, Lasting, Careful, Committing, Collecting
<1>2. CASE Next /\ Careful'
  <2>1. ASSUME NEW p \in Procs, Start(p) PROVE LastingInv'
    <3>1. proc[p].pc = "idle" /\ proc'[p].pc \in {"commit", "gc"} /\ Others(p)
          /\ UNCHANGED <<tip, commits, done>>
      <4>1. PICK c \in {"commit", "gc"}, l \in Leaves \cup {None} : Open(p, c, l)
        BY <2>1, Zenon DEF Start
      <4>2. c \in PCs
        BY DEF PCs
      <4>3. /\ proc[p].pc = "idle" /\ UNCHANGED <<tip, commits, done>>
            /\ proc' = [proc EXCEPT ![p] = [Idle EXCEPT !.pc = c, !.view = LoadPacks, !.leaf = l]]
        BY <4>1, Zenon DEF Open
      <4> QED
        BY <1>0, <4>2, <4>3, OpenMoves
    <3> QED
      BY <1>0, <1>2, <3>1, LastingLeft
  <2>2. ASSUME NEW p \in Procs, Step(p) PROVE LastingInv'
    <3>1. CASE \/ Snapshot(p) \/ LoadCache(p) \/ Put(p) \/ Save(p)
               \/ FinishHash(p) \/ Rename(p) \/ CreateIdx(p) \/ FillIdx(p)
               \/ WriteManifest(p) \/ FillManifest(p)
               \/ Walk(p) \/ ListPacks(p) \/ NewPack(p) \/ Copy(p)
               \/ DropPack(p) \/ DropIdx(p) \/ PacksDropped(p) \/ DropLoose(p) \/ GcDone(p)
      BY <1>0, <1>2, <3>1, PlainSteps, LastingLeft
    <3>2. CASE ReadHead(p) \/ WriteCommit(p) \/ FillCommit(p) \/ TruncateRef(p) \/ WriteRef(p)
      BY <1>0, <1>2, <3>2, LastingCommit
    <3>3. CASE \/ \E l \in Leaves, parent \in {0, tip} : Receive(p, l, parent)
               \/ Have(p) \/ PutObject(p) \/ FillObject(p) \/ SetRef(p)
      <4>1. proc[p].pc \in {"receive", "have", "recv", "fillRecv"}
        BY <3>3, Zenon DEF Receive, Have, PutObject, FillObject, SetRef
      <4> QED
        BY <1>0, <4>1 DEF Lasting
    <3> QED
      BY <2>2, <3>1, <3>2, <3>3 DEF Step
  <2>3. ASSUME NEW p \in Procs, Kill(p) PROVE LastingInv'
    BY <1>0, <1>2, <2>3, LastingExits DEF Kill, MidWrite
  <2> QED
    BY <1>2, <2>1, <2>2, <2>3 DEF Next
<1> QED
  BY <1>1, <1>2

LEMMA LastingIsKept == LastingInv => NoLostCommit
BY DEF LastingInv, NoLostCommit, Quiet, MidWrite

\* A commit that reported success stays in the history of the branch, for any
\* number of processes and commits and with gc at any time, if no push
\* arrives, no process dies while it rewrites the ref, commits take turns and
\* gc runs alone.
THEOREM NoLostCommitTheorem ==
  ASSUME KillMidWrite = FALSE, \A p \in Procs : "receive" \notin Roles[p]
  PROVE  CarefulSpec => []NoLostCommit
<1>1. Init => LastingInv
  BY LastingInit
<1>2. LastingInv /\ [Next /\ Careful']_vars => LastingInv'
  <2>1. \A p \in Procs : ~Open(p, "receive", None)
    BY DEF Open
  <2> QED
    BY <2>1, LastingNext, Zenon
<1>3. LastingInv => NoLostCommit
  BY LastingIsKept
<1> QED
  BY <1>1, <1>2, <1>3, PTL DEF CarefulSpec

-----------------------------------------------------------------------------
(* The user and the server of MCPackStore.                                  *)

\* A user who is alone is careful.
AloneInv == ~serving => LastingInv /\ proc[p2].pc = "idle"

LEMMA AloneNext ==
  ASSUME KillMidWrite = FALSE, Procs = {p1, p2}, "receive" \notin Roles[p1],
         AloneInv, MCNext \/ UNCHANGED <<vars, serving>>
  PROVE  AloneInv'
<1> SUFFICES ASSUME ~serving' PROVE LastingInv' /\ proc'[p2].pc = "idle"
  BY DEF AloneInv
<1>1. ~serving
  BY DEF MCNext
<1>2. LastingInv /\ TypedInv /\ proc[p2].pc = "idle" /\ p1 \in Procs /\ p2 \in Procs
  BY <1>1 DEF AloneInv, LastingInv
<1>3. proc'[p2].pc = "idle"
  BY <1>1, <1>2 DEF MCNext, vars
<1>4. Next \/ UNCHANGED vars
  BY DEF MCNext
<1>5. TypedInv' /\ Phased(p2)'
  BY <1>2, <1>4, TypedNext DEF TypedInv
<1>6. Careful'
  <2>1. proc'[p2].leaf = None
    BY <1>3, <1>5 DEF Phased
  <2>2. ~Committing(p2)' /\ ~Collecting(p2)'
    BY <1>3, <2>1 DEF Committing, Collecting
  <2> QED
    BY <1>3, <2>2 DEF Careful
<1>7. ASSUME NEW p \in Procs, Open(p, "receive", None) PROVE FALSE
  <2>1. p = p2
    BY <1>7 DEF Open
  <2>2. proc'[p2].pc = "receive"
    <3>1. proc \in [Procs -> Processes]
      BY <1>2 DEF TypedInv, StoreTypeOK
    <3>2. proc'[p2] = [Idle EXCEPT !.pc = "receive", !.view = LoadPacks, !.leaf = None]
      BY <1>2, <1>7, <2>1, <3>1 DEF Open
    <3> QED
      BY <3>2 DEF Idle
  <2> QED
    BY <1>3, <2>2
<1>8. LastingInv'
  BY <1>2, <1>4, <1>6, <1>7, LastingNext
<1> QED
  BY <1>3, <1>8

\* What the run says of a user who commits and collects alone, beside a server
\* that takes no push meanwhile: no commit that reported success is lost, for
\* any number of worlds, commits and pack files.
THEOREM NoLostCommitAloneTheorem ==
  ASSUME KillMidWrite = FALSE, Procs = {p1, p2}, "receive" \notin Roles[p1]
  PROVE  MCSpec => []NoLostCommitAlone
<1>1. MCInit => AloneInv
  <2>1. Init => proc[p2].pc = "idle"
    BY DEF Init, Idle
  <2> QED
    BY <2>1, LastingInit DEF MCInit, AloneInv
<1>2. AloneInv /\ [MCNext]_<<vars, serving>> => AloneInv'
  BY AloneNext, Zenon
<1>3. AloneInv => NoLostCommitAlone
  BY LastingIsKept DEF AloneInv, NoLostCommitAlone
<1> QED
  BY <1>1, <1>2, <1>3, PTL DEF MCSpec

=============================================================================
