---------------------------- MODULE BisectProofs ----------------------------
(***************************************************************************)
(* Proofs about Bisect.tla, for histories of any size and shape.  The      *)
(* invariant says that the marks of a session never lie about its culprit, *)
(* whatever was killed: nothing of an earlier session outlives the start   *)
(* of a new one.  That the search halves rests on what ancestors_incl      *)
(* computes: on a line the suspects are ordered, and the best candidate    *)
(* stands in the middle of them.                                           *)
(***************************************************************************)
EXTENDS Bisect, FiniteSetTheorems, WellFoundedInduction, TLAPS

\* The marks say of the culprit what the user said.
HonestMarks ==
  original # None =>
    /\ bad # None => Broken(culprit, bad)
    /\ \A g \in good : ~Broken(culprit, g)

BisectInv == BisectTypeOK /\ HonestMarks /\ BlameIsSound

-----------------------------------------------------------------------------
\* compute returns a state of its type.
LEMMA ComputeLemma ==
  ASSUME NEW b \in Commits \cup {None}, NEW gs \in SUBSET Commits,
         NEW ss \in SUBSET Commits, NEW v \in compute(b, gs, ss)
  PROVE  /\ v \in [is : {"silent", "marks", "done", "step"}, at : Commits \cup {None}]
         /\ v.is = "step" => v.at \in Commits
         /\ v.is = "done" => v.at = b /\ b # None /\ Candidates(b, gs, ss) = {}
<1>1. CASE b = None \/ gs = {}
  BY <1>1 DEF compute, NeedMarks
<1>2. CASE ~(b = None \/ gs = {}) /\ Candidates(b, gs, ss) = {}
  BY <1>2 DEF compute, Done
<1>3. CASE ~(b = None \/ gs = {}) /\ Candidates(b, gs, ss) # {}
  <2>1. PICK c \in Best(b, gs, ss) : v = Testing(c)
    BY <1>3 DEF compute
  <2>2. c \in Commits
    BY <2>1 DEF Best, Candidates, Suspects, ancestors_incl
  <2> QED
    BY <2>1, <2>2 DEF Testing
<1> QED
  BY <1>1, <1>2, <1>3

\* When no candidate is left, a culprit the marks do not lie about is the bad
\* commit or was skipped.
LEMMA BlameLemma ==
  ASSUME NEW b \in Commits, NEW gs \in SUBSET Commits, NEW ss \in SUBSET Commits,
         NEW k \in Commits,
         Broken(k, b), \A g \in gs : ~Broken(k, g), Candidates(b, gs, ss) = {}
  PROVE  k = b \/ k \in ss
<1>1. k \in Suspects(b, gs)
  BY DEF Suspects, Exonerated, Broken
<1> QED
  BY <1>1 DEF Candidates

\* What bisect_advance prints and does to HEAD, after marks that do not lie.
LEMMA AdvanceLemma ==
  ASSUME BisectTypeOK, NEW done \in BOOLEAN, Advance(done), UNCHANGED history,
         bad' \in Commits \cup {None}, good' \subseteq Commits, skip' \subseteq Commits,
         culprit' \in Commits, original' \in Commits \cup {Branch, Blank, None},
         HonestMarks'
  PROVE  BisectInv'
<1>1. parents' = parents /\ tip' = tip
  BY DEF history
<1>2. CASE ~done
  BY <1>1, <1>2 DEF Advance, Silent, BisectInv, BisectTypeOK, BlameIsSound
<1>3. CASE done
  <2>1. verdict' \in compute(bad', good', skip')
    BY <1>3 DEF Advance
  <2>2. /\ verdict' \in [is : {"silent", "marks", "done", "step"}, at : Commits \cup {None}]
        /\ verdict'.is = "step" => verdict'.at \in Commits
        /\ verdict'.is = "done" => /\ verdict'.at = bad' /\ bad' # None
                                   /\ Candidates(bad', good', skip') = {}
    BY <2>1, ComputeLemma
  <2>3. head' \in Commits \cup {Branch}
    BY <1>3, <2>2 DEF Advance, BisectTypeOK
  <2>4. BisectTypeOK'
    BY <1>1, <2>2, <2>3 DEF BisectTypeOK
  <2>5. ASSUME original' # None, verdict'.is = "done"
        PROVE  culprit' = verdict'.at \/ culprit' \in skip'
    <3>1. bad' \in Commits /\ verdict'.at = bad' /\ Candidates(bad', good', skip') = {}
      BY <2>2, <2>5
    <3>2. Broken(culprit', bad') /\ \A g \in good' : ~Broken(culprit', g)
      BY <1>1, <2>5, <3>1, MarksAssumption
         DEF HonestMarks, Broken, ancestors_incl
    <3> QED
      BY <3>1, <3>2, BlameLemma
  <2> QED
    BY <2>4, <2>5 DEF BisectInv, BlameIsSound
<1> QED
  BY <1>2, <1>3

-----------------------------------------------------------------------------
\* No step, killed or not, breaks the invariant.
LEMMA BisectStep == BisectInv /\ [Next]_vars => BisectInv'
<1> SUFFICES ASSUME BisectInv, [Next]_vars PROVE BisectInv'
  OBVIOUS
<1>0. BisectTypeOK /\ HonestMarks /\ BlameIsSound
  BY DEF BisectInv
<1>1. ASSUME NEW n \in 1 .. 4, StartKilled(n) PROVE BisectInv'
  BY <1>0, <1>1
     DEF StartKilled, BisectInv, BisectTypeOK, HonestMarks, BlameIsSound, Silent, history
<1>2. ASSUME NEW k \in Commits, NEW b \in Commits \cup {None}, NEW gs \in SUBSET Commits,
             NEW n \in 0 .. 4, Start(k, b, gs, n)
      PROVE  BisectInv'
  <2>1. /\ bad' \in Commits \cup {None} /\ good' \subseteq Commits /\ skip' \subseteq Commits
        /\ culprit' \in Commits /\ original' \in Commits \cup {Branch, Blank, None}
    BY <1>0, <1>2 DEF Start, BisectTypeOK
  <2>2. HonestMarks'
    BY <1>2 DEF Start, HonestMarks, Broken, ancestors_incl, history
  <2>3. UNCHANGED history /\ Advance(n >= 4) /\ (n >= 4) \in BOOLEAN
    BY <1>2 DEF Start
  <2> QED
    BY <1>0, <2>1, <2>2, <2>3, AdvanceLemma
<1>3. ASSUME NEW c \in Commits, NEW n \in 1 .. 3, MarkBad(c, n) PROVE BisectInv'
  <2>1. /\ bad' \in Commits \cup {None} /\ good' \subseteq Commits /\ skip' \subseteq Commits
        /\ culprit' \in Commits /\ original' \in Commits \cup {Branch, Blank, None}
    BY <1>0, <1>3 DEF MarkBad, Rewritten, BisectTypeOK
  <2>2. HonestMarks'
    BY <1>0, <1>3 DEF MarkBad, Rewritten, HonestMarks, Broken, ancestors_incl, history
  <2>3. UNCHANGED history /\ Advance(n >= 3) /\ (n >= 3) \in BOOLEAN
    BY <1>3 DEF MarkBad
  <2> QED
    BY <1>0, <2>1, <2>2, <2>3, AdvanceLemma
<1>4. ASSUME NEW c \in Commits, NEW n \in 1 .. 3, MarkGood(c, n) PROVE BisectInv'
  <2>1. /\ bad' \in Commits \cup {None} /\ good' \subseteq Commits /\ skip' \subseteq Commits
        /\ culprit' \in Commits /\ original' \in Commits \cup {Branch, Blank, None}
    BY <1>0, <1>4 DEF MarkGood, Rewritten, BisectTypeOK
  <2>2. HonestMarks'
    BY <1>0, <1>4 DEF MarkGood, Rewritten, HonestMarks, Broken, ancestors_incl, history
  <2>3. UNCHANGED history /\ Advance(n >= 3) /\ (n >= 3) \in BOOLEAN
    BY <1>4 DEF MarkGood
  <2> QED
    BY <1>0, <2>1, <2>2, <2>3, AdvanceLemma
<1>5. ASSUME NEW c \in Commits, NEW n \in 1 .. 3, MarkSkip(c, n) PROVE BisectInv'
  <2>1. /\ bad' \in Commits \cup {None} /\ good' \subseteq Commits /\ skip' \subseteq Commits
        /\ culprit' \in Commits /\ original' \in Commits \cup {Branch, Blank, None}
    BY <1>0, <1>5 DEF MarkSkip, Rewritten, BisectTypeOK
  <2>2. HonestMarks'
    BY <1>0, <1>5 DEF MarkSkip, HonestMarks, Broken, ancestors_incl, history
  <2>3. UNCHANGED history /\ Advance(n >= 3) /\ (n >= 3) \in BOOLEAN
    BY <1>5 DEF MarkSkip
  <2> QED
    BY <1>0, <2>1, <2>2, <2>3, AdvanceLemma
<1>6. ASSUME NEW n \in 1 .. 5, Reset(n) PROVE BisectInv'
  <2>1. BisectTypeOK'
    BY <1>0, <1>6 DEF Reset, BisectTypeOK, Silent, history
  <2>2. HonestMarks' /\ BlameIsSound'
    BY <1>0, <1>6 DEF Reset, HonestMarks, BlameIsSound, Broken, ancestors_incl, Silent, history
  <2> QED
    BY <2>1, <2>2 DEF BisectInv
<1>7. CASE UNCHANGED vars
  BY <1>0, <1>7 DEF vars, history, BisectInv, BisectTypeOK, HonestMarks, BlameIsSound,
                    Broken, ancestors_incl
<1> QED
  BY <1>1, <1>2, <1>3, <1>4, <1>5, <1>6, <1>7 DEF Next

\* The invariant holds from the first state on.
LEMMA BisectInit == Init => BisectInv
BY MarksAssumption DEF Init, BisectInv, BisectTypeOK, HonestMarks, BlameIsSound, Silent

\* bisect's files keep their types, whatever is killed (bisect.rs).
THEOREM BisectTypeCorrect == Spec => []BisectTypeOK
<1>1. BisectInv => BisectTypeOK
  BY DEF BisectInv
<1> QED
  BY <1>1, BisectInit, BisectStep, PTL DEF Spec

\* The commit bisect names is the culprit or the culprit was skipped, in any
\* history, after any sequence of sessions, marks and kills (compute).
THEOREM BlameStaysSound == Spec => []BlameIsSound
<1>1. BisectInv => BlameIsSound
  BY DEF BisectInv
<1> QED
  BY <1>1, BisectInit, BisectStep, PTL DEF Spec

-----------------------------------------------------------------------------
(* The history of a commit: the least set that contains it and, with each  *)
(* commit, its parents.                                                    *)

\* Parents are older: how a history is numbered.
ParentsOlder == \A c \in Commits : \A p \in parents[c] : p < c

Below == {p \in Nat \X Nat : p[1] < p[2]}

\* A nonempty set of numbers has a least one.
LEMMA LeastLemma ==
  ASSUME NEW T, T \subseteq Nat, NEW x \in T
  PROVE  \E n \in T : \A m \in T : n <= m
<1>1. Below = OpToRel(<, Nat)
  BY DEF Below, OpToRel
<1>2. IsWellFoundedOn(Below, Nat)
  BY <1>1, NatLessThanWellFounded, Zenon
<1>3. PICK n \in T : \A m \in T : ~(<<m, n>> \in Below)
  BY <1>2, WFMin
<1>4. ASSUME NEW m \in T PROVE n <= m
  <2>1. m \in Nat /\ n \in Nat
    OBVIOUS
  <2>2. ~(m < n)
    BY <1>3, <2>1 DEF Below
  <2> QED
    BY <2>1, <2>2
<1> QED
  BY <1>4

\* T is closed under parents.
Closed(T) == \A m \in T : parents[m] \subseteq T

\* The least closed set of commits that contains c, defined outright.
Least(c) == {m \in Commits : \A T \in SUBSET Commits : c \in T /\ Closed(T) => m \in T}

\* Least solves the equation that defines ancestors_incl.
LEMMA LeastUnfolds ==
  ASSUME parents \in [Commits -> SUBSET Commits], NEW c \in Commits
  PROVE  Least(c) = {c} \cup UNION {Least(p) : p \in parents[c]}
<1> DEFINE R == {c} \cup UNION {Least(p) : p \in parents[c]}
<1>1. parents[c] \subseteq Commits
  OBVIOUS
<1>2. R \subseteq Least(c)
  BY <1>1 DEF Least, Closed
<1>3. R \subseteq Commits /\ c \in R
  BY DEF Least
<1>4. Closed(R)
  <2> SUFFICES ASSUME NEW m \in R, NEW q \in parents[m] PROVE q \in R
    BY DEF Closed
  <2>1. m \in Commits /\ q \in Commits
    BY <1>3
  <2>2. CASE m = c
    BY <1>1, <2>1, <2>2 DEF Least
  <2>3. CASE m # c
    <3>1. PICK p \in parents[c] : m \in Least(p)
      BY <2>3
    <3>2. q \in Least(p)
      BY <2>1, <3>1 DEF Least, Closed
    <3> QED
      BY <3>1, <3>2
  <2> QED
    BY <2>2, <2>3
<1>5. Least(c) \subseteq R
  BY <1>3, <1>4 DEF Least
<1> QED
  BY <1>2, <1>5

\* ancestors_incl computes the least closed set, in any history.
LEMMA AncestorsLeast ==
  ASSUME parents \in [Commits -> SUBSET Commits], ParentsOlder
  PROVE  \A c \in Commits : ancestors_incl(c) = Least(c)
<1> DEFINE Unfold(f) == [d \in Commits |-> {d} \cup UNION {f[p] : p \in parents[d]}]
           g == [d \in Commits |-> Least(d)]
           w == CHOOSE f : f = Unfold(f)
<1>1. g = Unfold(g)
  <2>1. ASSUME NEW d \in Commits
        PROVE  Least(d) = {d} \cup UNION {g[p] : p \in parents[d]}
    <3>1. parents[d] \subseteq Commits
      OBVIOUS
    <3>2. \A p \in parents[d] : g[p] = Least(p)
      BY <3>1
    <3>3. {g[p] : p \in parents[d]} = {Least(p) : p \in parents[d]}
      BY <3>2
    <3> QED
      BY <3>3, LeastUnfolds, Zenon
  <2> QED
    BY <2>1
<1> HIDE DEF g
<1>2. w = Unfold(w)
  <2> HIDE DEF Unfold
  <2> QED
    BY <1>1, Zenon
<1>3. \A c \in Commits : ancestors_incl(c) = Commits \cap w[c]
  BY Zenon DEF ancestors_incl
<1> HIDE DEF w
<1>4. \A d \in Commits : w[d] = {d} \cup UNION {w[p] : p \in parents[d]}
  BY <1>2
<1> DEFINE Bad == {d \in Commits : w[d] # Least(d)}
<1>5. Bad \subseteq Nat
  BY CommitsAssumption DEF Commits
<1>6. ASSUME NEW d \in Bad, \A e \in Bad : d <= e PROVE FALSE
  <2>1. d \in Commits /\ d \in Nat /\ parents[d] \subseteq Commits
    BY <1>5
  <2>2. ASSUME NEW p \in parents[d] PROVE w[p] = Least(p)
    <3>1. p \in Commits /\ p < d /\ p \in Nat
      BY <2>1, CommitsAssumption DEF ParentsOlder, Commits
    <3> QED
      BY <1>6, <2>1, <3>1
  <2>3. {w[p] : p \in parents[d]} = {Least(p) : p \in parents[d]}
    BY <2>2
  <2>4. w[d] = Least(d)
    BY <1>4, <2>1, <2>3, LeastUnfolds, Zenon
  <2> QED
    BY <2>4
<1>7. Bad = {}
  <2> SUFFICES ASSUME NEW x \in Bad PROVE FALSE
    OBVIOUS
  <2> HIDE DEF Bad
  <2> QED
    BY <1>5, <1>6, LeastLemma
<1>8. \A c \in Commits : Least(c) \subseteq Commits
  BY DEF Least
<1> QED
  BY <1>3, <1>7, <1>8

\* What a history contains: the commit, and the histories of its parents; it is
\* closed, least, and no newer than the commit.
LEMMA AncestorsLemma ==
  ASSUME parents \in [Commits -> SUBSET Commits], ParentsOlder, NEW c \in Commits
  PROVE  /\ c \in ancestors_incl(c) /\ ancestors_incl(c) \subseteq Commits
         /\ Closed(ancestors_incl(c))
         /\ \A d \in ancestors_incl(c) : d <= c /\ ancestors_incl(d) \subseteq ancestors_incl(c)
         /\ \A T \in SUBSET Commits : c \in T /\ Closed(T) => ancestors_incl(c) \subseteq T
         /\ \A d \in ancestors_incl(c) : d # c => \E p \in parents[c] : d \in ancestors_incl(p)
<1>0. \A d \in Commits : ancestors_incl(d) = Least(d)
  BY AncestorsLeast
<1>1. \A d \in Commits : parents[d] \subseteq Commits
  OBVIOUS
<1>2. c \in Least(c) /\ Least(c) \subseteq Commits
  BY DEF Least
<1>3. Closed(Least(c))
  BY <1>1 DEF Least, Closed
<1>4. \A T \in SUBSET Commits : c \in T /\ Closed(T) => Least(c) \subseteq T
  BY DEF Least
<1>5. \A d \in Least(c) : Least(d) \subseteq Least(c)
  BY <1>2, <1>3 DEF Least
<1>6. \A d \in Least(c) : d <= c
  <2> DEFINE T == {d \in Commits : d <= c}
  <2>1. c \in T
    BY CommitsAssumption DEF Commits
  <2>2. ASSUME NEW m \in T, NEW p \in parents[m] PROVE p \in T
    <3>1. p \in Commits /\ p < m /\ m <= c
      BY <1>1 DEF ParentsOlder
    <3> QED
      BY <3>1, CommitsAssumption DEF Commits
  <2>3. T \in SUBSET Commits /\ Closed(T)
    BY <2>2 DEF Closed
  <2> QED
    BY <1>4, <2>1, <2>3
<1>7. \A d \in Least(c) : d # c => \E p \in parents[c] : d \in Least(p)
  BY LeastUnfolds
<1> QED
  BY <1>0, <1>1, <1>2, <1>3, <1>4, <1>5, <1>6, <1>7

-----------------------------------------------------------------------------
(* The search halves: on a line the suspects are ordered, and one of them  *)
(* other than the bad commit stands in the middle.                         *)

\* A set with at most one element has no two.
LEMMA AtMostOne ==
  ASSUME NEW S, IsFiniteSet(S), Cardinality(S) <= 1, NEW p \in S, NEW q \in S
  PROVE  p = q
<1> SUFFICES ASSUME p # q PROVE FALSE
  OBVIOUS
<1> DEFINE P == {p}
           Q == P \cup {q}
<1>1. IsFiniteSet(P) /\ Cardinality(P) = 1
  BY FS_Singleton, Zenon
<1>2. q \notin P /\ Q \in SUBSET S
  OBVIOUS
<1> HIDE DEF P
<1>3. Cardinality(Q) = Cardinality(P) + 1
  BY <1>1, <1>2, FS_AddElement, Zenon
<1> HIDE DEF Q
<1>4. Cardinality(Q) <= Cardinality(S)
  BY <1>2, FS_Subset, Zenon
<1>5. Cardinality(S) \in Nat
  BY FS_CardinalityType, Zenon
<1> QED
  BY <1>1, <1>3, <1>4, <1>5

\* Of two commits of a line, the older is in the history of the newer.
LEMMA LineLemma ==
  ASSUME parents \in [Commits -> SUBSET Commits], ParentsOlder, NEW b \in Commits, Linear(b),
         NEW x \in ancestors_incl(b), NEW y \in ancestors_incl(b), y <= x
  PROVE  y \in ancestors_incl(x)
<1>0. \A d \in Commits : parents[d] \subseteq Commits /\ IsFiniteSet(parents[d])
  <2>1. IsFiniteSet(Commits)
    BY CommitsAssumption, FS_Interval DEF Commits
  <2> QED
    BY <2>1, FS_Subset
<1>1. x \in Commits /\ y \in Commits /\ x \in Nat /\ y \in Nat
  BY AncestorsLemma, CommitsAssumption DEF Commits
<1>2. ASSUME NEW d \in ancestors_incl(b), NEW p \in parents[d], NEW q \in parents[d]
      PROVE  p = q
  <2>1. d \in Commits /\ Cardinality(parents[d]) <= 1
    BY AncestorsLemma DEF Linear
  <2>2. IsFiniteSet(parents[d])
    BY <1>0, <2>1
  <2> QED
    BY <2>1, <2>2, AtMostOne
<1> DEFINE T == {z \in ancestors_incl(b) : y \in ancestors_incl(z) \/ z \in ancestors_incl(y)}
<1>3. b \in T /\ T \in SUBSET Commits
  BY AncestorsLemma
<1>4. ASSUME NEW z \in T, NEW p \in parents[z] PROVE p \in T
  <2>1. z \in Commits /\ p \in ancestors_incl(b) /\ p \in Commits
    BY <1>0, <1>3, AncestorsLemma DEF Closed
  <2>2. CASE z \in ancestors_incl(y)
    <3>1. p \in ancestors_incl(y)
      BY <1>1, <2>2, AncestorsLemma DEF Closed
    <3> QED
      BY <2>1, <3>1
  <2>3. CASE y \in ancestors_incl(z) /\ z # y
    <3>1. PICK q \in parents[z] : y \in ancestors_incl(q)
      BY <2>1, <2>3, AncestorsLemma
    <3>2. q = p
      BY <1>2, <3>1
    <3> QED
      BY <2>1, <3>1, <3>2
  <2>4. y \in ancestors_incl(y)
    BY <1>1, AncestorsLemma
  <2> QED
    BY <2>2, <2>3, <2>4
<1>5. Closed(T)
  BY <1>4 DEF Closed
<1>6. x \in T
  BY <1>3, <1>5, AncestorsLemma
<1>7. x \in ancestors_incl(y) => x <= y
  BY <1>1, AncestorsLemma
<1> QED
  BY <1>1, <1>6, <1>7, AncestorsLemma

\* The numbers of S up to x.
UpTo(S, x) == {y \in S : y <= x}

\* A set of two numbers or more has one that splits it in the middle.
LEMMA MiddleLemma ==
  ASSUME NEW S \in SUBSET Commits, NEW b \in S, \A x \in S : x <= b, Cardinality(S) >= 2
  PROVE  \E d \in S : /\ d # b /\ 2 * Cardinality(UpTo(S, d)) <= Cardinality(S)
                      /\ Cardinality(S) <= 2 * Cardinality(UpTo(S, d)) + 1
<1>0. IsFiniteSet(S) /\ Cardinality(S) \in Nat
  <2>1. IsFiniteSet(Commits)
    BY CommitsAssumption, FS_Interval DEF Commits
  <2> QED
    BY <2>1, FS_Subset, FS_CardinalityType
<1>1. \A x \in S : x \in Nat
  BY CommitsAssumption DEF Commits
<1>2. \A x \in S : IsFiniteSet(UpTo(S, x)) /\ Cardinality(UpTo(S, x)) \in Nat
  BY <1>0, FS_Subset, FS_CardinalityType DEF UpTo
<1> DEFINE T == {x \in S : Cardinality(S) <= 2 * Cardinality(UpTo(S, x)) + 1}
<1>3. UpTo(S, b) = S
  BY DEF UpTo
<1>4. b \in T
  BY <1>0, <1>3
<1>5. T \subseteq Nat
  BY <1>1
<1>6. PICK d \in T : \A e \in T : d <= e
  <2> HIDE DEF T
  <2> QED
    BY <1>4, <1>5, LeastLemma
<1>7. d \in S /\ d \in Nat /\ Cardinality(S) <= 2 * Cardinality(UpTo(S, d)) + 1
  BY <1>1, <1>6
<1> DEFINE P == UpTo(S, d) \ {d}
<1>8. Cardinality(UpTo(S, d)) = Cardinality(P) + 1 /\ IsFiniteSet(P) /\ Cardinality(P) \in Nat
  <2>1. d \in UpTo(S, d) /\ IsFiniteSet(UpTo(S, d)) /\ Cardinality(UpTo(S, d)) \in Nat
    BY <1>2, <1>7 DEF UpTo
  <2>2. IsFiniteSet(P) /\ Cardinality(P) = Cardinality(UpTo(S, d)) - 1
    BY <2>1, FS_RemoveElement, Zenon
  <2>3. Cardinality(P) \in Nat
    BY <2>2, FS_CardinalityType, Zenon
  <2> HIDE DEF P
  <2> QED
    BY <2>1, <2>2, <2>3
<1>9. 2 * Cardinality(UpTo(S, d)) <= Cardinality(S)
  <2>1. CASE P = {}
    BY <1>0, <1>8, <2>1, FS_EmptySet
  <2>2. CASE P # {}
    <3> DEFINE Q == {b - x : x \in P}
    <3>1. \A x \in P : x \in S /\ x \in Nat /\ x < d /\ x <= b
      BY <1>1, <1>7 DEF UpTo
    <3>2. b \in Nat
      BY <1>1
    <3>3. Q \subseteq Nat
      BY <3>1, <3>2
    <3>4. PICK n \in Q : \A m \in Q : n <= m
      <4>1. PICK q : q \in Q
        BY <2>2
      <4> HIDE DEF Q
      <4> QED
        BY <3>3, <4>1, LeastLemma
    <3>5. PICK e \in P : n = b - e
      BY <3>4
    <3>6. ASSUME NEW x \in P PROVE x <= e
      <4>1. b - e <= b - x
        BY <3>4, <3>5
      <4>2. x \in Nat /\ e \in Nat
        BY <3>1
      <4> QED
        BY <3>2, <4>1, <4>2
    <3>7. UpTo(S, e) = P
      <4>1. ASSUME NEW x \in UpTo(S, e) PROVE x \in P
        <5>1. x \in S /\ x <= e /\ x \in Nat /\ e \in Nat /\ e < d
          BY <1>1, <3>1 DEF UpTo
        <5> QED
          BY <1>7, <5>1 DEF UpTo
      <4>2. ASSUME NEW x \in P PROVE x \in UpTo(S, e)
        BY <3>1, <3>6 DEF UpTo
      <4> QED
        BY <4>1, <4>2
    <3>8. e \in S /\ e \notin T
      BY <1>6, <1>7, <3>1
    <3> HIDE DEF P
    <3> QED
      BY <1>0, <1>8, <3>7, <3>8
  <2> QED
    BY <2>1, <2>2
<1>10. d # b
  BY <1>0, <1>3, <1>9
<1> QED
  BY <1>7, <1>9, <1>10

\* A best candidate of a line has at most half of the suspects (rounded up) on
\* either side.
LEMMA SplitLemma ==
  ASSUME parents \in [Commits -> SUBSET Commits], ParentsOlder, NEW b \in Commits,
         NEW gs \in SUBSET Commits, Linear(b), NEW c \in Best(b, gs, {})
  PROVE  LET S == Suspects(b, gs)
         IN  /\ 2 * Cardinality(ancestors_incl(c) \cap S) <= Cardinality(S) + 1
             /\ 2 * Cardinality(S \ ancestors_incl(c)) <= Cardinality(S) + 1
<1> DEFINE S == Suspects(b, gs)
           n == Cardinality(ancestors_incl(c) \cap S)
           m == Cardinality(S)
<1>1. c \in S /\ c # b
  BY DEF Best, Candidates
<1>2. S \in SUBSET Commits /\ S \subseteq ancestors_incl(b) /\ \A x \in S : x <= b
  BY AncestorsLemma DEF Suspects
<1>3. b \in S
  <2>1. ASSUME NEW g \in gs, b \in ancestors_incl(g) PROVE FALSE
    BY <1>1, <1>2, <2>1, AncestorsLemma DEF Suspects, Exonerated
  <2> QED
    BY <2>1, AncestorsLemma DEF Suspects, Exonerated
<1>4. IsFiniteSet(S) /\ m \in Nat
  <2>1. IsFiniteSet(Commits)
    BY CommitsAssumption, FS_Interval DEF Commits
  <2> QED
    BY <1>2, <2>1, FS_Subset, FS_CardinalityType
<1>5. n \in Nat /\ n <= m
  <2>1. /\ IsFiniteSet(ancestors_incl(c) \cap S)
        /\ Cardinality(ancestors_incl(c) \cap S) <= Cardinality(S)
    BY <1>4, FS_Intersection, Zenon
  <2> QED
    BY <2>1, FS_CardinalityType
<1>6. m >= 2
  <2>1. IsFiniteSet({b}) /\ Cardinality({b}) = 1 /\ c \notin {b}
    BY <1>1, FS_Singleton
  <2>2. Cardinality({b} \cup {c}) = Cardinality({b}) + 1
    BY <2>1, FS_AddElement, Zenon
  <2>3. {b} \cup {c} \in SUBSET S
    BY <1>1, <1>3
  <2>4. Cardinality({b} \cup {c}) <= m
    BY <1>4, <2>3, FS_Subset
  <2>5. Cardinality({b} \cup {c}) = 2
    BY <2>1, <2>2
  <2> HIDE DEF m
  <2> QED
    BY <1>4, <2>4, <2>5
<1>7. PICK d \in S : /\ d # b /\ 2 * Cardinality(UpTo(S, d)) <= m
                     /\ m <= 2 * Cardinality(UpTo(S, d)) + 1
  <2> HIDE DEF S
  <2> QED
    BY <1>2, <1>3, <1>6, MiddleLemma
<1>8. ancestors_incl(d) \cap S = UpTo(S, d)
  <2>1. d \in Commits /\ d \in ancestors_incl(b)
    BY <1>2
  <2>2. \A x \in ancestors_incl(d) \cap S : x <= d
    BY <2>1, AncestorsLemma
  <2>3. \A x \in S : x <= d => x \in ancestors_incl(d)
    BY <1>2, <2>1, LineLemma
  <2> QED
    BY <2>2, <2>3 DEF UpTo
<1> DEFINE r == Cardinality(UpTo(S, d))
<1>9. r \in Nat
  <2>1. IsFiniteSet(UpTo(S, d))
    BY <1>4, FS_Subset DEF UpTo
  <2> QED
    BY <2>1, FS_CardinalityType
<1>10. Score(d, S) = r
  <2>1. Score(d, S) = IF r <= m - r THEN r ELSE m - r
    BY <1>8, Zenon DEF Score
  <2> HIDE DEF m, r
  <2> QED
    BY <1>4, <1>7, <1>9, <2>1 DEF m, r
<1>11. Score(d, S) <= Score(c, S)
  BY <1>7 DEF Best, Candidates
<1>12. Score(c, S) = IF n <= m - n THEN n ELSE m - n
  BY DEF Score
<1>13. Cardinality(S \ ancestors_incl(c)) = m - n
  <2>1. S \cap ancestors_incl(c) = ancestors_incl(c) \cap S
    OBVIOUS
  <2> QED
    BY <1>4, <2>1, FS_Difference, ZenonT(60)
<1>14. 2 * r <= m /\ m <= 2 * r + 1 /\ r <= (IF n <= m - n THEN n ELSE m - n)
  BY <1>7, <1>10, <1>11, <1>12
<1>15. 2 * n <= m + 1 /\ 2 * (m - n) <= m + 1
  <2> HIDE DEF n, m, r
  <2> QED
    BY <1>4, <1>5, <1>9, <1>14
<1> QED
  BY <1>13, <1>15

-----------------------------------------------------------------------------
\* The commit under test was chosen from the marks as they are.
TestIsCurrent ==
  verdict.is = "step" => bad \in Commits /\ verdict.at \in Best(bad, good, skip)

SearchInv == BisectInv /\ ParentsOlder /\ TestIsCurrent

\* A command that goes on to bisect_advance leaves a test chosen from its marks.
LEMMA AdvanceIsCurrent ==
  ASSUME NEW done \in BOOLEAN, Advance(done), UNCHANGED history, bad' \in Commits \cup {None}
  PROVE  TestIsCurrent'
<1>1. parents' = parents
  BY DEF history
<1>2. CASE ~done
  BY <1>2 DEF Advance, Silent, TestIsCurrent
<1>3. CASE done
  <2>1. verdict' \in compute(bad', good', skip')
    BY <1>3 DEF Advance
  <2>2. ASSUME verdict'.is = "step" PROVE bad' \in Commits /\ verdict'.at \in Best(bad', good', skip')
    <3>1. verdict' # NeedMarks /\ verdict' # Done(bad')
      BY <2>2 DEF NeedMarks, Done
    <3>2. bad' # None /\ verdict' \in {Testing(c) : c \in Best(bad', good', skip')}
      BY <2>1, <3>1 DEF compute
    <3> QED
      BY <3>2 DEF Testing
  <2>3. Best(bad', good', skip') = Best(bad, good, skip)'
    BY <1>1 DEF Best, Candidates, Suspects, Exonerated, Score, ancestors_incl
  <2> QED
    BY <2>2, <2>3, Zenon DEF TestIsCurrent
<1> QED
  BY <1>2, <1>3

\* No step, killed or not, leaves a test that is out of date.
LEMMA SearchStep == SearchInv /\ [Next]_vars => SearchInv'
<1> SUFFICES ASSUME SearchInv, [Next]_vars PROVE SearchInv'
  OBVIOUS
<1>0. BisectInv /\ BisectTypeOK /\ ParentsOlder /\ TestIsCurrent
  BY DEF SearchInv, BisectInv
<1>1. BisectInv' /\ BisectTypeOK'
  BY <1>0, BisectStep DEF BisectInv
<1>2. parents' = parents
  BY DEF Next, StartKilled, Start, MarkBad, MarkGood, MarkSkip, Reset, vars, history
<1>3. ParentsOlder'
  BY <1>0, <1>2 DEF ParentsOlder
<1>4. bad' \in Commits \cup {None}
  BY <1>1 DEF BisectTypeOK
<1>5. ASSUME NEW n \in 1 .. 4, StartKilled(n) PROVE TestIsCurrent'
  BY <1>5 DEF StartKilled, Silent, TestIsCurrent
<1>6. ASSUME NEW k \in Commits, NEW b \in Commits \cup {None}, NEW gs \in SUBSET Commits,
             NEW n \in 0 .. 4, Start(k, b, gs, n)
      PROVE  TestIsCurrent'
  <2>1. UNCHANGED history /\ Advance(n >= 4) /\ (n >= 4) \in BOOLEAN
    BY <1>6 DEF Start
  <2> QED
    BY <1>4, <2>1, AdvanceIsCurrent
<1>7. ASSUME NEW c \in Commits, NEW n \in 1 .. 3, MarkBad(c, n) \/ MarkGood(c, n) \/ MarkSkip(c, n)
      PROVE  TestIsCurrent'
  <2>1. UNCHANGED history /\ Advance(n >= 3) /\ (n >= 3) \in BOOLEAN
    BY <1>7 DEF MarkBad, MarkGood, MarkSkip
  <2> QED
    BY <1>4, <2>1, AdvanceIsCurrent
<1>8. ASSUME NEW n \in 1 .. 5, Reset(n) PROVE TestIsCurrent'
  BY <1>8 DEF Reset, Silent, TestIsCurrent
<1>9. ASSUME UNCHANGED vars PROVE TestIsCurrent'
  <2>1. /\ parents' = parents /\ bad' = bad /\ good' = good /\ skip' = skip
        /\ verdict' = verdict
    BY <1>9 DEF vars, history
  <2>2. Best(bad, good, skip)' = Best(bad, good, skip)
    BY <2>1 DEF Best, Candidates, Suspects, Exonerated, Score, ancestors_incl
  <2> QED
    BY <1>0, <2>1, <2>2 DEF TestIsCurrent
<1>10. TestIsCurrent'
  BY <1>5, <1>6, <1>7, <1>8, <1>9 DEF Next
<1> QED
  BY <1>1, <1>3, <1>10 DEF SearchInv

\* The search halves in every linear history: the answer for the commit under
\* test, good or bad, leaves at most half of the suspects, rounded up (compute,
\* bisect_advance).
THEOREM SearchHalves == Spec => Halves
<1>1. Init => SearchInv
  <2> SUFFICES ASSUME Init PROVE SearchInv
    OBVIOUS
  <2>1. BisectInv
    BY BisectInit
  <2>2. ParentsOlder
    BY DEF Init, ParentsOlder
  <2>3. TestIsCurrent
    BY DEF Init, TestIsCurrent, Silent
  <2> QED
    BY <2>1, <2>2, <2>3 DEF SearchInv
<1>2. ASSUME SearchInv, verdict.is = "step", skip = {}, Linear(bad),
             MarkBad(verdict.at, 3) \/ MarkGood(verdict.at, 3)
      PROVE  2 * Cardinality(Suspects(bad', good')) <= Cardinality(Suspects(bad, good)) + 1
  <2>1. /\ parents \in [Commits -> SUBSET Commits] /\ ParentsOlder /\ good \in SUBSET Commits
        /\ bad \in Commits /\ verdict.at \in Best(bad, good, {})
    BY <1>2 DEF SearchInv, BisectInv, BisectTypeOK, TestIsCurrent
  <2> DEFINE c == verdict.at
             S == Suspects(bad, good)
  <2>2. /\ 2 * Cardinality(ancestors_incl(c) \cap S) <= Cardinality(S) + 1
        /\ 2 * Cardinality(S \ ancestors_incl(c)) <= Cardinality(S) + 1
    BY <1>2, <2>1, SplitLemma
  <2>3. c \in S /\ c \in ancestors_incl(bad) /\ c \notin Exonerated(good) /\ c \in Commits
    BY <2>1, AncestorsLemma DEF Best, Candidates, Suspects
  <2>4. c \in ancestors_incl(c) /\ ancestors_incl(c) \subseteq ancestors_incl(bad)
    BY <2>1, <2>3, AncestorsLemma
  <2>5. CASE MarkBad(c, 3)
    <3>1. bad' = c /\ good' = good
      BY <2>5 DEF MarkBad, Rewritten
    <3>2. Suspects(bad', good') = ancestors_incl(c) \cap S
      BY <2>4, <3>1 DEF Suspects
    <3> QED
      BY <2>2, <3>2
  <2>6. CASE MarkGood(c, 3)
    <3>1. c \notin good
      <4>1. c \in good => c \in Exonerated(good)
        BY <2>4 DEF Exonerated
      <4> QED
        BY <2>3, <4>1
    <3>2. bad' = bad /\ good' = good \cup {c}
      BY <2>6, <3>1 DEF MarkGood, Rewritten
    <3>3. Suspects(bad', good') = S \ ancestors_incl(c)
      BY <3>2 DEF Suspects, Exonerated
    <3> QED
      BY <2>2, <3>3
  <2> QED
    BY <1>2, <2>5, <2>6
<1>3. SearchInv => [ (/\ verdict.is = "step" /\ verdict'.is \in {"step", "done"}
                      /\ original' = original /\ skip = {} /\ skip' = {} /\ Linear(bad)
                      /\ MarkBad(verdict.at, 3) \/ MarkGood(verdict.at, 3))
                     => 2 * Cardinality(Suspects(bad', good'))
                          <= Cardinality(Suspects(bad, good)) + 1 ]_vars
  BY <1>2
<1> QED
  BY <1>1, <1>3, SearchStep, PTL DEF Spec, Halves

=============================================================================
