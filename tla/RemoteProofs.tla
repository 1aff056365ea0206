---------------------------- MODULE RemoteProofs ----------------------------
(***************************************************************************)
(* Proofs about Remote.tla: what the server publishes, what a client's     *)
(* branch names and what a finished fetch has are complete, for any number *)
(* of clients, commits and leaves, and any depth of a shallow clone.       *)
(*                                                                         *)
(* The strengthening says what each command has on the way there: a push   *)
(* has put everything it does not list any more (Pushing), a fetch that is *)
(* done has what it visited (Arrived), the server keeps what lies behind   *)
(* the boundary of a shallow clone (Backed), and a clone that is not done  *)
(* has no branch and no boundary (Cloning).                                *)
(***************************************************************************)
EXTENDS Remote, FiniteSetTheorems, SequenceTheorems, WellFoundedInduction, TLAPS

\* All that commit n consists of.
Parts(n) == {Commit(n), TreeOf(n), LeafOf(n)}

\* Which commands are in which mode.
Phases(c) ==
  /\ proc[c].pc \in {"none", "idle", "put"} => proc[c].mode = "none"
  /\ proc[c].pc \in {"get", "record", "mark"} => proc[c].mode # "none" /\ proc[c].tip # 0
  /\ proc[c].pc = "mark" => proc[c].mode \in {"shallow", "partial"} /\ branch[c] = proc[c].tip

\* A clone has no branch before it is recorded, and no boundary.
Cloning(c) ==
  proc[c].pc = "none" \/ proc[c].mode \in {"full", "shallow", "partial"} =>
    shallow[c] = {} /\ (proc[c].pc # "mark" => branch[c] = 0)

\* What a push has listed is on the server or still to be put there.
Pushing(c) ==
  proc[c].pc = "put" =>
    /\ proc[c].tip = branch[c] /\ branch[c] # 0
    /\ \A m \in History(c)[branch[c]] : Parts(m) \subseteq store[Server] \cup proc[c].todo

\* What a fetch that is done has.
Arrived(c) ==
  proc[c].pc \in {"record", "mark"} =>
    IF proc[c].mode = "shallow" THEN \A n \in Visited(c) : Parts(n) \subseteq store[c]
    ELSE Complete(c, proc[c].tip, proc[c].mode = "partial")

\* The server has all that a shallow clone has left out.
Backed(c) ==
  /\ proc[c].mode = "shallow" => Complete(Server, proc[c].tip, FALSE)
  /\ \A b \in shallow[c] : Complete(Server, b, FALSE)

Holding(c) ==
  /\ Phases(c) /\ Cloning(c) /\ Pushing(c) /\ Arrived(c) /\ Backed(c)
  /\ proc[c].pc # "mark" => Complete(c, branch[c], partial[c])

\* The inductive invariant.
RemoteInv ==
  /\ RemoteTypeOK
  /\ shallow[Server] = {}
  /\ Complete(Server, branch[Server], FALSE)
  /\ \A c \in Clients : Holding(c)

-----------------------------------------------------------------------------
(* Walks: the least sets that are closed under the parents they follow.     *)

Below == {p \in Nat \X Nat : p[1] < p[2]}

\* A nonempty set of numbers has a least one.
LEMMA LeastLemma ==
  ASSUME NEW T, T \subseteq Nat, NEW x \in T
  PROVE  \E n \in T : \A m \in T : n <= m
<1>1. Below = OpToRel(<, Nat)
  BY DEF Below, OpToRel
<1>2. IsWellFoundedOn(Below, Nat)
  BY <1>1, NatLessThanWellFounded, Zenon
<1>3. PICK n \in T : \A m \in T : ~(<<m, n>> \in Below)
  BY <1>2, WFMin
<1>4. ASSUME NEW m \in T PROVE n <= m
  <2>1. m \in Nat /\ n \in Nat
    OBVIOUS
  <2>2. ~(m < n)
    BY <1>3, <2>1 DEF Below
  <2> QED
    BY <2>1, <2>2
<1> QED
  BY <1>4

\* The parents a walk follows are older commits, or none.
LEMMA ParentLemma ==
  ASSUME RemoteTypeOK, NEW r \in Repos, NEW n \in DOMAIN commits
  PROVE  /\ n \in 1 .. MaxCommits /\ n \in Nat
         /\ ParentOf(r, n) \in 0 .. MaxCommits /\ ParentOf(r, n) < n
         /\ ParentOf(r, n) \in DOMAIN commits \cup {0}
<1>1. Len(commits) \in Nat /\ DOMAIN commits = 1 .. Len(commits)
  BY DEF RemoteTypeOK
<1>2. commits \in Seq([parent : 0 .. MaxCommits, leaf : Leaves]) /\ commits[n].parent < n
  BY DEF RemoteTypeOK
<1>3. commits[n] \in [parent : 0 .. MaxCommits, leaf : Leaves]
  BY <1>1, <1>2, ElementOfSeq
<1> QED
  BY <1>1, <1>2, <1>3, RemoteAssumption DEF RemoteTypeOK, ParentOf

\* T is closed under the parents of those of its commits that are in on.
ClosedIn(r, on, T) ==
  \A m \in T \cap on : m \in DOMAIN commits => ParentOf(r, m) \in T \cup {0}

\* What a walk in r from n meets, on being the commits it goes on from.
Follows(r, on, n, W) ==
  /\ n \in W /\ W \subseteq DOMAIN commits /\ \A m \in W : m <= n
  /\ ClosedIn(r, on, W)
  /\ \A T : n \in T /\ ClosedIn(r, on, T) => W \subseteq T

\* The least closed set that contains n, defined outright.
Least(r, on, n) ==
  {m \in DOMAIN commits : \A T \in SUBSET DOMAIN commits :
     n \in T /\ ClosedIn(r, on, T) => m \in T}

\* The equation that defines a walk has a solution.
LEMMA WalkUnfolds ==
  ASSUME RemoteTypeOK, NEW r \in Repos, NEW on
  PROVE  Walk(r, on) = [n \in 0 .. MaxCommits |->
           IF n \notin DOMAIN commits THEN {}
           ELSE {n} \cup IF n \in on THEN Walk(r, on)[ParentOf(r, n)] ELSE {}]
<1> DEFINE Step(f) == [n \in 0 .. MaxCommits |->
                         IF n \notin DOMAIN commits THEN {}
                         ELSE {n} \cup IF n \in on THEN f[ParentOf(r, n)] ELSE {}]
           g == [n \in 0 .. MaxCommits |-> IF n \notin DOMAIN commits THEN {} ELSE Least(r, on, n)]
<1>1. ASSUME NEW n \in DOMAIN commits
      PROVE  Least(r, on, n) = {n} \cup IF n \in on THEN g[ParentOf(r, n)] ELSE {}
  <2> DEFINE p == ParentOf(r, n)
             rest == IF n \in on THEN g[p] ELSE {}
  <2>1. /\ p \in 0 .. MaxCommits /\ p # n /\ p \in DOMAIN commits \cup {0}
        /\ 0 \notin DOMAIN commits
    BY ParentLemma
  <2>2. g[p] = IF p = 0 THEN {} ELSE Least(r, on, p)
    BY <2>1
  <2> HIDE DEF g
  <2>3. ASSUME NEW T \in SUBSET DOMAIN commits, n \in T, ClosedIn(r, on, T)
        PROVE  rest \subseteq T
    <3>1. n \in on => p \in T \cup {0}
      BY <2>3 DEF ClosedIn
    <3> QED
      BY <2>2, <2>3, <3>1 DEF Least
  <2>4. {n} \cup rest \subseteq DOMAIN commits
    BY <2>2 DEF Least
  <2>5. {n} \cup rest \subseteq Least(r, on, n)
    BY <2>3, <2>4 DEF Least
  <2>6. ClosedIn(r, on, {n} \cup rest)
    <3> SUFFICES ASSUME NEW m \in ({n} \cup rest) \cap on, m \in DOMAIN commits, ParentOf(r, m) # 0
                 PROVE  ParentOf(r, m) \in {n} \cup rest
      BY DEF ClosedIn
    <3>1. ParentOf(r, m) \in DOMAIN commits
      BY ParentLemma
    <3>2. CASE m = n
      <4>1. p # 0 /\ p \in DOMAIN commits /\ n \in on
        BY <3>1, <3>2
      <4>2. p \in Least(r, on, p)
        BY <4>1 DEF Least
      <4> QED
        BY <2>2, <3>2, <4>1, <4>2
    <3>3. CASE m # n
      <4>1. n \in on /\ p # 0 /\ m \in Least(r, on, p)
        BY <2>2, <3>3
      <4>2. ParentOf(r, m) \in Least(r, on, p)
        BY <3>1, <4>1 DEF Least, ClosedIn
      <4> QED
        BY <2>2, <4>1, <4>2
    <3> QED
      BY <3>2, <3>3
  <2>7. Least(r, on, n) \subseteq {n} \cup rest
    BY <2>4, <2>6 DEF Least
  <2> QED
    BY <2>5, <2>7
<1>2. g = Step(g)
  BY <1>1
<1>3. Walk(r, on) = CHOOSE f : f = Step(f)
  BY Zenon DEF Walk
<1> HIDE DEF g
<1>4. Walk(r, on) = Step(Walk(r, on))
  <2> HIDE DEF Step
  <2> QED
    BY <1>2, <1>3, Zenon
<1> QED
  BY <1>4, Zenon

\* One step of a walk.
LEMMA WalkSteps ==
  ASSUME RemoteTypeOK, NEW r \in Repos, NEW on
  PROVE  /\ Walk(r, on)[0] = {}
         /\ \A n \in DOMAIN commits :
              Walk(r, on)[n] = {n} \cup IF n \in on THEN Walk(r, on)[ParentOf(r, n)] ELSE {}
<1>1. 0 \in 0 .. MaxCommits /\ 0 \notin DOMAIN commits
  BY RemoteAssumption DEF RemoteTypeOK
<1>2. \A n \in DOMAIN commits : n \in 0 .. MaxCommits
  BY ParentLemma
<1> DEFINE w == Walk(r, on)
<1>3. w = [n \in 0 .. MaxCommits |->
             IF n \notin DOMAIN commits THEN {}
             ELSE {n} \cup IF n \in on THEN w[ParentOf(r, n)] ELSE {}]
  BY WalkUnfolds, Zenon
<1> HIDE DEF w
<1>4. w[0] = {}
  BY <1>1, <1>3
<1>5. \A n \in DOMAIN commits : w[n] = {n} \cup IF n \in on THEN w[ParentOf(r, n)] ELSE {}
  BY <1>2, <1>3
<1> QED
  BY <1>4, <1>5 DEF w

\* What a walk computes.
LEMMA WalkLemma ==
  ASSUME RemoteTypeOK, NEW r \in Repos, NEW on
  PROVE  /\ Walk(r, on)[0] = {}
         /\ \A n \in DOMAIN commits : Follows(r, on, n, Walk(r, on)[n])
<1>1. PICK w : /\ w = Walk(r, on)
               /\ w[0] = {}
               /\ \A n \in DOMAIN commits :
                    w[n] = {n} \cup IF n \in on THEN w[ParentOf(r, n)] ELSE {}
  BY WalkSteps
<1> DEFINE Bad == {n \in DOMAIN commits : ~Follows(r, on, n, w[n])}
<1>2. Bad \subseteq Nat
  BY ParentLemma
<1>3. ASSUME NEW n \in Bad, \A k \in Bad : n <= k PROVE FALSE
  <2> DEFINE p == ParentOf(r, n)
  <2>1. /\ n \in DOMAIN commits /\ n \in Nat /\ p \in Nat /\ p < n
        /\ p \in DOMAIN commits \cup {0}
    BY ParentLemma
  <2>2. CASE n \in on /\ p # 0
    <3>1. p \in DOMAIN commits /\ p \notin Bad
      BY <1>3, <2>1, <2>2
    <3>2. Follows(r, on, p, w[p]) /\ w[n] = {n} \cup w[p]
      BY <1>1, <2>2, <3>1
    <3>3. w[n] \subseteq DOMAIN commits /\ \A m \in w[n] : m <= n
      <4>1. \A m \in w[p] : m \in DOMAIN commits /\ m <= p
        BY <3>2 DEF Follows
      <4>2. \A m \in DOMAIN commits : m \in Nat
        BY ParentLemma
      <4> QED
        BY <2>1, <3>2, <4>1, <4>2
    <3>4. ClosedIn(r, on, w[n])
      <4>1. ClosedIn(r, on, w[p]) /\ p \in w[p]
        BY <3>2 DEF Follows
      <4> QED
        BY <3>2, <4>1 DEF ClosedIn
    <3>5. ASSUME NEW T, n \in T, ClosedIn(r, on, T) PROVE w[n] \subseteq T
      <4>1. p \in T
        BY <2>1, <2>2, <3>5 DEF ClosedIn
      <4> QED
        BY <3>2, <3>5, <4>1 DEF Follows
    <3> QED
      BY <3>2, <3>3, <3>4, <3>5 DEF Follows
  <2>3. CASE ~(n \in on /\ p # 0)
    <3>1. w[n] = {n}
      BY <1>1, <2>1, <2>3
    <3> QED
      BY <2>1, <2>3, <3>1 DEF Follows, ClosedIn
  <2> QED
    BY <2>2, <2>3
<1>4. Bad = {}
  <2> SUFFICES ASSUME NEW x \in Bad PROVE FALSE
    OBVIOUS
  <2> HIDE DEF Bad
  <2> QED
    BY <1>2, <1>3, LeastLemma
<1> QED
  BY <1>1, <1>4

\* A walk meets one commit after the other: of any two, the older is met from
\* the newer, so not before the parent of the newer.
LEMMA ChainLemma ==
  ASSUME RemoteTypeOK, NEW r \in Repos, NEW on, NEW n \in DOMAIN commits,
         NEW m \in Walk(r, on)[n], NEW k \in Walk(r, on)[n], k < m
  PROVE  m \in on /\ k <= ParentOf(r, m)
<1>1. PICK w : /\ w = Walk(r, on)
               /\ w[0] = {}
               /\ \A i \in DOMAIN commits :
                    w[i] = {i} \cup IF i \in on THEN w[ParentOf(r, i)] ELSE {}
  BY WalkSteps
<1>2. \A i \in DOMAIN commits : Follows(r, on, i, w[i])
  BY <1>1, WalkLemma
<1> DEFINE Bad == {i \in DOMAIN commits : ~\A x, y \in w[i] : y < x => y \in w[x]}
<1>3. Bad \subseteq Nat
  BY ParentLemma
<1>4. ASSUME NEW i \in Bad, \A j \in Bad : i <= j PROVE FALSE
  <2> DEFINE p == ParentOf(r, i)
  <2>1. i \in DOMAIN commits /\ i \in Nat /\ p \in Nat /\ p < i /\ p \in DOMAIN commits \cup {0}
    BY ParentLemma
  <2>2. PICK x, y \in w[i] : y < x /\ y \notin w[x]
    OBVIOUS
  <2>3. \A j \in w[i] : j \in Nat /\ j <= i
    BY <1>2, <1>3, <2>1, ParentLemma DEF Follows
  <2>4. x # i /\ y # i
    BY <2>1, <2>2, <2>3
  <2>5. x \in w[p] /\ y \in w[p]
    BY <1>1, <2>1, <2>4
  <2>6. p \in DOMAIN commits
    BY <1>1, <2>1, <2>5
  <2>7. p \in Bad
    BY <2>2, <2>5, <2>6
  <2> QED
    BY <1>4, <2>1, <2>7
<1>5. Bad = {}
  <2> SUFFICES ASSUME NEW x \in Bad PROVE FALSE
    OBVIOUS
  <2> HIDE DEF Bad
  <2> QED
    BY <1>3, <1>4, LeastLemma
<1>6. k \in w[m] /\ m \in DOMAIN commits
  BY <1>1, <1>2, <1>5 DEF Follows
<1>7. m \in Nat /\ k # m
  BY <1>6, ParentLemma
<1>8. m \in on /\ k \in w[ParentOf(r, m)]
  BY <1>1, <1>6, <1>7
<1>9. ParentOf(r, m) \in DOMAIN commits
  BY <1>1, <1>6, <1>8, ParentLemma
<1> QED
  BY <1>2, <1>8, <1>9 DEF Follows

\* Histories and walks over what a repository has, as closed sets.
HistoryOK == \A r \in Repos :
  /\ History(r)[0] = {}
  /\ \A n \in DOMAIN commits : Follows(r, DOMAIN commits, n, History(r)[n])
Having(r) == {n \in DOMAIN commits : Commit(n) \in store[r]}
MetOK == \A r \in Repos :
  /\ Met(r)[0] = {}
  /\ \A n \in DOMAIN commits : Follows(r, Having(r), n, Met(r)[n])

LEMMA WalksOK == RemoteTypeOK => HistoryOK /\ MetOK
BY WalkLemma DEF HistoryOK, MetOK, History, Met, Having

LEMMA WalksNext == RemoteTypeOK' => HistoryOK' /\ MetOK'
BY WalksOK, PTL

-----------------------------------------------------------------------------
(* Completeness.                                                            *)

\* A history that is all there, in other words: n is in a closed set of
\* commits that are all there.
LEMMA CompleteBy ==
  ASSUME RemoteTypeOK, NEW r \in Repos, NEW n \in DOMAIN commits \cup {0}, NEW promised,
         NEW T, n # 0 => n \in T,
         \A m \in T : /\ m \in DOMAIN commits => ParentOf(r, m) \in T \cup {0}
                      /\ {Commit(m), TreeOf(m)} \subseteq store[r]
                      /\ LeafOf(m) \in store[r] \/ promised
  PROVE  Complete(r, n, promised)
<1>1. History(r)[n] \subseteq T
  <2>1. CASE n = 0
    BY <2>1, WalksOK DEF HistoryOK
  <2>2. CASE n # 0
    <3>1. Follows(r, DOMAIN commits, n, History(r)[n])
      BY <2>2, WalksOK DEF HistoryOK
    <3> QED
      BY <2>2, <3>1 DEF Follows, ClosedIn
  <2> QED
    BY <2>1, <2>2
<1> QED
  BY <1>1 DEF Complete

LEMMA CompleteByNext ==
  ASSUME RemoteTypeOK', NEW r \in Repos, NEW n, n \in (DOMAIN commits)' \cup {0}, NEW promised,
         NEW T, n # 0 => n \in T,
         \A m \in T : /\ m \in (DOMAIN commits)' => ParentOf(r, m)' \in T \cup {0}
                      /\ Commit(m) \in store'[r] /\ TreeOf(m)' \in store'[r]
                      /\ LeafOf(m)' \in store'[r] \/ promised
  PROVE  Complete(r, n, promised)'
<1>1. (History(r)[n])' \subseteq T
  <2>1. CASE n = 0
    BY <2>1, WalksNext DEF HistoryOK
  <2>2. CASE n # 0
    <3>1. Follows(r, DOMAIN commits, n, History(r)[n])'
      BY <2>2, WalksNext DEF HistoryOK
    <3> QED
      BY <2>2, <3>1 DEF Follows, ClosedIn
  <2> QED
    BY <2>1, <2>2
<1> QED
  BY <1>1 DEF Complete

\* No step changes a commit that was made.
Kept == \A n \in DOMAIN commits : n \in (DOMAIN commits)' /\ commits'[n] = commits[n]

\* The history of a commit stays what it is.
LEMMA HistoryKept ==
  ASSUME RemoteTypeOK, RemoteTypeOK', Kept, NEW r \in Repos, shallow'[r] = shallow[r],
         NEW n \in DOMAIN commits \cup {0}
  PROVE  (History(r)[n])' \subseteq History(r)[n]
<1>1. CASE n = 0
  BY <1>1, WalksNext DEF HistoryOK
<1>2. CASE n # 0
  <2>1. PICK T : T = History(r)[n]
    OBVIOUS
  <2>2. Follows(r, DOMAIN commits, n, T)
    BY <1>2, <2>1, WalksOK DEF HistoryOK
  <2>3. Follows(r, DOMAIN commits, n, History(r)[n])'
    BY <1>2, WalksNext DEF HistoryOK, Kept
  <2>4. \A m \in T : ParentOf(r, m)' = ParentOf(r, m)
    BY <2>2 DEF Follows, ParentOf, Kept
  <2>5. n \in T /\ \A m \in T : ParentOf(r, m)' \in T \cup {0}
    BY <2>2, <2>4 DEF Follows, ClosedIn
  <2> QED
    BY <2>1, <2>3, <2>5 DEF Follows, ClosedIn
<1> QED
  BY <1>1, <1>2

\* A history that is all there stays all there where nothing is collected.
LEMMA CompleteKept ==
  ASSUME RemoteTypeOK, RemoteTypeOK', Kept, NEW r \in Repos, shallow'[r] = shallow[r],
         store[r] \subseteq store'[r],
         NEW n \in DOMAIN commits \cup {0}, NEW promised, Complete(r, n, promised)
  PROVE  Complete(r, n, promised)'
<1>1. (History(r)[n])' \subseteq History(r)[n]
  BY HistoryKept
<1>2. \A m \in History(r)[n] : m \in DOMAIN commits
  BY WalksOK DEF HistoryOK, Follows
<1>3. \A m \in History(r)[n] : TreeOf(m)' = TreeOf(m) /\ LeafOf(m)' = LeafOf(m)
  BY <1>2 DEF Kept, TreeOf, LeafOf
<1> QED
  BY <1>1, <1>3 DEF Complete

\* A walk over what is there meets all of a history that is all there.
LEMMA MetAll ==
  ASSUME RemoteTypeOK, NEW r \in Repos, NEW n \in DOMAIN commits \cup {0}
  PROVE  /\ Met(r)[n] \subseteq History(r)[n]
         /\ Met(r)[n] \subseteq Having(r) => Met(r)[n] = History(r)[n]
         /\ History(r)[n] \subseteq Having(r) => Met(r)[n] = History(r)[n]
<1>1. CASE n = 0
  BY <1>1, WalksOK DEF HistoryOK, MetOK
<1>2. CASE n # 0
  <2>1. Follows(r, DOMAIN commits, n, History(r)[n]) /\ Follows(r, Having(r), n, Met(r)[n])
    BY <1>2, WalksOK DEF HistoryOK, MetOK
  <2>2. Having(r) \subseteq DOMAIN commits
    BY DEF Having
  <2>3. Met(r)[n] \subseteq History(r)[n]
    BY <2>1, <2>2 DEF Follows, ClosedIn
  <2>4. Met(r)[n] \subseteq Having(r) => History(r)[n] \subseteq Met(r)[n]
    BY <2>1 DEF Follows, ClosedIn
  <2> QED
    BY <2>3, <2>4
<1> QED
  BY <1>1, <1>2

\* Where it is complete, it is what the repository would send or keep.
LEMMA ReachableAll ==
  ASSUME RemoteTypeOK, NEW r \in Repos, NEW n \in DOMAIN commits \cup {0}, NEW promised,
         Complete(r, n, promised)
  PROVE  \A m \in History(r)[n] : Parts(m) \subseteq Reachable(r, n)
<1>1. \A m \in History(r)[n] : m \in Having(r) /\ TreeOf(m) \in store[r]
  BY WalksOK DEF HistoryOK, Follows, Complete, Having
<1>2. Met(r)[n] = History(r)[n]
  BY <1>1, MetAll
<1> QED
  BY <1>1, <1>2 DEF Reachable, Parts, Having

-----------------------------------------------------------------------------
(* What a fetch visits.                                                     *)

\* Min is the least element.
LEMMA MinLemma ==
  ASSUME NEW S, S \subseteq Nat, NEW x \in S
  PROVE  Min(S) \in S /\ \A y \in S : Min(S) <= y
<1>1. \E n \in S : \A m \in S : n <= m
  BY LeastLemma
<1> QED
  BY <1>1 DEF Min

\* A fetch visits the tip, and of what the walk meets all that is not older
\* than the oldest it visits (Newest).
LEMMA VisitedLemma ==
  ASSUME RemoteTypeOK, NEW c \in Clients, proc[c].tip # 0
  PROVE  /\ proc[c].tip \in DOMAIN commits
         /\ Visited(c) \subseteq Met(c)[proc[c].tip] /\ Visited(c) \subseteq DOMAIN commits
         /\ proc[c].tip \in Visited(c)
         /\ proc[c].mode # "shallow" => Visited(c) = Met(c)[proc[c].tip]
         /\ Min(Visited(c)) \in Visited(c)
         /\ \A m \in Visited(c) : Min(Visited(c)) <= m
         /\ \A m \in Met(c)[proc[c].tip] : Min(Visited(c)) <= m => m \in Visited(c)
<1> DEFINE t == proc[c].tip
           W == Met(c)[t]
           From(n) == {m \in W : m >= n}
<1>0. c \in Repos /\ proc[c] \in Commands(Len(commits))
  BY DEF Repos, RemoteTypeOK
<1>1. t \in DOMAIN commits
  <2>1. t \in 0 .. Len(commits)
    BY <1>0 DEF Commands
  <2> QED
    BY <2>1 DEF RemoteTypeOK
<1>2. t \in W /\ W \subseteq DOMAIN commits /\ \A m \in W : m <= t
  BY <1>0, <1>1, WalksOK DEF MetOK, Follows
<1>3. \A m \in DOMAIN commits : m \in 1 .. MaxCommits /\ m \in Nat
  BY <1>0, ParentLemma
<1>4. Visited(c) = IF proc[c].mode = "shallow" THEN {n \in W : Cardinality(From(n)) <= Depth} ELSE W
  BY RemoteAssumption DEF Visited, Newest
<1>5. \A n : IsFiniteSet(From(n)) /\ Cardinality(From(n)) \in Nat
  <2>1. IsFiniteSet(1 .. MaxCommits)
    BY FS_Interval, RemoteAssumption
  <2>2. \A n : From(n) \subseteq 1 .. MaxCommits
    BY <1>2, <1>3
  <2> HIDE DEF From
  <2> QED
    BY <2>1, <2>2, FS_Subset, FS_CardinalityType
<1>6. Cardinality(From(t)) <= Depth
  <2>1. From(t) = {t}
    BY <1>1, <1>2, <1>3
  <2>2. Cardinality({t}) = 1
    BY FS_Singleton
  <2> QED
    BY <2>1, <2>2, RemoteAssumption
<1>7. t \in Visited(c) /\ Visited(c) \subseteq W
  BY <1>2, <1>4, <1>6
<1>8. Min(Visited(c)) \in Visited(c) /\ \A m \in Visited(c) : Min(Visited(c)) <= m
  BY <1>2, <1>3, <1>7, MinLemma
<1>9. ASSUME NEW m \in W, Min(Visited(c)) <= m PROVE m \in Visited(c)
  <2>1. PICK n \in Visited(c) : n = Min(Visited(c)) /\ n <= m
    BY <1>8, <1>9
  <2>2. From(m) \subseteq From(n)
    BY <1>2, <1>3, <1>7, <2>1
  <2> HIDE DEF From
  <2>3. Cardinality(From(m)) <= Cardinality(From(n))
    BY <1>5, <2>2, FS_Subset
  <2> QED
    BY <1>4, <1>5, <1>9, <2>1, <2>3, RemoteAssumption
<1> QED
  BY <1>1, <1>2, <1>4, <1>7, <1>8, <1>9

-----------------------------------------------------------------------------
(* The type invariant.                                                      *)

\* The parts of a commit are objects.
LEMMA PartsLemma ==
  ASSUME RemoteTypeOK, NEW n \in DOMAIN commits
  PROVE  Parts(n) \subseteq Objects
<1>1. commits \in Seq([parent : 0 .. MaxCommits, leaf : Leaves]) /\ n \in 1 .. Len(commits)
  BY DEF RemoteTypeOK
<1>2. commits[n] \in [parent : 0 .. MaxCommits, leaf : Leaves]
  BY <1>1, ElementOfSeq
<1>3. n \in 1 .. MaxCommits /\ commits[n].leaf \in Leaves
  BY <1>1, <1>2, RemoteAssumption DEF RemoteTypeOK
<1> QED
  BY <1>3 DEF Parts, Objects, TreeOf, LeafOf

\* What the branch reaches is objects.
LEMMA ReachableLemma ==
  ASSUME RemoteTypeOK, NEW r \in Repos, NEW n \in DOMAIN commits \cup {0}
  PROVE  Reachable(r, n) \subseteq Objects
<1>1. Met(r)[n] \subseteq DOMAIN commits
  BY WalksOK DEF MetOK, Follows
<1>2. \A m \in Met(r)[n] : Parts(m) \subseteq Objects
  BY <1>1, PartsLemma
<1> QED
  BY <1>2 DEF Reachable, Parts

\* A step that makes no commit keeps the types if it keeps those of what it
\* changes.
LEMMA TypeKept ==
  ASSUME RemoteTypeOK, commits' = commits,
         store' \in [Repos -> SUBSET Objects], branch' \in [Repos -> 0 .. Len(commits)],
         shallow' \in [Repos -> SUBSET DOMAIN commits], partial' \in [Repos -> BOOLEAN],
         proc' \in [Clients -> Commands(Len(commits))]
  PROVE  RemoteTypeOK' /\ Kept
BY DEF RemoteTypeOK, Kept

\* The commands that begin and end.
LEMMA CommandLemma ==
  ASSUME RemoteTypeOK
  PROVE  /\ Idle \in Commands(Len(commits)) /\ NoClone \in Commands(Len(commits))
         /\ \A c \in Clients : Exit(c) => proc' \in [Clients -> Commands(Len(commits))]
         /\ \A c \in Clients, l \in {"record", "mark"} :
              Goto(c, l) => proc' \in [Clients -> Commands(Len(commits))]
<1>1. 0 \in 0 .. Len(commits)
  BY DEF RemoteTypeOK
<1>2. Idle \in Commands(Len(commits)) /\ NoClone \in Commands(Len(commits))
  BY <1>1 DEF Idle, NoClone, Commands
<1>3. proc \in [Clients -> Commands(Len(commits))]
  BY DEF RemoteTypeOK
<1>4. ASSUME NEW c \in Clients, Exit(c) PROVE proc' \in [Clients -> Commands(Len(commits))]
  BY <1>2, <1>3, <1>4 DEF Exit
<1>5. ASSUME NEW c \in Clients, NEW l \in {"record", "mark"}, Goto(c, l)
      PROVE  proc' \in [Clients -> Commands(Len(commits))]
  <2>1. [proc[c] EXCEPT !.pc = l] \in Commands(Len(commits))
    BY <1>3 DEF Commands
  <2>2. proc' = [proc EXCEPT ![c] = [proc[c] EXCEPT !.pc = l]]
    BY <1>3, <1>5 DEF Goto
  <2> QED
    BY <1>3, <2>1, <2>2
<1> QED
  BY <1>2, <1>4, <1>5

\* A commit.
LEMMA MakeCommitType ==
  ASSUME RemoteTypeOK, NEW c \in Clients, NEW l \in Leaves, MakeCommit(c, l)
  PROVE  /\ RemoteTypeOK' /\ Kept
         /\ Len(commits') = Len(commits) + 1 /\ (DOMAIN commits)' = DOMAIN commits \cup {Len(commits) + 1}
         /\ commits'[Len(commits) + 1] = [parent |-> branch[c], leaf |-> l]
<1> DEFINE R == [parent : 0 .. MaxCommits, leaf : Leaves]
           x == [parent |-> branch[c], leaf |-> l]
           L == Len(commits)
<1>1. commits \in Seq(R) /\ L \in Nat /\ L < MaxCommits /\ DOMAIN commits = 1 .. L
  BY DEF MakeCommit, RemoteTypeOK
<1>2. c \in Repos /\ branch[c] \in 0 .. L
  BY DEF Repos, RemoteTypeOK
<1>3. x \in R
  BY <1>1, <1>2, RemoteAssumption
<1>4. commits' = Append(commits, x)
  BY DEF MakeCommit
<1> HIDE DEF R
<1>5. /\ commits' \in Seq(R) /\ Len(commits') = L + 1 /\ DOMAIN commits' = 1 .. L + 1
      /\ \A n \in 1 .. L : commits'[n] = commits[n]
      /\ commits'[L + 1] = x
  <2> HIDE DEF x
  <2> QED
    BY <1>1, <1>3, <1>4
<1> HIDE DEF x
<1>6. DOMAIN commits' = DOMAIN commits \cup {L + 1} /\ Kept
  BY <1>1, <1>5 DEF Kept
<1>7. \A n \in DOMAIN commits' : commits'[n].parent < n
  <2>1. \A n \in 1 .. L : commits[n].parent < n
    BY <1>1 DEF RemoteTypeOK
  <2>2. x.parent < L + 1
    BY <1>1, <1>2 DEF x
  <2> QED
    BY <1>1, <1>5, <2>1, <2>2
<1>8. L + 1 \in 1 .. MaxCommits /\ L + 1 <= MaxCommits
  BY <1>1, RemoteAssumption
<1>9. store' \in [Repos -> SUBSET Objects]
  <2>1. {Commit(L + 1), Tree(l), Leaf(l)} \subseteq Objects
    BY <1>8 DEF Objects
  <2> QED
    BY <1>2, <2>1 DEF MakeCommit, RemoteTypeOK
<1>10. branch' \in [Repos -> 0 .. L + 1]
  BY <1>1, <1>2 DEF MakeCommit, RemoteTypeOK
<1>11. shallow' \in [Repos -> SUBSET DOMAIN commits'] /\ partial' \in [Repos -> BOOLEAN]
  BY <1>6 DEF MakeCommit, RemoteTypeOK
<1>12. proc' \in [Clients -> Commands(L + 1)]
  <2>1. Commands(L) \subseteq Commands(L + 1)
    BY <1>1 DEF Commands
  <2> QED
    BY <2>1 DEF MakeCommit, RemoteTypeOK
<1>13. RemoteTypeOK'
  BY <1>5, <1>7, <1>8, <1>9, <1>10, <1>11, <1>12 DEF RemoteTypeOK, R
<1> QED
  BY <1>5, <1>6, <1>13 DEF x

-----------------------------------------------------------------------------
(* What a step leaves alone.                                                *)

\* What a client has does not change by what the others do.
LEMMA MetKept ==
  ASSUME RemoteTypeOK, RemoteTypeOK', Kept, NEW r \in Repos, shallow'[r] = shallow[r],
         store'[r] = store[r], NEW n \in DOMAIN commits
  PROVE  (Met(r)[n])' = Met(r)[n]
<1>1. PICK A, B : A = Met(r)[n] /\ B = (Met(r)[n])'
  OBVIOUS
<1>2. Follows(r, Having(r), n, A)
  BY <1>1, WalksOK DEF MetOK
<1>3. n \in (DOMAIN commits)'
  BY DEF Kept
<1>4. Follows(r, Having(r), n, Met(r)[n])'
  BY <1>3, WalksNext DEF MetOK
<1>5. /\ n \in B /\ B \subseteq (DOMAIN commits)' /\ \A m \in B : m <= n
      /\ \A m \in B \cap Having(r)' : ParentOf(r, m)' \in B \cup {0}
      /\ \A T : n \in T /\ (\A m \in T \cap Having(r)' : ParentOf(r, m)' \in T \cup {0}) => B \subseteq T
  BY <1>1, <1>4 DEF Follows, ClosedIn
<1>6. B \subseteq DOMAIN commits
  <2>1. DOMAIN commits = 1 .. Len(commits) /\ Len(commits) \in Nat
    BY DEF RemoteTypeOK
  <2>2. (DOMAIN commits)' = 1 .. Len(commits') /\ Len(commits') \in Nat
    BY DEF RemoteTypeOK
  <2> QED
    BY <1>5, <2>1, <2>2
<1>7. \A m \in DOMAIN commits : /\ ParentOf(r, m)' = ParentOf(r, m)
                                /\ m \in Having(r)' <=> m \in Having(r)
  BY DEF Kept, ParentOf, Having
<1>8. A \subseteq DOMAIN commits /\ n \in A
      /\ \A m \in A \cap Having(r) : ParentOf(r, m) \in A \cup {0}
  BY <1>2 DEF Follows, ClosedIn
<1>9. B \subseteq A
  BY <1>5, <1>7, <1>8
<1>10. ClosedIn(r, Having(r), B)
  BY <1>5, <1>6, <1>7 DEF ClosedIn
<1>11. A \subseteq B
  BY <1>2, <1>5, <1>10 DEF Follows
<1> QED
  BY <1>1, <1>9, <1>11

LEMMA PartsKept ==
  ASSUME Kept, NEW n \in DOMAIN commits
  PROVE  Parts(n)' = Parts(n) /\ TreeOf(n)' = TreeOf(n) /\ LeafOf(n)' = LeafOf(n)
BY DEF Kept, Parts, TreeOf, LeafOf

\* Branches and tips are commits, or none.
LEMMA TipLemma ==
  ASSUME RemoteTypeOK
  PROVE  /\ \A r \in Repos : branch[r] \in DOMAIN commits \cup {0} /\ shallow[r] \subseteq DOMAIN commits
         /\ \A c \in Clients : proc[c].tip \in DOMAIN commits \cup {0}
<1>1. DOMAIN commits = 1 .. Len(commits) /\ Len(commits) \in Nat
  BY DEF RemoteTypeOK
<1>2. \A c \in Clients : proc[c].tip \in 0 .. Len(commits)
  BY DEF RemoteTypeOK, Commands
<1> QED
  BY <1>1, <1>2 DEF RemoteTypeOK

\* The server's branch, where the server only receives.
LEMMA ServerKept ==
  ASSUME RemoteInv, RemoteTypeOK', Kept, shallow'[Server] = shallow[Server],
         store[Server] \subseteq store'[Server]
  PROVE  /\ shallow'[Server] = {}
         /\ branch'[Server] = branch[Server] => Complete(Server, branch[Server], FALSE)'
         /\ \A n \in DOMAIN commits \cup {0} : Complete(Server, n, FALSE) => Complete(Server, n, FALSE)'
<1>0. Server \in Repos /\ RemoteTypeOK
  BY DEF Repos, RemoteInv
<1>1. \A n \in DOMAIN commits \cup {0} : Complete(Server, n, FALSE) => Complete(Server, n, FALSE)'
  BY <1>0, CompleteKept
<1>2. PICK n \in DOMAIN commits \cup {0} : n = branch[Server]
  BY <1>0, TipLemma
<1>3. Complete(Server, n, FALSE)'
  BY <1>1, <1>2 DEF RemoteInv
<1> QED
  BY <1>1, <1>2, <1>3 DEF RemoteInv, Complete

\* A client that does nothing, while the server only receives.
LEMMA HoldingKept ==
  ASSUME RemoteInv, RemoteTypeOK', Kept, shallow'[Server] = shallow[Server],
         store[Server] \subseteq store'[Server], NEW d \in Clients,
         proc'[d] = proc[d], branch'[d] = branch[d], shallow'[d] = shallow[d],
         partial'[d] = partial[d], store'[d] = store[d]
  PROVE  Holding(d)'
<1>0. d \in Repos /\ RemoteTypeOK /\ Holding(d)
  BY DEF Repos, RemoteInv
<1>1. PICK b, t \in DOMAIN commits \cup {0} : b = branch[d] /\ t = proc[d].tip
  BY <1>0, TipLemma
<1>2. shallow[d] \subseteq DOMAIN commits
  BY <1>0, TipLemma
<1>3. Phases(d)' /\ Cloning(d)'
  BY <1>0 DEF Holding, Phases, Cloning
<1>4. Pushing(d)'
  <2> SUFFICES ASSUME proc[d].pc = "put"
               PROVE  /\ proc[d].tip = b /\ b # 0
                      /\ \A m \in (History(d)[b])' : Parts(m)' \subseteq store'[Server] \cup proc[d].todo
    BY <1>1 DEF Pushing
  <2>1. /\ proc[d].tip = b /\ b # 0
        /\ \A m \in History(d)[b] : Parts(m) \subseteq store[Server] \cup proc[d].todo
    BY <1>0, <1>1 DEF Holding, Pushing
  <2>2. (History(d)[b])' \subseteq History(d)[b] /\ History(d)[b] \subseteq DOMAIN commits
    BY <1>0, <2>1, HistoryKept, WalksOK DEF HistoryOK, Follows
  <2>3. \A m \in History(d)[b] : Parts(m)' = Parts(m)
    BY <2>2, PartsKept
  <2> QED
    BY <2>1, <2>2, <2>3
<1>5. Arrived(d)'
  <2> SUFFICES ASSUME proc[d].pc \in {"record", "mark"}
               PROVE  IF proc[d].mode = "shallow" THEN \A n \in Visited(d)' : Parts(n)' \subseteq store'[d]
                      ELSE Complete(d, proc[d].tip, proc[d].mode = "partial")'
    BY DEF Arrived
  <2>0. t # 0
    BY <1>0, <1>1 DEF Holding, Phases
  <2>1. CASE proc[d].mode = "shallow"
    <3>1. (Met(d)[t])' = Met(d)[t]
      BY <1>0, <2>0, MetKept
    <3>2. Visited(d)' = Visited(d)
      BY <1>1, <3>1 DEF Visited, Newest
    <3>3. Visited(d) \subseteq DOMAIN commits
      BY <1>0, <1>1, <2>0, VisitedLemma
    <3> QED
      BY <1>0, <2>1, <3>2, <3>3, PartsKept DEF Holding, Arrived
  <2>2. CASE proc[d].mode # "shallow"
    <3>1. PICK q : q = (proc[d].mode = "partial") /\ Complete(d, t, q)
      BY <1>0, <1>1, <2>2 DEF Holding, Arrived
    <3>2. Complete(d, t, q)'
      BY <1>0, <3>1, CompleteKept
    <3> QED
      BY <1>1, <2>2, <3>1, <3>2 DEF Complete
  <2> QED
    BY <2>1, <2>2
<1>6. Backed(d)'
  <2>1. \A n \in DOMAIN commits \cup {0} : Complete(Server, n, FALSE) => Complete(Server, n, FALSE)'
    BY ServerKept
  <2>2. proc[d].mode = "shallow" => Complete(Server, t, FALSE)'
    BY <1>0, <1>1, <2>1 DEF Holding, Backed
  <2>3. \A n \in shallow[d] : Complete(Server, n, FALSE)'
    BY <1>0, <1>2, <2>1 DEF Holding, Backed
  <2> QED
    BY <1>1, <2>2, <2>3 DEF Backed, Complete
<1>7. proc'[d].pc # "mark" => Complete(d, branch[d], partial[d])'
  <2>1. PICK q : q = partial[d]
    OBVIOUS
  <2>2. proc'[d].pc # "mark" => Complete(d, b, q)'
    BY <1>0, <1>1, <2>1, CompleteKept DEF Holding
  <2> QED
    BY <1>1, <2>1, <2>2 DEF Complete
<1> QED
  BY <1>3, <1>4, <1>5, <1>6, <1>7 DEF Holding

\* A step of client c: the server only receives and the others do nothing.
Others(c) ==
  /\ shallow'[Server] = shallow[Server] /\ store[Server] \subseteq store'[Server]
  /\ \A d \in Clients \ {c} :
       /\ proc'[d] = proc[d] /\ branch'[d] = branch[d] /\ shallow'[d] = shallow[d]
       /\ partial'[d] = partial[d] /\ store'[d] = store[d]

LEMMA ClientStep ==
  ASSUME RemoteInv, RemoteTypeOK', Kept, NEW c \in Clients, Others(c), Holding(c)',
         branch'[Server] = branch[Server] \/ Complete(Server, branch[Server], FALSE)'
  PROVE  RemoteInv'
<1>1. \A d \in Clients \ {c} : Holding(d)'
  BY HoldingKept DEF Others
<1>2. shallow'[Server] = {} /\ Complete(Server, branch[Server], FALSE)'
  BY ServerKept DEF Others
<1> QED
  BY <1>1, <1>2 DEF RemoteInv

\* Client c gets objects and leaves its branch and boundary alone.
Grows(c) ==
  /\ Others(c) /\ branch'[Server] = branch[Server] /\ store[c] \subseteq store'[c]
  /\ branch'[c] = branch[c] /\ shallow'[c] = shallow[c] /\ partial'[c] = partial[c]

LEMMA GrowsLemma ==
  ASSUME RemoteInv, RemoteTypeOK', Kept, NEW c \in Clients, Others(c), store[c] \subseteq store'[c],
         branch'[c] = branch[c], shallow'[c] = shallow[c], partial'[c] = partial[c]
  PROVE  /\ \A n \in shallow'[c] : Complete(Server, n, FALSE)'
         /\ proc[c].pc # "mark" => Complete(c, branch[c], partial[c])'
<1>0. c \in Repos /\ RemoteTypeOK /\ Holding(c)
  BY DEF Repos, RemoteInv
<1>1. shallow[c] \subseteq DOMAIN commits /\ branch[c] \in DOMAIN commits \cup {0}
  BY <1>0, TipLemma
<1>2. \A n \in shallow'[c] : Complete(Server, n, FALSE)'
  BY <1>0, <1>1, ServerKept DEF Holding, Backed, Others
<1>3. PICK b, q : b = branch[c] /\ q = partial[c]
  OBVIOUS
<1>4. proc[c].pc # "mark" => Complete(c, b, q)'
  BY <1>0, <1>1, <1>3, CompleteKept DEF Holding
<1> QED
  BY <1>2, <1>3, <1>4 DEF Complete

\* The command goes on, getting.
LEMMA GoOnLemma ==
  ASSUME RemoteInv, RemoteTypeOK', Kept, NEW c \in Clients, Grows(c),
         proc'[c] = proc[c], proc[c].pc \in {"idle", "get"}
  PROVE  RemoteInv'
<1>0. c \in Repos /\ RemoteTypeOK /\ Holding(c)
  BY DEF Repos, RemoteInv
<1>1. /\ \A n \in shallow'[c] : Complete(Server, n, FALSE)'
      /\ Complete(c, branch[c], partial[c])'
  BY GrowsLemma DEF Grows
<1>2. PICK t \in DOMAIN commits \cup {0} : t = proc[c].tip
  BY <1>0, TipLemma
<1>3. proc[c].mode = "shallow" => Complete(Server, t, FALSE)'
  BY <1>0, <1>2, ServerKept DEF Holding, Backed, Grows, Others
<1>4. Phases(c)' /\ Cloning(c)' /\ Pushing(c)' /\ Arrived(c)'
  BY <1>0 DEF Holding, Phases, Cloning, Pushing, Arrived, Grows
<1>5. Backed(c)'
  BY <1>1, <1>2, <1>3 DEF Backed, Complete
<1>6. Holding(c)'
  BY <1>1, <1>4, <1>5 DEF Holding
<1> QED
  BY <1>6, ClientStep DEF Grows

\* It ends, or begins anew.
LEMMA QuitLemma ==
  ASSUME RemoteInv, RemoteTypeOK', Kept, NEW c \in Clients, Grows(c),
         proc'[c] = Idle, proc[c].pc # "mark"
  PROVE  RemoteInv'
<1>1. /\ \A n \in shallow'[c] : Complete(Server, n, FALSE)'
      /\ Complete(c, branch[c], partial[c])'
  BY GrowsLemma DEF Grows
<1>2. proc'[c].pc = "idle" /\ proc'[c].mode = "none"
  BY DEF Idle
<1>3. Phases(c)' /\ Cloning(c)' /\ Pushing(c)' /\ Arrived(c)'
  BY <1>2 DEF Phases, Cloning, Pushing, Arrived
<1>4. Backed(c)'
  BY <1>1, <1>2 DEF Backed
<1>5. Holding(c)'
  BY <1>1, <1>3, <1>4 DEF Holding
<1> QED
  BY <1>5, ClientStep DEF Grows

-----------------------------------------------------------------------------
(* The actions.                                                             *)

LEMMA ClientFacts ==
  ASSUME RemoteInv, NEW c \in Clients
  PROVE  /\ c \in Repos /\ Server \in Repos /\ c # Server /\ RemoteTypeOK /\ Holding(c)
         /\ Phases(c) /\ Cloning(c)
         /\ store \in [Repos -> SUBSET Objects] /\ branch \in [Repos -> 0 .. Len(commits)]
         /\ shallow \in [Repos -> SUBSET DOMAIN commits] /\ partial \in [Repos -> BOOLEAN]
         /\ proc \in [Clients -> Commands(Len(commits))]
BY RemoteAssumption DEF RemoteInv, RemoteTypeOK, Repos, Holding

LEMMA InitRepoLemma ==
  ASSUME RemoteInv, NEW c \in Clients, InitRepo(c)
  PROVE  RemoteInv'
<1>1. proc[c].pc = "none" /\ Exit(c) /\ UNCHANGED <<commits, store, branch, shallow, partial>>
  BY DEF InitRepo, repos
<1>2. RemoteTypeOK' /\ Kept
  BY <1>1, ClientFacts, CommandLemma, TypeKept
<1>3. proc'[c] = Idle /\ \A d \in Clients \ {c} : proc'[d] = proc[d]
  BY <1>1, ClientFacts DEF Exit
<1>4. Grows(c)
  BY <1>1, <1>3 DEF Grows, Others
<1> QED
  BY <1>1, <1>2, <1>3, <1>4, QuitLemma

LEMMA MakeCommitLemma ==
  ASSUME RemoteInv, NEW c \in Clients, NEW l \in Leaves, MakeCommit(c, l)
  PROVE  RemoteInv'
<1>0. /\ c \in Repos /\ Server \in Repos /\ c # Server /\ RemoteTypeOK /\ Holding(c)
  BY ClientFacts
<1>a. PICK n, b : n = Len(commits) + 1 /\ b = branch[c]
  OBVIOUS
<1>1. /\ proc[c].pc = "idle" /\ UNCHANGED <<shallow, partial, proc>>
      /\ branch' = [branch EXCEPT ![c] = n]
      /\ store' = [store EXCEPT ![c] = @ \cup {Commit(n), Tree(l), Leaf(l)}]
  BY <1>a DEF MakeCommit
<1>2. /\ RemoteTypeOK' /\ Kept /\ Len(commits') = n /\ (DOMAIN commits)' = DOMAIN commits \cup {n}
      /\ commits'[n] = [parent |-> b, leaf |-> l]
  BY <1>0, <1>a, MakeCommitType
<1>3. /\ branch'[c] = n /\ store'[c] = store[c] \cup {Commit(n), Tree(l), Leaf(l)}
      /\ \A r \in Repos \ {c} : branch'[r] = branch[r] /\ store'[r] = store[r]
  BY <1>0, <1>1, ClientFacts
<1>4. Others(c)
  BY <1>0, <1>1, <1>3 DEF Others, Repos
<1>5. PICK T : T = History(c)[b]
  OBVIOUS
<1>6. b \in DOMAIN commits \cup {0}
  BY <1>0, <1>a, TipLemma
<1>7. /\ T \subseteq DOMAIN commits /\ (b # 0 => b \in T)
      /\ \A m \in T : ParentOf(c, m) \in T \cup {0}
  BY <1>0, <1>5, <1>6, WalksOK DEF HistoryOK, Follows, ClosedIn
<1>8. PICK q : q = partial[c]
  OBVIOUS
<1>9. \A m \in T : /\ {Commit(m), TreeOf(m)} \subseteq store[c]
                   /\ LeafOf(m) \in store[c] \/ q
  BY <1>0, <1>1, <1>5, <1>8, <1>a DEF Holding, Complete
<1>10. \A m \in T : /\ ParentOf(c, m)' = ParentOf(c, m) /\ TreeOf(m)' = TreeOf(m)
                    /\ LeafOf(m)' = LeafOf(m)
  BY <1>1, <1>2, <1>7 DEF Kept, ParentOf, TreeOf, LeafOf
<1>11. n \notin shallow[c]
  <2>1. DOMAIN commits = 1 .. Len(commits) /\ Len(commits) \in Nat /\ shallow[c] \subseteq DOMAIN commits
    BY <1>0 DEF RemoteTypeOK
  <2> QED
    BY <1>a, <2>1
<1>12. ParentOf(c, n)' = b /\ TreeOf(n)' = Tree(l) /\ LeafOf(n)' = Leaf(l)
  BY <1>1, <1>2, <1>11 DEF ParentOf, TreeOf, LeafOf
<1>13. Complete(c, n, q)'
  <2> DEFINE U == T \cup {n}
  <2>1. n \in (DOMAIN commits)' \cup {0} /\ n \in U
    BY <1>2
  <2>2. \A m \in U : /\ ParentOf(c, m)' \in U \cup {0}
                     /\ Commit(m) \in store'[c] /\ TreeOf(m)' \in store'[c]
                     /\ LeafOf(m)' \in store'[c] \/ q
    BY <1>3, <1>7, <1>9, <1>10, <1>12
  <2> HIDE DEF U
  <2> QED
    BY <1>0, <1>2, <2>1, <2>2, CompleteByNext
<1>14. Complete(c, branch[c], partial[c])'
  BY <1>1, <1>3, <1>8, <1>13 DEF Complete
<1>15. Phases(c)' /\ Cloning(c)' /\ Pushing(c)' /\ Arrived(c)'
  BY <1>0, <1>1 DEF Holding, Phases, Cloning, Pushing, Arrived
<1>16. Backed(c)'
  <2>1. proc'[c].mode # "shallow"
    BY <1>0, <1>1 DEF Holding, Phases
  <2>2. \A m \in shallow[c] : m \in DOMAIN commits
    BY <1>0, TipLemma
  <2>3. \A m \in shallow[c] : Complete(Server, m, FALSE)'
    BY <1>0, <1>2, <1>4, <2>2, ServerKept DEF Others, Holding, Backed
  <2> QED
    BY <1>1, <2>1, <2>3 DEF Backed
<1>17. Holding(c)'
  BY <1>14, <1>15, <1>16 DEF Holding
<1> QED
  BY <1>0, <1>2, <1>3, <1>4, <1>17, ClientStep

LEMMA PushStartLemma ==
  ASSUME RemoteInv, NEW c \in Clients, PushStart(c)
  PROVE  RemoteInv'
<1>0. c \in Repos /\ Server \in Repos /\ RemoteTypeOK /\ Holding(c)
  BY ClientFacts
<1> DEFINE x == [pc |-> "put", mode |-> "none", tip |-> branch[c],
                 todo |-> op_have(Reachable(c, branch[c]))]
<1>1. /\ proc[c].pc = "idle" /\ branch[c] # 0 /\ proc' = [proc EXCEPT ![c] = x]
      /\ UNCHANGED <<commits, store, branch, shallow, partial>>
  BY DEF PushStart, repos
<1>2. branch[c] \in DOMAIN commits \cup {0} /\ branch[c] \in 0 .. Len(commits)
  BY <1>0, TipLemma, ClientFacts
<1>3. x \in Commands(Len(commits))
  <2>1. Reachable(c, branch[c]) \subseteq Objects
    BY <1>0, <1>2, ReachableLemma
  <2> QED
    BY <1>2, <2>1 DEF Commands, op_have
<1>4. proc' \in [Clients -> Commands(Len(commits))]
  BY <1>1, <1>3, ClientFacts
<1>5. RemoteTypeOK' /\ Kept
  BY <1>1, <1>4, ClientFacts, TypeKept
<1>6. /\ proc'[c].pc = "put" /\ proc'[c].mode = "none" /\ proc'[c].tip = branch[c]
      /\ proc'[c].todo = Reachable(c, branch[c]) \ store[Server]
      /\ \A d \in Clients \ {c} : proc'[d] = proc[d]
  BY <1>1, ClientFacts DEF op_have
<1>7. Others(c)
  BY <1>1, <1>6 DEF Others
<1>8. /\ \A n \in shallow'[c] : Complete(Server, n, FALSE)'
      /\ Complete(c, branch[c], partial[c])'
  BY <1>1, <1>5, <1>7, GrowsLemma
<1>9. Pushing(c)'
  <2>1. Complete(c, branch[c], partial[c])
    BY <1>0, <1>1 DEF Holding
  <2>2. \A m \in History(c)[branch[c]] : Parts(m) \subseteq Reachable(c, branch[c])
    BY <1>0, <1>2, <2>1, ReachableAll
  <2>3. PICK b : b = branch[c]
    OBVIOUS
  <2>4. (History(c)[b])' \subseteq History(c)[b] /\ History(c)[b] \subseteq DOMAIN commits
    BY <1>0, <1>1, <1>2, <1>5, <2>3, HistoryKept, WalksOK DEF HistoryOK, Follows
  <2>5. \A m \in History(c)[b] : Parts(m)' = Parts(m)
    BY <1>5, <2>4, PartsKept
  <2> QED
    BY <1>1, <1>6, <2>2, <2>3, <2>4, <2>5 DEF Pushing
<1>10. Phases(c)' /\ Cloning(c)' /\ Arrived(c)' /\ Backed(c)'
  BY <1>6, <1>8 DEF Phases, Cloning, Arrived, Backed
<1>11. Holding(c)'
  BY <1>8, <1>9, <1>10 DEF Holding
<1> QED
  BY <1>1, <1>5, <1>7, <1>11, ClientStep

LEMMA PutObjectsLemma ==
  ASSUME RemoteInv, NEW c \in Clients, NEW batch \in SUBSET proc[c].todo, PutObjects(c, batch)
  PROVE  RemoteInv'
<1>0. c \in Repos /\ Server \in Repos /\ c # Server /\ RemoteTypeOK /\ Holding(c)
  BY ClientFacts
<1>1. proc[c].pc = "put" /\ UNCHANGED <<commits, branch, shallow, partial>>
  BY DEF PutObjects
<1>2. CASE batch \subseteq store[c]
  <2> DEFINE x == [proc[c] EXCEPT !.todo = @ \ batch]
  <2>1. /\ store' = [store EXCEPT ![Server] = @ \cup batch]
        /\ proc' = [proc EXCEPT ![c] = x]
    BY <1>2 DEF PutObjects
  <2>2. proc[c] \in Commands(Len(commits)) /\ store[c] \subseteq Objects
    BY <1>0, ClientFacts
  <2>3. x \in Commands(Len(commits))
    BY <2>2 DEF Commands
  <2>4. /\ x.pc = "put" /\ x.mode = proc[c].mode /\ x.tip = proc[c].tip
        /\ x.todo = proc[c].todo \ batch
    BY <1>1, <2>2 DEF Commands
  <2> HIDE DEF x
  <2>5. store' \in [Repos -> SUBSET Objects] /\ proc' \in [Clients -> Commands(Len(commits))]
    BY <1>0, <1>2, <2>1, <2>2, <2>3, ClientFacts
  <2>6. RemoteTypeOK' /\ Kept
    BY <1>0, <1>1, <2>5, ClientFacts, TypeKept
  <2>7. /\ proc'[c] = x /\ (\A d \in Clients \ {c} : proc'[d] = proc[d])
        /\ store'[Server] = store[Server] \cup batch
        /\ \A d \in Clients : store'[d] = store[d]
    BY <1>0, <2>1, ClientFacts, RemoteAssumption DEF Repos
  <2>8. Others(c)
    BY <1>1, <2>7 DEF Others
  <2>9. /\ \A n \in shallow'[c] : Complete(Server, n, FALSE)'
        /\ Complete(c, branch[c], partial[c])'
    BY <1>1, <2>6, <2>7, <2>8, GrowsLemma
  <2>10. Pushing(c)'
    <3>1. PICK b : b = branch[c] /\ b \in DOMAIN commits \cup {0}
      BY <1>0, TipLemma
    <3>2. /\ proc[c].tip = b /\ b # 0
          /\ \A m \in History(c)[b] : Parts(m) \subseteq store[Server] \cup proc[c].todo
      BY <1>0, <1>1, <3>1 DEF Holding, Pushing
    <3>3. (History(c)[b])' \subseteq History(c)[b] /\ History(c)[b] \subseteq DOMAIN commits
      BY <1>0, <1>1, <2>6, <3>1, HistoryKept, WalksOK DEF HistoryOK, Follows
    <3>4. \A m \in History(c)[b] : Parts(m)' = Parts(m)
      BY <2>6, <3>3, PartsKept
    <3>5. \A m \in (History(c)[b])' : Parts(m)' \subseteq store'[Server] \cup proc'[c].todo
      BY <2>4, <2>7, <3>2, <3>3, <3>4
    <3> QED
      BY <1>1, <2>4, <2>7, <3>1, <3>2, <3>5 DEF Pushing
  <2>11. Phases(c)' /\ Cloning(c)' /\ Arrived(c)' /\ Backed(c)'
    <3>1. proc[c].mode = "none"
      BY <1>0, <1>1 DEF Holding, Phases
    <3> QED
      BY <2>4, <2>7, <2>9, <3>1 DEF Phases, Cloning, Arrived, Backed
  <2>12. Holding(c)'
    BY <2>9, <2>10, <2>11 DEF Holding
  <2> QED
    BY <1>1, <2>6, <2>8, <2>12, ClientStep
<1>3. CASE ~(batch \subseteq store[c])
  <2>1. Exit(c) /\ store' = store
    BY <1>3 DEF PutObjects
  <2>2. RemoteTypeOK' /\ Kept
    BY <1>0, <1>1, <2>1, ClientFacts, CommandLemma, TypeKept
  <2>3. proc'[c] = Idle /\ \A d \in Clients \ {c} : proc'[d] = proc[d]
    BY <2>1, ClientFacts DEF Exit
  <2>4. Grows(c)
    BY <1>1, <2>1, <2>3 DEF Grows, Others
  <2> QED
    BY <1>1, <2>2, <2>3, <2>4, QuitLemma
<1> QED
  BY <1>2, <1>3

\* The ref moves to a history that is all on the server: what the client has of
\* it was put there, and what lies behind its boundary has been there.
LEMMA SetRefLemma ==
  ASSUME RemoteInv, NEW c \in Clients, SetRef(c)
  PROVE  RemoteInv'
<1>0. c \in Repos /\ Server \in Repos /\ c # Server /\ RemoteTypeOK /\ Holding(c)
  BY ClientFacts
<1>1. PICK b : b = branch[c] /\ b \in DOMAIN commits \cup {0}
  BY <1>0, TipLemma
<1>2. /\ proc[c].pc = "put" /\ proc[c].todo = {} /\ Exit(c) /\ proc[c].tip = b
      /\ branch' = branch \/ branch' = [branch EXCEPT ![Server] = b]
      /\ UNCHANGED <<commits, store, shallow, partial>>
  BY <1>0, <1>1 DEF SetRef, Holding, Pushing
<1>3. branch' \in [Repos -> 0 .. Len(commits)]
  BY <1>0, <1>1, <1>2, ClientFacts
<1>4. RemoteTypeOK' /\ Kept
  BY <1>0, <1>2, <1>3, ClientFacts, CommandLemma, TypeKept
<1>5. /\ proc'[c] = Idle /\ (\A d \in Clients \ {c} : proc'[d] = proc[d])
      /\ \A d \in Clients : branch'[d] = branch[d]
  BY <1>0, <1>2, ClientFacts, RemoteAssumption DEF Exit, Repos
<1>6. Others(c)
  BY <1>2, <1>5 DEF Others
<1>7. Complete(Server, b, FALSE)
  <2> DEFINE H == History(c)[b]
             T == H \cup UNION {History(Server)[m] : m \in shallow[c]}
  <2>1. /\ H \subseteq DOMAIN commits /\ (b # 0 => b \in H)
        /\ \A m \in H : ParentOf(c, m) \in H \cup {0}
    BY <1>0, <1>1, WalksOK DEF HistoryOK, Follows, ClosedIn
  <2>2. \A m \in H : Parts(m) \subseteq store[Server]
    BY <1>0, <1>1, <1>2 DEF Holding, Pushing
  <2>3. shallow[Server] = {} /\ shallow[c] \subseteq DOMAIN commits
    BY <1>0, TipLemma DEF RemoteInv
  <2>4. \A k \in shallow[c] : Follows(Server, DOMAIN commits, k, History(Server)[k])
    BY <1>0, <2>3, WalksOK DEF HistoryOK
  <2>5. \A k \in shallow[c] : \A m \in History(Server)[k] : Parts(m) \subseteq store[Server]
    BY <1>0 DEF Holding, Backed, Complete, Parts
  <2>6. ASSUME NEW m \in H PROVE ParentOf(Server, m) \in T \cup {0}
    <3>1. CASE m \in shallow[c]
      <4>1. m \in History(Server)[m] /\ ClosedIn(Server, DOMAIN commits, History(Server)[m])
        BY <2>4, <3>1 DEF Follows
      <4>2. ParentOf(Server, m) \in History(Server)[m] \cup {0}
        BY <2>1, <4>1 DEF ClosedIn
      <4> QED
        BY <3>1, <4>2
    <3>2. CASE m \notin shallow[c]
      BY <2>1, <2>3, <3>2 DEF ParentOf
    <3> QED
      BY <3>1, <3>2
  <2>7. ASSUME NEW k \in shallow[c], NEW m \in History(Server)[k]
        PROVE  ParentOf(Server, m) \in T \cup {0}
    <3>1. m \in DOMAIN commits /\ ClosedIn(Server, DOMAIN commits, History(Server)[k])
      BY <2>4 DEF Follows
    <3>2. ParentOf(Server, m) \in History(Server)[k] \cup {0}
      BY <3>1 DEF ClosedIn
    <3> QED
      BY <3>2
  <2>8. \A m \in T : /\ ParentOf(Server, m) \in T \cup {0}
                     /\ Parts(m) \subseteq store[Server]
    BY <2>2, <2>5, <2>6, <2>7
  <2>9. b # 0 => b \in T
    BY <2>1
  <2> HIDE DEF T
  <2>10. \A m \in T : /\ {Commit(m), TreeOf(m)} \subseteq store[Server]
                      /\ LeafOf(m) \in store[Server]
    BY <2>8 DEF Parts
  <2> QED
    BY <1>0, <1>1, <2>8, <2>9, <2>10, CompleteBy
<1>8. branch'[Server] = branch[Server] \/ Complete(Server, branch[Server], FALSE)'
  <2>1. Complete(Server, b, FALSE)'
    BY <1>0, <1>1, <1>2, <1>4, <1>7, CompleteKept
  <2>2. branch'[Server] = branch[Server] \/ branch'[Server] = b
    BY <1>0, <1>2, ClientFacts
  <2> QED
    BY <2>1, <2>2 DEF Complete
<1>9. /\ \A n \in shallow'[c] : Complete(Server, n, FALSE)'
      /\ Complete(c, branch[c], partial[c])'
  BY <1>2, <1>4, <1>5, <1>6, GrowsLemma
<1>10. proc'[c].pc = "idle" /\ proc'[c].mode = "none"
  BY <1>5 DEF Idle
<1>11. Holding(c)'
  BY <1>9, <1>10 DEF Holding, Phases, Cloning, Pushing, Arrived, Backed
<1> QED
  BY <1>4, <1>6, <1>8, <1>11, ClientStep

LEMMA FetchStartLemma ==
  ASSUME RemoteInv, NEW c \in Clients, NEW mode \in Modes \cup {"fetch", "pull"}, FetchStart(c, mode)
  PROVE  RemoteInv'
<1>0. c \in Repos /\ Server \in Repos /\ c # Server /\ RemoteTypeOK /\ Holding(c)
  BY ClientFacts
<1> DEFINE x == [pc |-> "get", mode |-> mode, tip |-> branch[Server], todo |-> {}]
<1>1. /\ proc[c].pc \in {"idle", "none"} /\ branch[Server] # 0
      /\ mode \in Modes => proc[c].pc = "none"
      /\ UNCHANGED <<commits, store, branch, shallow, partial>>
  BY RemoteAssumption DEF FetchStart, repos
<1>2. proc' = [proc EXCEPT ![c] = x]
  BY DEF FetchStart
<1>3. x \in Commands(Len(commits))
  BY <1>0, RemoteAssumption, ClientFacts DEF Commands
<1>4. proc' \in [Clients -> Commands(Len(commits))]
  BY <1>2, <1>3, ClientFacts
<1>5. RemoteTypeOK' /\ Kept
  BY <1>0, <1>1, <1>4, ClientFacts, TypeKept
<1>6. /\ proc'[c].pc = "get" /\ proc'[c].mode = mode /\ proc'[c].tip = branch[Server]
      /\ \A d \in Clients \ {c} : proc'[d] = proc[d]
  BY <1>2, ClientFacts
<1>7. Others(c)
  BY <1>1, <1>6 DEF Others
<1>8. /\ \A n \in shallow'[c] : Complete(Server, n, FALSE)'
      /\ Complete(c, branch[c], partial[c])'
  BY <1>1, <1>5, <1>7, GrowsLemma
<1>9. Complete(Server, branch[Server], FALSE)'
  BY <1>1, <1>5, <1>7, ServerKept DEF Others
<1>10. mode # "none"
  BY RemoteAssumption
<1>11. Phases(c)'
  BY <1>1, <1>6, <1>10 DEF Phases
<1>12. Cloning(c)'
  BY <1>0, <1>1, <1>6 DEF Holding, Cloning
<1>13. Pushing(c)' /\ Arrived(c)'
  BY <1>6 DEF Pushing, Arrived
<1>14. Backed(c)'
  BY <1>1, <1>6, <1>8, <1>9 DEF Backed, Complete
<1>15. Holding(c)'
  BY <1>8, <1>11, <1>12, <1>13, <1>14 DEF Holding
<1> QED
  BY <1>1, <1>5, <1>7, <1>15, ClientStep

\* A command that fails or is killed.
LEMMA AbandonLemma ==
  ASSUME RemoteInv, NEW c \in Clients, NEW got, got \subseteq Objects, Abandon(c, got)
  PROVE  RemoteInv'
<1>0. c \in Repos /\ Server \in Repos /\ c # Server /\ RemoteTypeOK /\ Holding(c)
  BY ClientFacts
<1>1. UNCHANGED <<commits, shallow, partial>>
  BY DEF Abandon
<1>2. CASE proc[c].mode \in {"full", "shallow", "partial"}
  <2>1. /\ proc' = [proc EXCEPT ![c] = NoClone]
        /\ store' = [store EXCEPT ![c] = {}]
        /\ branch' = [branch EXCEPT ![c] = 0]
    BY <1>2 DEF Abandon
  <2>2. RemoteTypeOK' /\ Kept
    <3>1. 0 \in 0 .. Len(commits)
      BY <1>0 DEF RemoteTypeOK
    <3>2. store' \in [Repos -> SUBSET Objects] /\ branch' \in [Repos -> 0 .. Len(commits)]
      BY <1>0, <2>1, <3>1, ClientFacts
    <3>3. proc' \in [Clients -> Commands(Len(commits))]
      BY <1>0, <2>1, CommandLemma, ClientFacts
    <3> QED
      BY <1>0, <1>1, <3>2, <3>3, ClientFacts, TypeKept
  <2>3. /\ proc'[c] = NoClone /\ branch'[c] = 0
        /\ \A d \in Clients \ {c} : proc'[d] = proc[d]
        /\ \A r \in Repos \ {c} : store'[r] = store[r] /\ branch'[r] = branch[r]
    BY <1>0, <2>1, ClientFacts
  <2>4. Others(c) /\ branch'[Server] = branch[Server]
    BY <1>0, <1>1, <2>3 DEF Others, Repos
  <2>5. proc'[c].pc = "none" /\ proc'[c].mode = "none"
    BY <2>3 DEF NoClone, Idle
  <2>6. shallow'[c] = {}
    BY <1>0, <1>1, <1>2 DEF Holding, Cloning
  <2>7. Complete(c, branch[c], partial[c])'
    BY <1>0, <2>2, <2>3, WalksNext DEF HistoryOK, Complete
  <2>8. Holding(c)'
    BY <2>3, <2>5, <2>6, <2>7 DEF Holding, Phases, Cloning, Pushing, Arrived, Backed
  <2> QED
    BY <2>2, <2>4, <2>8, ClientStep
<1>3. CASE proc[c].mode \notin {"full", "shallow", "partial"}
  <2>1. Exit(c) /\ store' = [store EXCEPT ![c] = @ \cup got] /\ branch' = branch
    BY <1>3 DEF Abandon
  <2>2. store' \in [Repos -> SUBSET Objects]
    BY <1>0, <2>1, ClientFacts
  <2>3. RemoteTypeOK' /\ Kept
    BY <1>0, <1>1, <2>1, <2>2, ClientFacts, CommandLemma, TypeKept
  <2>4. /\ proc'[c] = Idle /\ (\A d \in Clients \ {c} : proc'[d] = proc[d])
        /\ store[c] \subseteq store'[c] /\ \A r \in Repos \ {c} : store'[r] = store[r]
    BY <1>0, <2>1, ClientFacts DEF Exit
  <2>5. Grows(c)
    BY <1>0, <1>1, <2>1, <2>4 DEF Grows, Others, Repos
  <2>6. proc[c].pc # "mark"
    BY <1>0, <1>3 DEF Holding, Phases
  <2> QED
    BY <2>3, <2>4, <2>5, <2>6, QuitLemma
<1> QED
  BY <1>2, <1>3

\* Objects arrive.
LEMMA ArriveLemma ==
  ASSUME RemoteInv, NEW c \in Clients, NEW got, got \subseteq Objects,
         store' = [store EXCEPT ![c] = @ \cup got],
         UNCHANGED <<commits, branch, shallow, partial, proc>>, proc[c].pc \in {"idle", "get"}
  PROVE  RemoteInv'
<1>0. c \in Repos /\ Server \in Repos /\ c # Server /\ RemoteTypeOK
  BY ClientFacts
<1>1. /\ store[c] \subseteq store'[c] /\ \A r \in Repos \ {c} : store'[r] = store[r]
      /\ store' \in [Repos -> SUBSET Objects]
  BY <1>0, ClientFacts
<1>2. RemoteTypeOK' /\ Kept
  BY <1>0, <1>1, ClientFacts, TypeKept
<1>3. Grows(c)
  BY <1>0, <1>1 DEF Grows, Others, Repos
<1> QED
  BY <1>2, <1>3, GoOnLemma

LEMMA GettingLemma ==
  ASSUME RemoteInv, NEW c \in Clients,
         \/ GetSkeleton(c)
         \/ \E batch \in SUBSET {Leaf(l) : l \in Leaves} : GetLeaves(c, batch)
  PROVE  RemoteInv'
<1>0. c \in Repos /\ RemoteTypeOK /\ Phases(c)
  BY ClientFacts
<1>1. CASE GetSkeleton(c)
  <2>1. proc[c].pc = "get"
    BY <1>1 DEF GetSkeleton
  <2>2. PICK o \in WantSkeleton(c) :
          IF op_get(o)
          THEN /\ store' = [store EXCEPT ![c] = @ \cup {o}]
               /\ UNCHANGED <<commits, branch, shallow, partial, proc>>
          ELSE Abandon(c, {})
    BY <1>1 DEF GetSkeleton
  <2>3. o \in Objects
    <3>1. Visited(c) \subseteq DOMAIN commits
      BY <1>0, <2>1, VisitedLemma DEF Phases
    <3>2. \A n \in Visited(c) : Parts(n) \subseteq Objects
      BY <1>0, <3>1, PartsLemma
    <3> QED
      BY <3>2 DEF WantSkeleton, Parts
  <2>4. CASE op_get(o)
    <3>1. {o} \subseteq Objects /\ proc[c].pc \in {"idle", "get"}
      BY <2>1, <2>3
    <3>2. store' = [store EXCEPT ![c] = @ \cup {o}]
      BY <2>2, <2>4, Zenon
    <3>3. UNCHANGED <<commits, branch, shallow, partial, proc>>
      BY <2>2, <2>4, Zenon
    <3> QED
      BY <3>1, <3>2, <3>3, ArriveLemma
  <2>5. CASE ~op_get(o)
    BY <2>2, <2>5, AbandonLemma
  <2> QED
    BY <2>4, <2>5
<1>2. ASSUME NEW batch \in SUBSET {Leaf(l) : l \in Leaves}, GetLeaves(c, batch) PROVE RemoteInv'
  <2>1. proc[c].pc = "get" /\ batch \subseteq Objects /\ op_get_pack(batch) \subseteq Objects
    BY <1>2 DEF GetLeaves, Objects, op_get_pack
  <2>2. CASE op_get_pack(batch) = batch
    BY <1>2, <2>1, <2>2, ArriveLemma DEF GetLeaves
  <2>3. CASE op_get_pack(batch) # batch
    BY <1>2, <2>1, <2>3, AbandonLemma DEF GetLeaves
  <2> QED
    BY <2>2, <2>3
<1> QED
  BY <1>1, <1>2

LEMMA BackfillLemma ==
  ASSUME RemoteInv, NEW c \in Clients, NEW n \in 1 .. Len(commits), Backfill(c, n)
  PROVE  RemoteInv'
<1>0. RemoteTypeOK
  BY ClientFacts
<1>1. n \in DOMAIN commits
  BY <1>0 DEF RemoteTypeOK
<1>2. {LeafOf(n)} \subseteq Objects
  BY <1>0, <1>1, PartsLemma DEF Parts
<1> QED
  BY <1>2, ArriveLemma DEF Backfill

LEMMA KillLemma ==
  ASSUME RemoteInv, NEW c \in Clients, Kill(c)
  PROVE  RemoteInv'
BY AbandonLemma DEF Kill

\* A command goes on to l, with nothing else of it changed.
LEMMA GotoLemma ==
  ASSUME RemoteTypeOK, NEW c \in Clients, NEW l, Goto(c, l)
  PROVE  /\ proc'[c].pc = l /\ proc'[c].mode = proc[c].mode /\ proc'[c].tip = proc[c].tip
         /\ \A d \in Clients \ {c} : proc'[d] = proc[d]
<1>1. proc \in [Clients -> Commands(Len(commits))]
  BY DEF RemoteTypeOK
<1>2. proc' = [proc EXCEPT ![c] = [proc[c] EXCEPT !.pc = l]]
  BY <1>1 DEF Goto
<1>3. proc'[c] = [proc[c] EXCEPT !.pc = l] /\ \A d \in Clients \ {c} : proc'[d] = proc[d]
  BY <1>1, <1>2
<1>4. proc[c] \in Commands(Len(commits))
  BY <1>1
<1> QED
  BY <1>3, <1>4 DEF Commands

\* A fetch that wants nothing more has what it visited, and in all modes but
\* shallow that is the whole history.
LEMMA FetchedLemma ==
  ASSUME RemoteInv, NEW c \in Clients, Fetched(c)
  PROVE  RemoteInv'
<1>0. c \in Repos /\ Server \in Repos /\ c # Server /\ RemoteTypeOK /\ Holding(c)
  BY ClientFacts
<1>1. /\ proc[c].pc = "get" /\ WantSkeleton(c) = {} /\ WantLeaves(c) = {} /\ Goto(c, "record")
      /\ UNCHANGED <<commits, store, branch, shallow, partial>>
  BY DEF Fetched, repos
<1>2. RemoteTypeOK' /\ Kept
  BY <1>0, <1>1, ClientFacts, CommandLemma, TypeKept
<1>3. /\ proc'[c].pc = "record" /\ proc'[c].mode = proc[c].mode /\ proc'[c].tip = proc[c].tip
      /\ \A d \in Clients \ {c} : proc'[d] = proc[d]
  BY <1>0, <1>1, GotoLemma
<1>4. Others(c)
  BY <1>1, <1>3 DEF Others
<1>5. /\ \A n \in shallow'[c] : Complete(Server, n, FALSE)'
      /\ Complete(c, branch[c], partial[c])'
  BY <1>1, <1>2, <1>4, GrowsLemma
<1>6. PICK t : t = proc[c].tip /\ t # 0 /\ t \in DOMAIN commits
  BY <1>0, <1>1, TipLemma DEF Holding, Phases
<1>7. \A n \in Visited(c) : /\ Commit(n) \in store[c] /\ TreeOf(n) \in store[c]
                            /\ proc[c].mode # "partial" => LeafOf(n) \in store[c]
  BY <1>1 DEF WantSkeleton, WantLeaves
<1>8. Arrived(c)'
  <2>1. CASE proc[c].mode = "shallow"
    <3>1. (Met(c)[t])' = Met(c)[t]
      BY <1>0, <1>1, <1>2, <1>6, MetKept
    <3>2. Visited(c)' = Visited(c)
      BY <1>3, <1>6, <3>1 DEF Visited, Newest
    <3>3. Visited(c) \subseteq DOMAIN commits
      BY <1>0, <1>6, VisitedLemma
    <3>4. \A n \in Visited(c) : Parts(n)' \subseteq store'[c]
      BY <1>1, <1>2, <1>7, <2>1, <3>3, PartsKept DEF Parts
    <3> QED
      BY <1>3, <2>1, <3>2, <3>4 DEF Arrived
  <2>2. CASE proc[c].mode # "shallow"
    <3>1. Visited(c) = Met(c)[t] /\ Visited(c) \subseteq DOMAIN commits
      BY <1>0, <1>6, <2>2, VisitedLemma
    <3>2. History(c)[t] = Visited(c)
      BY <1>0, <1>6, <1>7, <3>1, MetAll DEF Having
    <3>3. PICK q : q = (proc[c].mode = "partial")
      OBVIOUS
    <3>4. Complete(c, t, q)
      BY <1>7, <3>2, <3>3 DEF Complete
    <3>5. Complete(c, t, q)'
      BY <1>0, <1>1, <1>2, <1>6, <3>4, CompleteKept
    <3> QED
      BY <1>3, <1>6, <2>2, <3>3, <3>5 DEF Arrived, Complete
  <2> QED
    BY <2>1, <2>2
<1>9. Backed(c)'
  <2>1. proc[c].mode = "shallow" => Complete(Server, t, FALSE)'
    BY <1>0, <1>2, <1>4, <1>6, ServerKept DEF Holding, Backed, Others
  <2> QED
    BY <1>3, <1>5, <1>6, <2>1 DEF Backed, Complete
<1>10. Phases(c)' /\ Cloning(c)' /\ Pushing(c)'
  BY <1>0, <1>1, <1>3 DEF Holding, Phases, Cloning, Pushing
<1>11. Holding(c)'
  BY <1>5, <1>8, <1>9, <1>10 DEF Holding
<1> QED
  BY <1>1, <1>2, <1>4, <1>11, ClientStep

LEMMA RecordLemma ==
  ASSUME RemoteInv, NEW c \in Clients, Record(c)
  PROVE  RemoteInv'
<1>0. c \in Repos /\ Server \in Repos /\ c # Server /\ RemoteTypeOK /\ Holding(c)
  BY ClientFacts
<1>1. /\ proc[c].pc = "record" /\ UNCHANGED <<commits, store, shallow, partial>>
  BY DEF Record
<1>2. PICK t : t = proc[c].tip /\ t # 0 /\ t \in DOMAIN commits /\ t \in 0 .. Len(commits)
  <2>1. proc[c].tip \in 0 .. Len(commits)
    BY <1>0 DEF RemoteTypeOK, Commands
  <2> QED
    BY <1>0, <1>1, <2>1, TipLemma DEF Holding, Phases
<1>3. CASE proc[c].mode = "fetch"
  <2>1. branch' = branch /\ Exit(c)
    BY <1>3 DEF Record
  <2>2. RemoteTypeOK' /\ Kept
    BY <1>0, <1>1, <2>1, ClientFacts, CommandLemma, TypeKept
  <2>3. proc'[c] = Idle /\ \A d \in Clients \ {c} : proc'[d] = proc[d]
    BY <2>1, ClientFacts DEF Exit
  <2>4. Grows(c)
    BY <1>1, <2>1, <2>3 DEF Grows, Others
  <2> QED
    BY <1>1, <2>2, <2>3, <2>4, QuitLemma
<1>4. CASE proc[c].mode # "fetch"
  <2>1. branch' = [branch EXCEPT ![c] = t]
    BY <1>2, <1>4 DEF Record
  <2>2. branch'[c] = t /\ (\A r \in Repos \ {c} : branch'[r] = branch[r])
        /\ branch' \in [Repos -> 0 .. Len(commits)]
    BY <1>0, <1>2, <2>1, ClientFacts
  <2>3. CASE proc[c].mode \in {"shallow", "partial"}
    <3>1. Goto(c, "mark")
      BY <2>3 DEF Record
    <3>2. RemoteTypeOK' /\ Kept
      BY <1>0, <1>1, <2>2, <3>1, ClientFacts, CommandLemma, TypeKept
    <3>3. /\ proc'[c].pc = "mark" /\ proc'[c].mode = proc[c].mode /\ proc'[c].tip = proc[c].tip
          /\ \A d \in Clients \ {c} : proc'[d] = proc[d]
      BY <1>0, <3>1, GotoLemma
    <3>4. Others(c)
      BY <1>0, <1>1, <2>2, <3>3 DEF Others, Repos
    <3>5. Phases(c)' /\ Cloning(c)' /\ Pushing(c)'
      BY <1>0, <1>1, <1>2, <2>2, <2>3, <3>3 DEF Holding, Phases, Cloning, Pushing
    <3>6. Arrived(c)'
      <4>1. CASE proc[c].mode = "shallow"
        <5>1. (Met(c)[t])' = Met(c)[t]
          BY <1>0, <1>1, <1>2, <3>2, MetKept
        <5>2. Visited(c)' = Visited(c)
          BY <1>2, <3>3, <5>1 DEF Visited, Newest
        <5>3. Visited(c) \subseteq DOMAIN commits
          BY <1>0, <1>2, VisitedLemma
        <5>4. \A n \in Visited(c) : Parts(n)' \subseteq store'[c]
          BY <1>0, <1>1, <3>2, <4>1, <5>3, PartsKept DEF Holding, Arrived
        <5> QED
          BY <3>3, <4>1, <5>2, <5>4 DEF Arrived
      <4>2. CASE proc[c].mode = "partial"
        <5>1. Complete(c, t, TRUE)
          BY <1>0, <1>1, <1>2, <4>2 DEF Holding, Arrived, Complete
        <5>2. Complete(c, t, TRUE)'
          BY <1>0, <1>1, <1>2, <3>2, <5>1, CompleteKept
        <5> QED
          BY <1>2, <3>3, <4>2, <5>2 DEF Arrived, Complete
      <4> QED
        BY <2>3, <4>1, <4>2
    <3>7. Backed(c)'
      <4>1. \A n \in DOMAIN commits \cup {0} : Complete(Server, n, FALSE) => Complete(Server, n, FALSE)'
        BY <3>2, <3>4, ServerKept DEF Others
      <4>2. shallow[c] = {}
        BY <1>0, <2>3 DEF Holding, Cloning
      <4>3. proc[c].mode = "shallow" => Complete(Server, t, FALSE)'
        BY <1>0, <1>2, <4>1 DEF Holding, Backed
      <4> QED
        BY <1>1, <1>2, <3>3, <4>2, <4>3 DEF Backed, Complete
    <3>8. Holding(c)'
      BY <3>3, <3>5, <3>6, <3>7 DEF Holding
    <3> QED
      BY <1>0, <2>2, <3>2, <3>4, <3>8, ClientStep
  <2>4. CASE proc[c].mode \notin {"shallow", "partial"}
    <3>1. Exit(c)
      BY <2>4 DEF Record
    <3>2. RemoteTypeOK' /\ Kept
      BY <1>0, <1>1, <2>2, <3>1, ClientFacts, CommandLemma, TypeKept
    <3>3. proc'[c] = Idle /\ \A d \in Clients \ {c} : proc'[d] = proc[d]
      BY <3>1, ClientFacts DEF Exit
    <3>4. Others(c)
      BY <1>0, <1>1, <2>2, <3>3 DEF Others, Repos
    <3>5. proc'[c].pc = "idle" /\ proc'[c].mode = "none"
      BY <3>3 DEF Idle
    <3>6. Complete(c, t, FALSE)'
      <4>1. Complete(c, t, FALSE)
        BY <1>0, <1>1, <1>2, <2>4 DEF Holding, Arrived, Complete
      <4> QED
        BY <1>0, <1>1, <1>2, <3>2, <4>1, CompleteKept
    <3>7. Complete(c, branch[c], partial[c])'
      BY <2>2, <3>6 DEF Complete
    <3>8. \A n \in shallow'[c] : Complete(Server, n, FALSE)'
      <4>1. shallow[c] \subseteq DOMAIN commits
        BY <1>0, TipLemma
      <4> QED
        BY <1>0, <1>1, <3>2, <3>4, <4>1, ServerKept DEF Holding, Backed, Others
    <3>9. Holding(c)'
      BY <3>5, <3>7, <3>8 DEF Holding, Phases, Cloning, Pushing, Arrived, Backed
    <3> QED
      BY <1>0, <2>2, <3>2, <3>4, <3>9, ClientStep
  <2> QED
    BY <2>3, <2>4
<1> QED
  BY <1>3, <1>4

\* The end of a clone.  The commits a shallow clone has visited are closed
\* under parents once the oldest of them is the boundary.
LEMMA MarkLemma ==
  ASSUME RemoteInv, NEW c \in Clients, Mark(c)
  PROVE  RemoteInv'
<1>0. c \in Repos /\ Server \in Repos /\ c # Server /\ RemoteTypeOK /\ Holding(c)
  BY ClientFacts
<1>1. /\ proc[c].pc = "mark" /\ Exit(c) /\ UNCHANGED <<commits, store, branch>>
  BY DEF Mark
<1>2. PICK t : t = proc[c].tip /\ t # 0 /\ t \in DOMAIN commits /\ branch[c] = t
  BY <1>0, <1>1, TipLemma DEF Holding, Phases
<1>3. proc'[c] = Idle /\ \A d \in Clients \ {c} : proc'[d] = proc[d]
  BY <1>1, ClientFacts DEF Exit
<1>4. proc'[c].pc = "idle" /\ proc'[c].mode = "none"
  BY <1>3 DEF Idle
<1>5. proc[c].mode \in {"shallow", "partial"} /\ shallow[c] = {}
  BY <1>0, <1>1 DEF Holding, Phases, Cloning
<1>6. CASE proc[c].mode = "partial"
  <2>1. partial' = [partial EXCEPT ![c] = TRUE] /\ shallow' = shallow
    BY <1>6 DEF Mark
  <2>2. partial' \in [Repos -> BOOLEAN]
    BY <1>0, <2>1, ClientFacts
  <2>3. RemoteTypeOK' /\ Kept
    BY <1>0, <1>1, <2>1, <2>2, ClientFacts, CommandLemma, TypeKept
  <2>4. partial'[c] = TRUE /\ \A r \in Repos \ {c} : partial'[r] = partial[r]
    BY <1>0, <2>1, ClientFacts
  <2>5. Others(c)
    BY <1>0, <1>1, <1>3, <2>1, <2>4 DEF Others, Repos
  <2>6. Complete(c, t, TRUE)'
    <3>1. Complete(c, t, TRUE)
      BY <1>0, <1>1, <1>2, <1>6 DEF Holding, Arrived, Complete
    <3> QED
      BY <1>0, <1>1, <1>2, <2>1, <2>3, <3>1, CompleteKept
  <2>7. Complete(c, branch[c], partial[c])'
    BY <1>1, <1>2, <2>4, <2>6 DEF Complete
  <2>8. Holding(c)'
    BY <1>4, <1>5, <2>1, <2>7 DEF Holding, Phases, Cloning, Pushing, Arrived, Backed
  <2> QED
    BY <1>1, <2>3, <2>5, <2>8, ClientStep
<1>7. CASE proc[c].mode = "shallow"
  <2>1. PICK V, last : V = Visited(c) /\ last = Min(Visited(c))
    OBVIOUS
  <2>2. PICK B : B = (IF commits[last].parent = 0 THEN {} ELSE {last})
    OBVIOUS
  <2>3. shallow' = [shallow EXCEPT ![c] = B] /\ partial' = partial
    BY <1>7, <2>1, <2>2 DEF Mark
  <2>4. /\ V \subseteq Met(c)[t] /\ V \subseteq DOMAIN commits /\ t \in V /\ last \in V
        /\ \A m \in V : last <= m
        /\ \A m \in Met(c)[t] : last <= m => m \in V
    BY <1>0, <1>2, <2>1, VisitedLemma
  <2>5. B \subseteq {last} /\ B \subseteq DOMAIN commits
    BY <2>2, <2>4
  <2>6. shallow' \in [Repos -> SUBSET DOMAIN commits]
    BY <1>0, <2>3, <2>5, ClientFacts
  <2>7. RemoteTypeOK' /\ Kept
    BY <1>0, <1>1, <2>3, <2>6, ClientFacts, CommandLemma, TypeKept
  <2>8. shallow'[c] = B /\ \A r \in Repos \ {c} : shallow'[r] = shallow[r]
    BY <1>0, <2>3, ClientFacts
  <2>9. Others(c)
    BY <1>0, <1>1, <1>3, <2>3, <2>8 DEF Others, Repos
  <2>10. \A m \in V : Parts(m) \subseteq store[c]
    BY <1>0, <1>1, <1>7, <2>1 DEF Holding, Arrived
  <2>11. \A m \in V : ParentOf(c, m) = commits[m].parent
    BY <1>5 DEF ParentOf
  <2>12. ASSUME NEW m \in V PROVE ParentOf(c, m)' \in V \cup {0}
    <3>0. ParentOf(c, m)' = IF m \in B THEN 0 ELSE commits[m].parent
      BY <1>1, <2>8 DEF ParentOf
    <3>1. CASE m = last
      BY <2>2, <3>0, <3>1
    <3>2. CASE m # last
      <4>1. last < m
        <5>1. m \in Nat /\ last \in Nat /\ last <= m
          BY <1>0, <2>4, ParentLemma
        <5> QED
          BY <3>2, <5>1
      <4>2. Met(c) = Walk(c, Having(c))
        BY DEF Met, Having
      <4>3. m \in Having(c) /\ last <= ParentOf(c, m)
        BY <1>0, <1>2, <2>4, <4>1, <4>2, ChainLemma
      <4>4. ParentOf(c, m) \in Met(c)[t] \cup {0}
        <5>1. ClosedIn(c, Having(c), Met(c)[t])
          BY <1>0, <1>2, WalksOK DEF MetOK, Follows
        <5> QED
          BY <2>4, <4>3, <5>1 DEF ClosedIn
      <4>5. ParentOf(c, m) # 0
        <5>1. last \in 1 .. MaxCommits
          BY <1>0, <2>4, ParentLemma
        <5> QED
          BY <4>3, <5>1, RemoteAssumption
      <4>6. ParentOf(c, m) \in V
        BY <2>4, <4>3, <4>4, <4>5
      <4> QED
        BY <2>11, <3>0, <4>6
    <3> QED
      BY <3>1, <3>2
  <2>13. \A m \in V : Commit(m) \in store'[c] /\ TreeOf(m)' \in store'[c] /\ LeafOf(m)' \in store'[c]
    BY <1>1, <2>4, <2>7, <2>10, PartsKept DEF Parts
  <2>14. Complete(c, t, FALSE)'
    BY <1>0, <1>1, <1>2, <2>4, <2>7, <2>12, <2>13, CompleteByNext
  <2>15. Complete(c, branch[c], partial[c])'
    BY <1>1, <1>2, <2>14 DEF Complete
  <2>16. Complete(Server, last, FALSE)
    <3>1. PICK H : H = History(Server)[t] /\ Follows(Server, DOMAIN commits, t, H)
      BY <1>0, <1>2, WalksOK DEF HistoryOK
    <3>2. shallow[Server] = {}
      BY DEF RemoteInv
    <3>3. ClosedIn(c, DOMAIN commits, H) /\ ClosedIn(Server, DOMAIN commits, H) /\ t \in H
      BY <1>5, <3>1, <3>2 DEF Follows, ClosedIn, ParentOf
    <3>4. History(c)[t] \subseteq H
      BY <1>0, <1>2, <3>3, WalksOK DEF HistoryOK, Follows
    <3>5. last \in H
      BY <1>0, <1>2, <2>4, <3>4, MetAll
    <3>6. History(Server)[last] \subseteq H
      BY <1>0, <2>4, <3>3, <3>5, WalksOK DEF HistoryOK, Follows
    <3>7. Complete(Server, t, FALSE)
      BY <1>0, <1>2, <1>7 DEF Holding, Backed
    <3> QED
      BY <3>1, <3>6, <3>7 DEF Complete
  <2>17. Complete(Server, last, FALSE)'
    BY <2>4, <2>7, <2>9, <2>16, ServerKept DEF Others
  <2>18. Backed(c)'
    BY <1>4, <2>5, <2>8, <2>17 DEF Backed
  <2>19. Holding(c)'
    BY <1>4, <2>15, <2>18 DEF Holding, Phases, Cloning, Pushing, Arrived
  <2> QED
    BY <1>1, <2>7, <2>9, <2>19, ClientStep
<1> QED
  BY <1>5, <1>6, <1>7

\* gc keeps what a complete branch needs.
LEMMA CollectedLemma ==
  ASSUME RemoteTypeOK, NEW r \in Repos, NEW promised, Complete(r, branch[r], promised),
         Gc(r), RemoteTypeOK', Kept
  PROVE  Complete(r, branch[r], promised)'
<1>1. store' = [store EXCEPT ![r] = store[r] \cap Reachable(r, branch[r])]
      /\ UNCHANGED <<commits, branch, shallow, partial, proc>>
  BY DEF Gc, Collected
<1>2. PICK b : b = branch[r] /\ b \in DOMAIN commits \cup {0}
  BY TipLemma
<1>3. \A m \in History(r)[b] : Parts(m) \subseteq Reachable(r, b)
  BY <1>2, ReachableAll
<1>4. (History(r)[b])' \subseteq History(r)[b] /\ History(r)[b] \subseteq DOMAIN commits
  BY <1>1, <1>2, HistoryKept, WalksOK DEF HistoryOK, Follows
<1>5. store'[r] = store[r] \cap Reachable(r, b)
  BY <1>1, <1>2 DEF RemoteTypeOK
<1>6. \A m \in History(r)[b] : TreeOf(m)' = TreeOf(m) /\ LeafOf(m)' = LeafOf(m)
  BY <1>4, PartsKept
<1>7. Complete(r, b, promised)'
  BY <1>2, <1>3, <1>4, <1>5, <1>6 DEF Complete, Parts
<1> QED
  BY <1>1, <1>2, <1>7 DEF Complete

LEMMA GcLemma ==
  ASSUME RemoteInv, NEW r \in Repos, Gc(r)
  PROVE  RemoteInv'
<1>0. RemoteTypeOK /\ Server \in Repos /\ \A c \in Clients : Holding(c)
  BY DEF RemoteInv, Repos
<1>1. store' = [store EXCEPT ![r] = store[r] \cap Reachable(r, branch[r])]
      /\ UNCHANGED <<commits, branch, shallow, partial, proc>>
  BY DEF Gc, Collected
<1>2. store' \in [Repos -> SUBSET Objects]
  BY <1>0, <1>1 DEF RemoteTypeOK
<1>3. RemoteTypeOK' /\ Kept
  BY <1>0, <1>1, <1>2, TypeKept DEF RemoteTypeOK
<1>4. \A x \in Repos \ {r} : store'[x] = store[x]
  BY <1>0, <1>1 DEF RemoteTypeOK
<1>5. CASE r = Server
  <2>1. Complete(Server, branch[Server], FALSE)'
    BY <1>0, <1>3, <1>5, CollectedLemma DEF RemoteInv
  <2>2. ASSUME NEW c \in Clients PROVE Holding(c)'
    <3>0. c \in Repos /\ c # Server /\ Holding(c) /\ store'[c] = store[c]
      BY <1>4, <1>5, ClientFacts
    <3>1. proc[c].pc # "put" /\ proc[c].mode # "shallow" /\ shallow[c] = {}
      BY <1>5 DEF Gc, Undisturbed
    <3>2. Phases(c)' /\ Cloning(c)' /\ Pushing(c)' /\ Backed(c)'
      BY <1>1, <3>0, <3>1 DEF Holding, Phases, Cloning, Pushing, Backed
    <3>3. PICK t, b, p, q : /\ t = proc[c].tip /\ t \in DOMAIN commits \cup {0}
                            /\ b = branch[c] /\ b \in DOMAIN commits \cup {0}
                            /\ p = (proc[c].mode = "partial") /\ q = partial[c]
      BY <1>0, <3>0, TipLemma
    <3>4. Complete(c, t, p) => Complete(c, t, p)'
      BY <1>0, <1>1, <1>3, <3>0, <3>3, CompleteKept
    <3>5. Complete(c, b, q) => Complete(c, b, q)'
      BY <1>0, <1>1, <1>3, <3>0, <3>3, CompleteKept
    <3>6. Arrived(c)'
      BY <1>1, <3>0, <3>1, <3>3, <3>4 DEF Holding, Arrived, Complete
    <3>7. proc'[c].pc # "mark" => Complete(c, branch[c], partial[c])'
      BY <1>1, <3>0, <3>3, <3>5 DEF Holding, Complete
    <3> QED
      BY <3>2, <3>6, <3>7 DEF Holding
  <2> QED
    BY <1>1, <1>3, <2>1, <2>2 DEF RemoteInv
<1>6. CASE r # Server
  <2>1. r \in Clients /\ proc[r].pc = "idle" /\ Holding(r)
    BY <1>0, <1>6 DEF Repos, Gc
  <2>2. Others(r)
    BY <1>1, <1>4, <1>6 DEF Others, Repos
  <2>3. PICK q : q = partial[r]
    OBVIOUS
  <2>4. Complete(r, branch[r], q)'
    BY <1>0, <1>3, <2>1, <2>3, CollectedLemma DEF Holding
  <2>5. Complete(r, branch[r], partial[r])'
    BY <1>1, <2>3, <2>4 DEF Complete
  <2>6. \A n \in shallow'[r] : Complete(Server, n, FALSE)'
    <3>1. shallow[r] \subseteq DOMAIN commits
      BY <1>0, TipLemma
    <3> QED
      BY <1>1, <1>3, <2>1, <2>2, <3>1, ServerKept DEF Holding, Backed, Others
  <2>7. Phases(r)' /\ Cloning(r)' /\ Pushing(r)' /\ Arrived(r)' /\ Backed(r)'
    BY <1>1, <2>1, <2>6 DEF Holding, Phases, Cloning, Pushing, Arrived, Backed
  <2>8. Holding(r)'
    BY <2>5, <2>7 DEF Holding
  <2> QED
    BY <1>1, <1>3, <2>1, <2>2, <2>8, ClientStep
<1> QED
  BY <1>5, <1>6

-----------------------------------------------------------------------------
(* The invariant, and what it gives.                                        *)

LEMMA InitLemma == Init => RemoteInv
<1> SUFFICES ASSUME Init PROVE RemoteInv
  OBVIOUS
<1>1. RemoteTypeOK
  <2>1. Len(commits) = 0 /\ commits \in Seq([parent : 0 .. MaxCommits, leaf : Leaves])
        /\ DOMAIN commits = {}
    BY DEF Init
  <2>2. NoClone \in Commands(0)
    BY DEF NoClone, Idle, Commands
  <2>3. proc \in [Clients -> Commands(Len(commits))]
    BY <2>1, <2>2 DEF Init
  <2> QED
    BY <2>1, <2>3, RemoteAssumption DEF Init, RemoteTypeOK
<1>2. \A r \in Repos : branch[r] = 0 /\ shallow[r] = {} /\ History(r)[0] = {}
  BY <1>1, WalksOK DEF Init, HistoryOK
<1>3. \A r \in Repos : \A q : Complete(r, branch[r], q)
  BY <1>2 DEF Complete
<1>4. \A c \in Clients : c \in Repos /\ proc[c].pc = "none" /\ proc[c].mode = "none"
  BY DEF Init, NoClone, Idle, Repos
<1>5. \A c \in Clients : Holding(c)
  BY <1>2, <1>3, <1>4 DEF Holding, Phases, Cloning, Pushing, Arrived, Backed
<1> QED
  BY <1>1, <1>2, <1>3, <1>5 DEF RemoteInv, Repos

LEMMA StepLemma == RemoteInv /\ [Next]_vars => RemoteInv'
<1> SUFFICES ASSUME RemoteInv, [Next]_vars PROVE RemoteInv'
  OBVIOUS
<1>1. ASSUME NEW r \in Repos, Gc(r) PROVE RemoteInv'
  BY <1>1, GcLemma
<1>2. ASSUME NEW c \in Clients, InitRepo(c) PROVE RemoteInv'
  BY <1>2, InitRepoLemma
<1>3. ASSUME NEW c \in Clients, NEW l \in Leaves, MakeCommit(c, l) PROVE RemoteInv'
  BY <1>3, MakeCommitLemma
<1>4. ASSUME NEW c \in Clients, PushStart(c) PROVE RemoteInv'
  BY <1>4, PushStartLemma
<1>5. ASSUME NEW c \in Clients, NEW batch \in SUBSET proc[c].todo, PutObjects(c, batch)
      PROVE  RemoteInv'
  BY <1>5, PutObjectsLemma
<1>6. ASSUME NEW c \in Clients, SetRef(c) PROVE RemoteInv'
  BY <1>6, SetRefLemma
<1>7. ASSUME NEW c \in Clients, NEW mode \in Modes \cup {"fetch", "pull"}, FetchStart(c, mode)
      PROVE  RemoteInv'
  BY <1>7, FetchStartLemma
<1>8. ASSUME NEW c \in Clients,
             \/ GetSkeleton(c)
             \/ \E batch \in SUBSET {Leaf(l) : l \in Leaves} : GetLeaves(c, batch)
      PROVE  RemoteInv'
  BY <1>8, GettingLemma
<1>9. ASSUME NEW c \in Clients, Fetched(c) PROVE RemoteInv'
  BY <1>9, FetchedLemma
<1>10. ASSUME NEW c \in Clients, Record(c) PROVE RemoteInv'
  BY <1>10, RecordLemma
<1>11. ASSUME NEW c \in Clients, Mark(c) PROVE RemoteInv'
  BY <1>11, MarkLemma
<1>12. ASSUME NEW c \in Clients, NEW n \in 1 .. Len(commits), Backfill(c, n) PROVE RemoteInv'
  BY <1>12, BackfillLemma
<1>13. ASSUME NEW c \in Clients, Kill(c) PROVE RemoteInv'
  BY <1>13, KillLemma
<1>14. CASE UNCHANGED vars
  <2>1. UNCHANGED <<commits, store, branch, shallow, partial, proc>>
    BY <1>14 DEF vars, repos
  <2>2. RemoteTypeOK' /\ Kept
    BY <2>1 DEF RemoteInv, RemoteTypeOK, Kept
  <2>3. shallow'[Server] = {} /\ Complete(Server, branch[Server], FALSE)'
    BY <2>1, <2>2, ServerKept
  <2>4. \A c \in Clients : Holding(c)'
    BY <2>1, <2>2, HoldingKept
  <2> QED
    BY <2>2, <2>3, <2>4 DEF RemoteInv
<1> QED
  BY <1>1, <1>2, <1>3, <1>4, <1>5, <1>6, <1>7, <1>8, <1>9, <1>10, <1>11, <1>12, <1>13, <1>14
  DEF Next

LEMMA RemoteInvLemma == Spec => []RemoteInv
BY InitLemma, StepLemma, PTL DEF Spec

\* The type invariant: parents are older than their children, whatever mixture
\* of pushes, pulls and clones the commits come from.
THEOREM RemoteTyped == Spec => []RemoteTypeOK
<1>1. RemoteInv => RemoteTypeOK
  BY DEF RemoteInv
<1> QED
  BY <1>1, RemoteInvLemma, PTL

\* verify_remote finds nothing missing on the server, whatever clients push at
\* the same time, from full, shallow or partial clones, and wherever they die
\* (op_set_ref, op_put_pack, push).
THEOREM ServerCompleteTheorem == Spec => []ServerComplete
<1>1. RemoteInv => ServerComplete
  <2> SUFFICES ASSUME RemoteInv PROVE VerifyRemote = {}
    BY DEF ServerComplete
  <2>0. RemoteTypeOK /\ Server \in Repos /\ Complete(Server, branch[Server], FALSE)
    BY DEF RemoteInv, Repos
  <2>1. PICK b : b = branch[Server] /\ b \in DOMAIN commits \cup {0}
    BY <2>0, TipLemma
  <2>2. \A m \in History(Server)[b] : Parts(m) \subseteq store[Server]
    BY <2>0, <2>1 DEF Complete, Parts
  <2>3. Met(Server)[b] \subseteq History(Server)[b]
    BY <2>0, <2>1, MetAll
  <2> QED
    BY <2>1, <2>2, <2>3 DEF VerifyRemote, Parts
<1> QED
  BY <1>1, RemoteInvLemma, PTL

\* A client's branch names a history it has, down to its boundary, and the
\* leaves too unless it is a partial clone (clone, clone_depth, clone_partial,
\* pull, commit, gc).
THEOREM BranchCompleteTheorem == Spec => []BranchComplete
<1>1. RemoteInv => BranchComplete
  BY DEF RemoteInv, Holding, BranchComplete
<1> QED
  BY <1>1, RemoteInvLemma, PTL

\* A fetch that is done has everything, also on top of what a killed one left
\* (fetch_reachable, fetch_leaves).
THEOREM FetchCompleteTheorem == Spec => []FetchComplete
<1>1. RemoteInv => FetchComplete
  BY DEF RemoteInv, Holding, Arrived, FetchComplete, Complete
<1> QED
  BY <1>1, RemoteInvLemma, PTL

=============================================================================
