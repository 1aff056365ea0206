---------------------------- MODULE BlocksProofs ----------------------------
(***************************************************************************)
(* Proofs about Blocks.tla and ChunkPos.tla.  First arithmetic: positions  *)
(* and their chunks, slots and entries give each other back, and so does a *)
(* packed word its entries, whatever the sizes.  Then one chunk: a section *)
(* that the game writes reads as what is there.  Then worlds: each change  *)
(* keeps BlocksInv, that every chunk holds what is there, and from it the  *)
(* answers of inspect, where-changed, find and map follow.                 *)
(***************************************************************************)
EXTENDS Blocks, FiniteSetTheorems, WellFoundedInduction, TLAPS

-----------------------------------------------------------------------------
(* Division.                                                               *)

\* A floor division and its rest give the number back.
LEMMA DivMod ==
  ASSUME NEW a \in Int, NEW n \in Nat \ {0}
  PROVE  /\ a \div n \in Int /\ a % n \in 0 .. n - 1
         /\ a = (a \div n) * n + (a % n)
BY Z3

\* A product with a positive number is at least that number, or not positive.
LEMMA Multiples ==
  ASSUME NEW d \in Int, NEW n \in Nat \ {0}
  PROVE  d * n \in Int /\ (d >= 1 => d * n >= n) /\ (d <= -1 => d * n <= -n)
BY Z3

\* Quotient and rest are the only ones there are.
LEMMA DivUnique ==
  ASSUME NEW q \in Int, NEW n \in Nat \ {0}, NEW r \in 0 .. n - 1
  PROVE  (q * n + r) \div n = q /\ (q * n + r) % n = r
<1> DEFINE a == q * n + r
<1> DEFINE p == a \div n
<1>1. a \in Int /\ p \in Int /\ a % n \in 0 .. n - 1 /\ a = p * n + (a % n)
  BY DivMod
<1> HIDE DEF p
<1>2. (q - p) * n = q * n - p * n
  BY <1>1, Z3
<1>3. (q - p) * n = (a % n) - r
  BY <1>1, <1>2
<1>4. q - p < 1 /\ q - p > -1
  BY <1>1, <1>3, Multiples
<1>5. q = p
  BY <1>1, <1>4
<1> QED
  BY <1>1, <1>5 DEF p

\* A row and a column below n make an index below n * n, which gives them back.
LEMMA Cells ==
  ASSUME NEW n \in Nat \ {0}, NEW x \in 0 .. n - 1, NEW z \in 0 .. n - 1
  PROVE  /\ x + z * n \in 0 .. n * n - 1
         /\ (x + z * n) % n = x /\ (x + z * n) \div n = z
<1>1. z * n + x = x + z * n
  BY Z3
<1>2. (z * n + x) % n = x /\ (z * n + x) \div n = z
  BY DivUnique
<1>3. (n - 1 - z) * n >= 0 /\ (n - 1 - z) * n = n * n - n - z * n /\ z * n >= 0
  BY Z3
<1>4. x + z * n \in Int /\ n * n \in Int
  BY Z3
<1>5. x + z * n >= 0 /\ x + z * n <= n * n - 1
  BY <1>3, <1>4, Z3
<1> QED
  BY <1>1, <1>2, <1>4, <1>5

\* An index below n * n has a row and a column below n.
LEMMA RowColumn ==
  ASSUME NEW n \in Nat \ {0}, NEW i \in 0 .. n * n - 1
  PROVE  i \div n \in 0 .. n - 1 /\ i % n \in 0 .. n - 1 /\ i = (i % n) + (i \div n) * n
<1>1. n * n \in Int /\ i \in Int
  BY Z3
<1>2. i \div n \in Int /\ i % n \in 0 .. n - 1 /\ i = (i \div n) * n + (i % n)
  BY <1>1, DivMod
<1> DEFINE q == i \div n
           r == i % n
<1>3. q \in Int /\ r \in 0 .. n - 1 /\ i = q * n + r
  BY <1>2
<1> HIDE DEF q, r
<1>4. q > -1
  BY <1>1, <1>3, Multiples
<1>5. q - n < 1 /\ (q - n) * n = q * n - n * n /\ q # n
  BY <1>1, <1>3, Multiples, Z3
<1>6. q \in 0 .. n - 1 /\ q * n + r = r + q * n
  BY <1>3, <1>4, <1>5, Z3
<1> QED
  BY <1>2, <1>3, <1>6 DEF q, r

-----------------------------------------------------------------------------
(* Chunks and region files.                                                *)

\* A chunk has a slot in the table of its region file, and the position that
\* the slot's index gives is the chunk's own: a chunk is found where it was
\* written, for negative coordinates too.
THEOREM ChunkRoundTrip ==
  \A x, z \in Int :
    /\ region_index(<<x, z>>) \in 0 .. RegionSide * RegionSide - 1
    /\ from_region_index(region(<<x, z>>), region_index(<<x, z>>)) = <<x, z>>
<1> SUFFICES ASSUME NEW x \in Int, NEW z \in Int
    PROVE  /\ region_index(<<x, z>>) \in 0 .. RegionSide * RegionSide - 1
           /\ from_region_index(region(<<x, z>>), region_index(<<x, z>>)) = <<x, z>>
  OBVIOUS
<1>0. RegionSide \in Nat \ {0}
  BY SidesAssumption
<1> DEFINE lx == x % RegionSide
           lz == z % RegionSide
           rx == x \div RegionSide
           rz == z \div RegionSide
<1>1. /\ lx \in 0 .. RegionSide - 1 /\ rx \in Int /\ x = rx * RegionSide + lx
      /\ lz \in 0 .. RegionSide - 1 /\ rz \in Int /\ z = rz * RegionSide + lz
  BY <1>0, DivMod
<1>2. region_index(<<x, z>>) = lx + lz * RegionSide /\ region(<<x, z>>) = <<rx, rz>>
  BY DEF region_index, region
<1> HIDE DEF lx, lz, rx, rz
<1>3. /\ lx + lz * RegionSide \in 0 .. RegionSide * RegionSide - 1
      /\ (lx + lz * RegionSide) % RegionSide = lx
      /\ (lx + lz * RegionSide) \div RegionSide = lz
  BY <1>0, <1>1, Cells
<1>4. from_region_index(<<rx, rz>>, lx + lz * RegionSide) = <<x, z>>
  BY <1>1, <1>3 DEF from_region_index
<1> QED
  BY <1>2, <1>3, <1>4

\* No two slots of a table are the same chunk: what is read from slot i of
\* region r would be written back to slot i of region r.
THEOREM SlotRoundTrip ==
  \A rx, rz \in Int, i \in 0 .. RegionSide * RegionSide - 1 :
    /\ region(from_region_index(<<rx, rz>>, i)) = <<rx, rz>>
    /\ region_index(from_region_index(<<rx, rz>>, i)) = i
<1> SUFFICES ASSUME NEW rx \in Int, NEW rz \in Int, NEW i \in 0 .. RegionSide * RegionSide - 1
    PROVE  /\ region(from_region_index(<<rx, rz>>, i)) = <<rx, rz>>
           /\ region_index(from_region_index(<<rx, rz>>, i)) = i
  OBVIOUS
<1>0. RegionSide \in Nat \ {0}
  BY SidesAssumption
<1> DEFINE lx == i % RegionSide
           lz == i \div RegionSide
<1>1. lx \in 0 .. RegionSide - 1 /\ lz \in 0 .. RegionSide - 1 /\ i = lx + lz * RegionSide
  BY <1>0, RowColumn
<1>2. from_region_index(<<rx, rz>>, i) = <<rx * RegionSide + lx, rz * RegionSide + lz>>
  BY DEF from_region_index
<1> HIDE DEF lx, lz
<1>3. /\ (rx * RegionSide + lx) \div RegionSide = rx /\ (rx * RegionSide + lx) % RegionSide = lx
      /\ (rz * RegionSide + lz) \div RegionSide = rz /\ (rz * RegionSide + lz) % RegionSide = lz
  BY <1>0, <1>1, DivUnique
<1>4. region(<<rx * RegionSide + lx, rz * RegionSide + lz>>) = <<rx, rz>>
  BY <1>3 DEF region
<1>5. region_index(<<rx * RegionSide + lx, rz * RegionSide + lz>>) = lx + lz * RegionSide
  BY <1>3 DEF region_index
<1> QED
  BY <1>1, <1>2, <1>4, <1>5

-----------------------------------------------------------------------------
(* Blocks and entries of a section.                                        *)

LEMMA Layer == Side * Side \in Nat \ {0}
BY SidesAssumption, Z3

\* The position that where_changed, diff and map work out for the entry that
\* inspect reads is the position inspected: the tools name one block alike.
THEOREM BlockRoundTrip ==
  \A x, y, z \in Int :
    block_pos(chunk_of(<<x, y, z>>), section_of(<<x, y, z>>), block_index(<<x, y, z>>))
      = <<x, y, z>>
<1> SUFFICES ASSUME NEW x \in Int, NEW y \in Int, NEW z \in Int
    PROVE  block_pos(chunk_of(<<x, y, z>>), section_of(<<x, y, z>>), block_index(<<x, y, z>>))
             = <<x, y, z>>
  OBVIOUS
<1>0. Side \in Nat \ {0} /\ Side * Side \in Nat \ {0}
  BY SidesAssumption, Layer
<1> DEFINE lx == x % Side
           ly == y % Side
           lz == z % Side
           cx == x \div Side
           sy == y \div Side
           cz == z \div Side
           row == lx + lz * Side
<1>1. /\ lx \in 0 .. Side - 1 /\ cx \in Int /\ x = cx * Side + lx
      /\ ly \in 0 .. Side - 1 /\ sy \in Int /\ y = sy * Side + ly
      /\ lz \in 0 .. Side - 1 /\ cz \in Int /\ z = cz * Side + lz
  BY <1>0, DivMod
<1>2. /\ chunk_of(<<x, y, z>>) = <<cx, cz>> /\ section_of(<<x, y, z>>) = sy
      /\ block_index(<<x, y, z>>) = ly * (Side * Side) + lz * Side + lx
  BY DEF chunk_of, section_of, block_index
<1> HIDE DEF lx, ly, lz, cx, sy, cz
<1>3. row \in 0 .. Side * Side - 1 /\ row % Side = lx /\ row \div Side = lz
  BY <1>0, <1>1, Cells
<1>4. ly * (Side * Side) + lz * Side + lx = ly * (Side * Side) + row
  BY <1>0, <1>1, Z3
<1> HIDE DEF row
<1>5. /\ (ly * (Side * Side) + row) \div (Side * Side) = ly
      /\ (ly * (Side * Side) + row) % (Side * Side) = row
  BY <1>0, <1>1, <1>3, DivUnique
<1>6. block_pos(<<cx, cz>>, sy, ly * (Side * Side) + row) = <<x, y, z>>
  BY <1>1, <1>3, <1>5 DEF block_pos
<1> QED
  BY <1>2, <1>4, <1>6

-----------------------------------------------------------------------------
(* Powers of two and packed words.                                         *)

\* The order of the naturals, as a relation.
Below == {p \in Nat \X Nat : p[1] < p[2]}

\* A set of naturals that is not empty has a least.
LEMMA LeastLemma ==
  ASSUME NEW T, T \subseteq Nat, NEW x \in T
  PROVE  \E n \in T : \A m \in T : n <= m
<1>1. Below = OpToRel(<, Nat)
  BY DEF Below, OpToRel
<1>2. IsWellFoundedOn(Below, Nat)
  BY <1>1, NatLessThanWellFounded, Zenon
<1>3. PICK n \in T : \A m \in T : ~(<<m, n>> \in Below)
  BY <1>2, WFMin
<1>4. ASSUME NEW m \in T PROVE n <= m
  <2>1. m \in Nat /\ n \in Nat
    OBVIOUS
  <2>2. ~(m < n)
    BY <1>3, <2>1 DEF Below
  <2> QED
    BY <2>1, <2>2
<1> QED
  BY <1>4

LEMMA NatTimes ==
  ASSUME NEW a \in Nat, NEW b \in Nat, NEW c \in Nat
  PROVE  a * b \in Nat /\ c + a * b \in Nat
BY Z3

\* A function of the first m naturals, given by its start and by a linear step
\* from each value to the next.
Steps(g, m, a, k, add) == g[0] = a /\ \A n \in 1 .. m : g[n] = add[n] + k * g[n - 1]

LinearTo(g, m, a, k, add) == g \in [0 .. m -> Nat] /\ Steps(g, m, a, k, add)

\* There is one.
LEMMA Linear ==
  ASSUME NEW m \in Nat, NEW a \in Nat, NEW k \in Nat, NEW add \in [1 .. m -> Nat]
  PROVE  \E g : LinearTo(g, m, a, k, add)
<1> DEFINE Bad == {n \in 0 .. m : ~\E g : LinearTo(g, n, a, k, add)}
<1>1. ASSUME NEW n \in Bad, \A i \in Bad : n <= i PROVE FALSE
  <2>1. CASE n = 0
    <3>1. [i \in 0 .. 0 |-> a] \in [0 .. 0 -> Nat] /\ 1 .. 0 = {} /\ 0 \in 0 .. 0
      OBVIOUS
    <3>2. LinearTo([i \in 0 .. 0 |-> a], 0, a, k, add)
      BY <3>1 DEF LinearTo, Steps
    <3> QED
      BY <2>1, <3>2
  <2>2. CASE n # 0
    <3>1. n \in Nat /\ n >= 1 /\ n <= m /\ n - 1 \in 0 .. m /\ n - 1 < n /\ n - 1 \in Nat
      BY <2>2
    <3>2. PICK g : LinearTo(g, n - 1, a, k, add)
      BY <1>1, <3>1
    <3>3. /\ g \in [0 .. n - 1 -> Nat] /\ g[0] = a
          /\ \A i \in 1 .. n - 1 : g[i] = add[i] + k * g[i - 1]
      BY <3>2 DEF LinearTo, Steps
    <3>4. add[n] \in Nat /\ g[n - 1] \in Nat
      BY <3>1, <3>3
    <3>5. add[n] + k * g[n - 1] \in Nat
      BY <3>4, NatTimes, Zenon
    <3> DEFINE f == [i \in 0 .. n |-> IF i = n THEN add[n] + k * g[n - 1] ELSE g[i]]
    <3>6. f \in [0 .. n -> Nat]
      BY <3>1, <3>3, <3>5
    <3>7. f[0] = a /\ f[n] = add[n] + k * f[n - 1]
      BY <3>1, <3>3
    <3>8. ASSUME NEW i \in 1 .. n - 1 PROVE f[i] = add[i] + k * f[i - 1]
      <4>1. f[i] = g[i] /\ f[i - 1] = g[i - 1]
        BY <3>1
      <4> QED
        BY <3>3, <4>1
    <3> HIDE DEF f
    <3>9. \A i \in 1 .. n : f[i] = add[i] + k * f[i - 1]
      BY <3>1, <3>7, <3>8
    <3>10. LinearTo(f, n, a, k, add)
      BY <3>6, <3>7, <3>9 DEF LinearTo, Steps
    <3> QED
      BY <3>10
  <2> QED
    BY <2>1, <2>2
<1>2. Bad \subseteq Nat /\ m \in 0 .. m
  OBVIOUS
<1>3. m \notin Bad
  <2> HIDE DEF Bad
  <2> QED
    BY <1>1, <1>2, LeastLemma
<1> QED
  BY <1>2, <1>3

\* The values of a function that steps so are naturals.
LEMMA LinearType ==
  ASSUME NEW m \in Nat, NEW a \in Nat, NEW k \in Nat, NEW add \in [1 .. m -> Nat],
         NEW f, Steps(f, m, a, k, add)
  PROVE  \A n \in 0 .. m : f[n] \in Nat
<1>0. f[0] = a /\ \A n \in 1 .. m : f[n] = add[n] + k * f[n - 1]
  BY DEF Steps
<1> DEFINE Bad == {n \in 0 .. m : f[n] \notin Nat}
<1>1. ASSUME NEW n \in Bad, \A i \in Bad : n <= i PROVE FALSE
  <2>1. n # 0 /\ n \in 1 .. m /\ n - 1 \in 0 .. m /\ ~(n <= n - 1)
    BY <1>0
  <2>2. n - 1 \notin Bad
    BY <1>1, <2>1
  <2>3. f[n - 1] \in Nat /\ add[n] \in Nat
    BY <2>1, <2>2
  <2>4. add[n] + k * f[n - 1] \in Nat
    BY <2>3, NatTimes, Zenon
  <2> QED
    BY <1>0, <2>1, <2>4
<1>2. Bad \subseteq Nat
  OBVIOUS
<1>3. \A x \in Bad : FALSE
  <2> HIDE DEF Bad
  <2> QED
    BY <1>1, <1>2, LeastLemma
<1> QED
  BY <1>3

\* A power of two is twice the one before.
LEMMA Pow2Unfolds ==
  /\ Pow2[0] = 1 /\ DOMAIN Pow2 = 0 .. WordBits
  /\ \A n \in 0 .. WordBits : Pow2[n] \in Nat
  /\ \A n \in 1 .. WordBits : Pow2[n] = 2 * Pow2[n - 1]
<1>0. WordBits \in Nat
  BY SizesAssumption
<1> DEFINE Step(f) == [n \in 0 .. WordBits |-> IF n = 0 THEN 1 ELSE 2 * f[n - 1]]
<1>1. PICK zero \in [1 .. WordBits -> Nat] : \A n \in 1 .. WordBits : zero[n] = 0
  <2>1. [n \in 1 .. WordBits |-> 0] \in [1 .. WordBits -> Nat]
    OBVIOUS
  <2> QED
    BY <2>1
<1>2. PICK g : LinearTo(g, WordBits, 1, 2, zero)
  <2> HIDE DEF Step
  <2> QED
    BY <1>0, Linear
<1>3. /\ g \in [0 .. WordBits -> Nat] /\ g[0] = 1
      /\ \A n \in 1 .. WordBits : g[n] = 2 * g[n - 1]
  <2>1. /\ g \in [0 .. WordBits -> Nat] /\ g[0] = 1
        /\ \A n \in 1 .. WordBits : g[n] = zero[n] + 2 * g[n - 1]
    BY <1>2 DEF LinearTo, Steps
  <2>2. \A n \in 1 .. WordBits : g[n - 1] \in Nat /\ zero[n] = 0
    BY <1>0, <1>1, <2>1
  <2> QED
    BY <2>1, <2>2
<1>4. g = Step(g)
  BY <1>0, <1>3
<1>5. Pow2 = CHOOSE f : f = Step(f)
  BY Zenon DEF Pow2
<1>6. Pow2 = Step(Pow2)
  <2> HIDE DEF Step
  <2> QED
    BY <1>4, <1>5, Zenon
<1>7. Pow2 = [n \in 0 .. WordBits |-> IF n = 0 THEN 1 ELSE 2 * Pow2[n - 1]]
  BY <1>6, Zenon
<1>8. Pow2[0] = 1 /\ DOMAIN Pow2 = 0 .. WordBits
  BY <1>0, <1>7
<1>9. \A n \in 1 .. WordBits : Pow2[n] = 2 * Pow2[n - 1]
  BY <1>0, <1>7
<1>10. \A n \in 1 .. WordBits : Pow2[n] \in Int /\ Pow2[n - 1] \in Int => Pow2[n] = 0 + 2 * Pow2[n - 1]
  BY <1>9
<1> DEFINE Bad == {n \in 0 .. WordBits : Pow2[n] \notin Nat}
<1>11. ASSUME NEW n \in Bad, \A i \in Bad : n <= i PROVE FALSE
  <2>1. n # 0 /\ n \in 1 .. WordBits /\ n - 1 \in 0 .. WordBits /\ ~(n <= n - 1)
    BY <1>0, <1>8
  <2>2. Pow2[n - 1] \in Nat
    BY <1>11, <2>1
  <2> QED
    BY <1>9, <2>1, <2>2
<1>12. Bad \subseteq Nat
  BY <1>0
<1>13. \A x \in Bad : FALSE
  <2> HIDE DEF Bad
  <2> QED
    BY <1>11, <1>12, LeastLemma
<1> QED
  BY <1>8, <1>9, <1>13

\* Powers of two are positive.
LEMMA Pow2Positive == \A n \in 0 .. WordBits : Pow2[n] \in Nat /\ Pow2[n] >= 1
<1>0. WordBits \in Nat
  BY SizesAssumption
<1> DEFINE Bad == {n \in 0 .. WordBits : ~(Pow2[n] >= 1)}
<1>1. ASSUME NEW n \in Bad, \A i \in Bad : n <= i PROVE FALSE
  <2>1. n # 0
    BY Pow2Unfolds
  <2>2. n \in 1 .. WordBits /\ n - 1 \in 0 .. WordBits /\ ~(n <= n - 1)
    BY <1>0, <2>1
  <2>3. Pow2[n - 1] >= 1 /\ Pow2[n - 1] \in Nat /\ Pow2[n] = 2 * Pow2[n - 1]
    BY <1>1, <2>2, Pow2Unfolds
  <2> QED
    BY <2>3
<1>2. Bad \subseteq Nat
  BY <1>0
<1>3. \A x \in Bad : FALSE
  <2> HIDE DEF Bad
  <2> QED
    BY <1>1, <1>2, LeastLemma
<1> QED
  BY <1>3, Pow2Unfolds

LEMMA TimesTwice ==
  ASSUME NEW a \in Nat, NEW b \in Nat
  PROVE  2 * (a * b) = a * (2 * b) /\ a * 1 = a /\ a * b = b * a
BY Z3

\* The power of a sum is the product of the powers.
LEMMA Pow2Sum ==
  ASSUME NEW a \in Nat, NEW b \in Nat, a + b <= WordBits
  PROVE  Pow2[a + b] = Pow2[a] * Pow2[b]
<1>0. WordBits \in Nat /\ a \in 0 .. WordBits /\ b \in 0 .. WordBits - a
  BY SizesAssumption
<1> DEFINE Bad == {n \in 0 .. WordBits - a : ~(Pow2[a + n] = Pow2[a] * Pow2[n])}
<1>1. ASSUME NEW n \in Bad, \A i \in Bad : n <= i PROVE FALSE
  <2>0. Pow2[a] \in Nat /\ Pow2[0] = 1 /\ a + 0 = a
    BY <1>0, Pow2Unfolds
  <2>1. n # 0
    BY <2>0, TimesTwice
  <2>2. /\ n \in 1 .. WordBits /\ n - 1 \in 0 .. WordBits - a /\ n - 1 \in 0 .. WordBits
        /\ a + n \in 1 .. WordBits /\ (a + n) - 1 = a + (n - 1) /\ ~(n <= n - 1)
    BY <1>0, <2>1
  <2>3. Pow2[a + (n - 1)] = Pow2[a] * Pow2[n - 1]
    BY <1>1, <2>2
  <2>4. Pow2[n - 1] \in Nat /\ Pow2[n] = 2 * Pow2[n - 1] /\ Pow2[a + n] = 2 * Pow2[a + (n - 1)]
    BY <2>2, Pow2Unfolds
  <2>5. 2 * (Pow2[a] * Pow2[n - 1]) = Pow2[a] * (2 * Pow2[n - 1])
    BY <2>0, <2>4, TimesTwice
  <2> QED
    BY <2>3, <2>4, <2>5
<1>2. Bad \subseteq Nat
  BY <1>0
<1>3. \A x \in Bad : FALSE
  <2> HIDE DEF Bad
  <2> QED
    BY <1>1, <1>2, LeastLemma
<1> QED
  BY <1>0, <1>3

LEMMA TimesMore ==
  ASSUME NEW a \in Nat, NEW b \in Nat, a >= 1, b >= 1
  PROVE  a * b \in Nat /\ a * b >= a /\ a * b >= b
BY Z3

\* A greater exponent makes a greater power.
LEMMA Pow2Grows ==
  ASSUME NEW a \in 0 .. WordBits, NEW b \in 0 .. WordBits
  PROVE  (a <= b => Pow2[a] <= Pow2[b]) /\ (a < b => 2 * Pow2[a] <= Pow2[b])
<1>0. WordBits \in Nat
  BY SizesAssumption
<1>1. ASSUME NEW c \in 0 .. WordBits, c <= b PROVE Pow2[c] <= Pow2[b]
  <2>1. /\ b - c \in Nat /\ c \in Nat /\ c + (b - c) = b /\ c + (b - c) <= WordBits
        /\ b - c \in 0 .. WordBits
    BY <1>0, <1>1
  <2>2. Pow2[b] = Pow2[c] * Pow2[b - c]
    BY <2>1, Pow2Sum
  <2>3. Pow2[c] \in Nat /\ Pow2[c] >= 1 /\ Pow2[b - c] \in Nat /\ Pow2[b - c] >= 1
    BY <2>1, Pow2Positive
  <2> QED
    BY <2>2, <2>3, TimesMore
<1>2. ASSUME a < b PROVE 2 * Pow2[a] <= Pow2[b]
  <2>1. a + 1 \in 1 .. WordBits /\ a + 1 \in 0 .. WordBits /\ (a + 1) - 1 = a /\ a + 1 <= b
    BY <1>0, <1>2
  <2>2. Pow2[a + 1] = 2 * Pow2[a]
    BY <2>1, Pow2Unfolds
  <2> QED
    BY <1>1, <2>1, <2>2
<1> QED
  BY <1>1, <1>2

\* A word and what is left of it when its first entries are taken off.
Digits(r, ids, base, from, to) ==
  /\ r[to + 1] = 0
  /\ \A k \in from .. to : r[k] = ids[k] + base * r[k + 1]
  /\ \A k \in from .. to + 1 : r[k] \in Nat

\* The entries from .. to fit in a word.
InWord(ids, bits, from, to) ==
  /\ bits \in 1 .. WordBits /\ from \in Nat /\ to \in Nat /\ from <= to + 1
  /\ (to + 1 - from) * bits <= WordBits
  /\ \A k \in from .. to : ids[k] \in 0 .. Pow2[bits] - 1

LEMMA InWordType ==
  ASSUME NEW ids, NEW bits, NEW from, NEW to, InWord(ids, bits, from, to)
  PROVE  /\ WordBits \in Nat /\ WordBits \in 0 .. WordBits
         /\ bits \in 0 .. WordBits /\ bits \in 1 .. WordBits /\ bits \in Nat
         /\ from \in Nat /\ to \in Nat /\ from <= to + 1
         /\ to + 1 - from \in Nat /\ from \in from .. to + 1
         /\ Pow2[bits] \in Nat \ {0} /\ Pow2[WordBits] \in Nat
         /\ \A k \in from .. to : ids[k] \in 0 .. Pow2[bits] - 1 /\ ids[k] \in Nat
<1>1. WordBits \in Nat /\ bits \in 1 .. WordBits /\ from \in Nat /\ to \in Nat /\ from <= to + 1
  BY SizesAssumption DEF InWord
<1>2. Pow2[bits] \in Nat \ {0} /\ Pow2[WordBits] \in Nat
  BY <1>1, Pow2Positive
<1>3. \A k \in from .. to : ids[k] \in 0 .. Pow2[bits] - 1
  BY DEF InWord
<1> QED
  BY <1>1, <1>2, <1>3

\* How a word is built.
LEMMA WordUnfolds ==
  ASSUME NEW ids, NEW bits, NEW from, NEW to, InWord(ids, bits, from, to)
  PROVE  \E r : Digits(r, ids, Pow2[bits], from, to) /\ Word(ids, bits, from, to) = r[from]
<1> DEFINE base == Pow2[bits]
           m == to + 1 - from
           Step(f) == [k \in from .. to + 1 |-> IF k > to THEN 0 ELSE ids[k] + Pow2[bits] * f[k + 1]]
<1>0. /\ base \in Nat /\ m \in Nat /\ from \in Nat /\ to \in Nat /\ from <= to + 1
      /\ \A k \in from .. to : ids[k] \in Nat
  BY InWordType
<1>1. PICK add \in [1 .. m -> Nat] : \A n \in 1 .. m : add[n] = ids[to + 1 - n]
  <2>1. [n \in 1 .. m |-> ids[to + 1 - n]] \in [1 .. m -> Nat]
    BY <1>0
  <2> QED
    BY <2>1
<1>2. PICK g : LinearTo(g, m, 0, base, add)
  <2> HIDE DEF base, m, Step
  <2> QED
    BY <1>0, Linear
<1>3. /\ g \in [0 .. m -> Nat] /\ g[0] = 0
      /\ \A n \in 1 .. m : g[n] = add[n] + base * g[n - 1]
  BY <1>2 DEF LinearTo, Steps
<1> DEFINE h == [k \in from .. to + 1 |-> g[to + 1 - k]]
<1>4. h = Step(h)
  <2>1. ASSUME NEW k \in from .. to + 1, k > to PROVE h[k] = 0
    BY <1>0, <1>3, <2>1
  <2>2. ASSUME NEW k \in from .. to + 1, ~(k > to) PROVE h[k] = ids[k] + base * h[k + 1]
    <3>1. /\ to + 1 - k \in 1 .. m /\ to + 1 - (to + 1 - k) = k
          /\ (to + 1 - k) - 1 = to + 1 - (k + 1) /\ k + 1 \in from .. to + 1
      BY <1>0, <2>2
    <3>2. h[k] = add[to + 1 - k] + base * g[to + 1 - (k + 1)] /\ h[k + 1] = g[to + 1 - (k + 1)]
      BY <1>0, <1>3, <3>1
    <3>3. add[to + 1 - k] = ids[k]
      BY <1>1, <3>1
    <3> QED
      BY <3>2, <3>3
  <2>3. h = [k \in from .. to + 1 |-> h[k]]
    BY <1>0
  <2> HIDE DEF h
  <2> QED
    BY <2>1, <2>2, <2>3
<1>5. PICK rest : rest = (CHOOSE f : f = Step(f)) /\ Word(ids, bits, from, to) = rest[from]
  BY Zenon DEF Word
<1>6. rest = Step(rest)
  <2> HIDE DEF Step, h
  <2> QED
    BY <1>4, <1>5, Zenon
<1>7. rest[to + 1] = 0 /\ \A k \in from .. to : rest[k] = ids[k] + base * rest[k + 1]
  <2>1. rest = [k \in from .. to + 1 |-> IF k > to THEN 0 ELSE ids[k] + base * rest[k + 1]]
    BY <1>6
  <2> HIDE DEF base
  <2>2. to + 1 \in from .. to + 1 /\ to + 1 > to
    BY <1>0
  <2>3. \A k \in from .. to : k \in from .. to + 1 /\ ~(k > to)
    BY <1>0
  <2> QED
    BY <2>1, <2>2, <2>3
<1>8. \A k \in from .. to + 1 : rest[k] \in Nat
  <2> DEFINE f == [n \in 0 .. m |-> rest[to + 1 - n]]
  <2>1. f[0] = 0
    BY <1>0, <1>7
  <2>2. ASSUME NEW n \in 1 .. m PROVE f[n] = add[n] + base * f[n - 1]
    <3>1. /\ to + 1 - n \in from .. to /\ to + 1 - (n - 1) = (to + 1 - n) + 1
          /\ n - 1 \in 0 .. m /\ n \in 0 .. m
      BY <1>0
    <3>2. f[n] = rest[to + 1 - n] /\ f[n - 1] = rest[(to + 1 - n) + 1]
      BY <3>1
    <3>3. add[n] = ids[to + 1 - n]
      BY <1>1
    <3> QED
      BY <1>7, <3>1, <3>2, <3>3
  <2>3. \A n \in 0 .. m : f[n] \in Nat
    <3>1. Steps(f, m, 0, base, add)
      BY <2>1, <2>2 DEF Steps
    <3> HIDE DEF f, m, base, Step
    <3> QED
      BY <1>0, <3>1, LinearType
  <2> SUFFICES ASSUME NEW k \in from .. to + 1 PROVE rest[k] \in Nat
    BY <1>0
  <2>4. to + 1 - k \in 0 .. m /\ to + 1 - (to + 1 - k) = k
    BY <1>0
  <2> QED
    BY <2>3, <2>4
<1> QED
  BY <1>5, <1>7, <1>8 DEF Digits

\* Dividing by a product is dividing twice.
LEMMA DivDiv ==
  ASSUME NEW a \in Nat, NEW m \in Nat \ {0}, NEW n \in Nat \ {0}
  PROVE  m * n \in Nat \ {0} /\ a \div (m * n) = (a \div m) \div n
<1> DEFINE q == a \div m
           r == a % m
           s == q \div n
           t == q % n
<1>1. q \in Int /\ r \in 0 .. m - 1 /\ a = q * m + r
  BY DivMod
<1>2. s \in Int /\ t \in 0 .. n - 1 /\ q = s * n + t
  BY <1>1, DivMod
<1>3. m * n \in Nat \ {0}
  BY Z3
<1> DEFINE u == r + t * m
<1> HIDE DEF q, r, s, t
<1>4. a = s * (m * n) + u
  <2>1. (s * n + t) * m = s * (m * n) + t * m
    BY <1>2, Z3
  <2>2. s * (m * n) \in Int /\ t * m \in Int
    BY <1>2, <1>3, Z3
  <2> QED
    BY <1>1, <1>2, <2>1, <2>2
<1>5. u \in 0 .. m * n - 1
  <2>1. (n - 1 - t) * m >= 0 /\ (n - 1 - t) * m = m * n - m - t * m /\ t * m >= 0 /\ t * m \in Int
    BY <1>2, Z3
  <2> QED
    BY <1>1, <1>3, <2>1
<1> HIDE DEF u
<1>6. (s * (m * n) + u) \div (m * n) = s
  BY <1>2, <1>3, <1>5, DivUnique
<1> QED
  BY <1>3, <1>4, <1>6 DEF s, q

LEMMA TimesNext ==
  ASSUME NEW j \in Nat, NEW b \in Nat
  PROVE  j * b \in Nat /\ (j + 1) * b = j * b + b /\ 0 * b = 0 /\ j * b <= (j + 1) * b
BY Z3

\* The first j entries are taken off a word by dividing by a power of two.
Shifts(r, bits, from, to) ==
  \A j \in 0 .. to + 1 - from :
    j * bits \in 0 .. WordBits /\ r[from] \div Pow2[j * bits] = r[from + j]

LEMMA TakeOff ==
  ASSUME NEW ids, NEW bits, NEW from, NEW to, InWord(ids, bits, from, to),
         NEW r, Digits(r, ids, Pow2[bits], from, to)
  PROVE  Shifts(r, bits, from, to)
<1> DEFINE base == Pow2[bits]
           m == to + 1 - from
<1>0. /\ WordBits \in Nat /\ bits \in 0 .. WordBits /\ base \in Nat \ {0} /\ m \in Nat
      /\ r[from] \in Nat /\ bits \in Nat /\ from \in Nat /\ to \in Nat /\ from <= to + 1
  BY InWordType DEF Digits
<1>1. \A j \in 0 .. m : j * bits \in 0 .. WordBits
  <2> SUFFICES ASSUME NEW j \in 0 .. m PROVE j * bits \in 0 .. WordBits
    OBVIOUS
  <2>1. m * bits <= WordBits
    BY DEF InWord
  <2>2. m * bits - j * bits = (m - j) * bits /\ (m - j) * bits >= 0 /\ j * bits >= 0
        /\ j * bits \in Int /\ m * bits \in Int
    BY <1>0, Z3
  <2> QED
    BY <1>0, <2>1, <2>2
<1> DEFINE Bad == {j \in 0 .. m : r[from] \div Pow2[j * bits] # r[from + j]}
<1>2. ASSUME NEW j \in Bad, \A i \in Bad : j <= i PROVE FALSE
  <2>1. j # 0
    <3>1. Pow2[0 * bits] = 1 /\ r[from] \div 1 = r[from] /\ from + 0 = from
      BY <1>0, TimesNext, Pow2Unfolds
    <3> QED
      BY <3>1
  <2> DEFINE i == j - 1
  <2>2. i \in 0 .. m /\ i \in Nat /\ j = i + 1 /\ ~(j <= i) /\ from + i \in from .. to
    BY <1>0, <2>1
  <2>3. r[from] \div Pow2[i * bits] = r[from + i]
    BY <1>2, <2>2
  <2> HIDE DEF i
  <2>4. j * bits = i * bits + bits /\ i * bits \in Nat /\ i * bits + bits <= WordBits
        /\ i * bits \in 0 .. WordBits
    BY <1>0, <1>1, <2>2, TimesNext
  <2>5. Pow2[j * bits] = Pow2[i * bits] * base /\ Pow2[i * bits] \in Nat \ {0}
    BY <1>0, <2>4, Pow2Sum, Pow2Positive
  <2>6. r[from] \div (Pow2[i * bits] * base) = (r[from] \div Pow2[i * bits]) \div base
    <3> HIDE DEF base, m, Bad
    <3> QED
      BY <1>0, <2>5, DivDiv
  <2>7. r[from + i] = ids[from + i] + base * r[from + j] /\ r[from + j] \in Nat
    <3>1. from + j = (from + i) + 1 /\ from + j \in from .. to + 1
      BY <1>0, <2>2
    <3> QED
      BY <2>2, <3>1 DEF Digits
  <2>8. ids[from + i] \in 0 .. base - 1
    BY <2>2, InWordType
  <2> DEFINE d == ids[from + i]
             n == r[from + j]
  <2> HIDE DEF d, n, base, m, Bad
  <2>9. d + base * n = n * base + d /\ n \in Nat /\ d \in 0 .. base - 1
    <3>1. n \in Nat /\ d \in 0 .. base - 1
      BY <2>7, <2>8 DEF d, n
    <3> QED
      BY <1>0, <3>1, Z3
  <2>10. (n * base + d) \div base = n
    <3>1. n \in Int /\ base \in Nat \ {0} /\ d \in 0 .. base - 1
      BY <1>0, <2>9
    <3> QED
      BY <3>1, DivUnique, Zenon
  <2>11. r[from + i] = n * base + d
    BY <2>7, <2>9 DEF d, n
  <2>12. r[from] \div Pow2[j * bits] = r[from + j]
    BY <2>3, <2>5, <2>6, <2>10, <2>11 DEF n
  <2> QED
    BY <2>12 DEF Bad
<1>3. Bad \subseteq Nat
  BY <1>0
<1>4. \A x \in Bad : FALSE
  <2> HIDE DEF Bad
  <2> QED
    BY <1>2, <1>3, LeastLemma
<1> QED
  BY <1>1, <1>4 DEF Shifts

\* A word gives back the entries in it.
GivesBack(word, ids, bits, from, to) ==
  \A k \in from .. to : (word \div Pow2[(k - from) * bits]) % Pow2[bits] = ids[k]

\* A word fits its width and gives back each entry in it.
LEMMA WordLemma ==
  ASSUME NEW ids, NEW bits, NEW from, NEW to, InWord(ids, bits, from, to)
  PROVE  /\ Word(ids, bits, from, to) \in 0 .. Pow2[WordBits] - 1
         /\ GivesBack(Word(ids, bits, from, to), ids, bits, from, to)
<1>0. /\ WordBits \in Nat /\ WordBits \in 0 .. WordBits /\ Pow2[WordBits] \in Nat
      /\ from \in Nat /\ to \in Nat /\ from <= to + 1
      /\ Pow2[bits] \in Nat \ {0} /\ \A k \in from .. to : ids[k] \in 0 .. Pow2[bits] - 1
  BY InWordType
<1>2. PICK r : Digits(r, ids, Pow2[bits], from, to) /\ Word(ids, bits, from, to) = r[from]
  BY WordUnfolds, Zenon
<1>3. \A j \in 0 .. to + 1 - from :
        j * bits \in 0 .. WordBits /\ r[from] \div Pow2[j * bits] = r[from + j]
  <2>1. Shifts(r, bits, from, to)
    BY <1>2, TakeOff, Zenon
  <2> QED
    BY <2>1, Zenon DEF Shifts
<1>4. r[from] \in 0 .. Pow2[WordBits] - 1
  <2> DEFINE m == to + 1 - from
             p == Pow2[m * bits]
  <2>1. m \in 0 .. m /\ from + m = to + 1 /\ r[to + 1] = 0 /\ r[from] \in Nat
    BY <1>0, <1>2 DEF Digits
  <2>2. m * bits \in 0 .. WordBits /\ r[from] \div p = 0
    BY <1>3, <2>1
  <2>3. p \in Nat \ {0} /\ p <= Pow2[WordBits]
    BY <1>0, <2>2, Pow2Positive, Pow2Grows
  <2> HIDE DEF p
  <2>4. r[from] < p
    <3>1. r[from] \in Int
      BY <2>1
    <3>2. r[from] = (r[from] \div p) * p + (r[from] % p) /\ r[from] % p \in 0 .. p - 1
      BY <2>3, <3>1, DivMod, Zenon
    <3>3. r[from] = 0 * p + (r[from] % p)
      BY <2>2, <3>2, Zenon
    <3>4. r[from] % p \in 0 .. p - 1
      BY <3>2
    <3> DEFINE v == r[from] % p
    <3>5. v \in 0 .. p - 1 /\ r[from] = 0 * p + v
      BY <3>3, <3>4
    <3> HIDE DEF v
    <3> QED
      BY <2>3, <3>5
  <2> QED
    BY <1>0, <2>1, <2>3, <2>4
<1>5. ASSUME NEW k \in from .. to
      PROVE  (r[from] \div Pow2[(k - from) * bits]) % Pow2[bits] = ids[k]
  <2>1. k - from \in 0 .. to + 1 - from /\ from + (k - from) = k
    BY <1>0
  <2>2. (k - from) * bits \in 0 .. WordBits /\ r[from] \div Pow2[(k - from) * bits] = r[k]
    BY <1>3, <2>1
  <2> DEFINE base == Pow2[bits]
             n == r[k + 1]
             d == ids[k]
  <2>3. r[k] = d + base * n /\ n \in Nat /\ d \in 0 .. base - 1 /\ base \in Nat \ {0}
    BY <1>0, <1>2 DEF Digits
  <2> HIDE DEF n, d, base
  <2>4. d + base * n = n * base + d
    BY <2>3, Z3
  <2>5. (n * base + d) % base = d
    <3>1. n \in Int /\ base \in Nat \ {0} /\ d \in 0 .. base - 1
      BY <2>3
    <3> QED
      BY <3>1, DivUnique, Zenon
  <2>6. r[k] % base = d
    BY <2>3, <2>4, <2>5
  <2> QED
    BY <2>2, <2>6 DEF base, d
<1> QED
  BY <1>2, <1>4, <1>5 DEF GivesBack

-----------------------------------------------------------------------------
(* The width of an index.                                                  *)

LEMMA MinIs ==
  ASSUME NEW S \in SUBSET Int, NEW m \in S, \A y \in S : m <= y
  PROVE  Min(S) = m
<1>1. \A x \in S : (\A y \in S : x <= y) => x = m
  OBVIOUS
<1> QED
  BY <1>1, Zenon DEF Min

LEMMA MaxIs ==
  ASSUME NEW S \in SUBSET Int, NEW m \in S, \A y \in S : m >= y
  PROVE  Max(S) = m
<1>1. \A x \in S : (\A y \in S : x >= y) => x = m
  OBVIOUS
<1> QED
  BY <1>1, Zenon DEF Max

LEMMA MinPair ==
  ASSUME NEW a \in Int, NEW b \in Int
  PROVE  Min({a, b}) = IF a <= b THEN a ELSE b
<1> DEFINE m == IF a <= b THEN a ELSE b
<1>1. {a, b} \in SUBSET Int /\ m \in {a, b} /\ \A y \in {a, b} : m <= y
  OBVIOUS
<1> HIDE DEF m
<1>2. Min({a, b}) = m
  BY <1>1, MinIs, Zenon
<1> QED
  BY <1>2 DEF m

\* The width that the tools work out is the one that the game packed with, and
\* every index of the palette fits in it.
LEMMA BitsLemma ==
  ASSUME NEW n \in Nat, n >= 1, n <= Pow2[WordBits], NEW least \in 1 .. WordBits
  PROVE  /\ bits_for(n, least) \in least .. WordBits
         /\ bits_for(n, least) = GameBits(n, least)
         /\ n <= Pow2[bits_for(n, least)]
<1>0. WordBits \in Nat /\ WordBits \in 0 .. WordBits /\ least \in 0 .. WordBits
  BY SizesAssumption
<1> DEFINE B == {b \in 0 .. WordBits : Pow2[b] > n - 1}
<1>1. \A b \in 0 .. WordBits : Pow2[b] \in Nat /\ Pow2[b] >= 1
  BY Pow2Positive
<1>2. WordBits \in B /\ B \subseteq Nat /\ B \subseteq Int
  BY <1>0, <1>1
<1>3. PICK e \in B : \A b \in B : e <= b
  <2> HIDE DEF B
  <2> QED
    BY <1>2, LeastLemma
<1>4. Min(B) = e
  <2> HIDE DEF B
  <2> QED
    BY <1>2, <1>3, MinIs
<1>5. (IF n <= 1 THEN 0 ELSE Min(B)) = e
  <2>1. ASSUME n <= 1 PROVE e = 0
    <3>1. 0 \in B /\ e >= 0
      BY <1>0, <1>1, <1>3, <2>1
    <3> QED
      BY <1>2, <1>3, <3>1
  <2> QED
    BY <1>4, <2>1
<1> DEFINE m == IF e <= least THEN least ELSE e
<1>6. e \in 0 .. WordBits /\ Pow2[e] >= n /\ m \in least .. WordBits /\ m \in 0 .. WordBits /\ e <= m
  BY <1>0, <1>1, <1>3
<1>7. Max({e, least}) = m
  BY <1>0, <1>6, MaxIs
<1>8. bits_for(n, least) = m
  BY <1>5, <1>7 DEF bits_for
<1>9. Pow2[m] >= n
  <2>1. Pow2[m] >= Pow2[e]
    BY <1>6, Pow2Grows
  <2> QED
    BY <1>1, <1>6, <2>1
<1>10. \A b \in 0 .. WordBits : b < e => Pow2[b] < n
  <2> SUFFICES ASSUME NEW b \in 0 .. WordBits, b < e PROVE Pow2[b] < n
    OBVIOUS
  <2>1. b \notin B
    BY <1>3, <1>6
  <2> QED
    BY <1>1, <2>1
<1>11. m = least \/ Pow2[m - 1] < n
  BY <1>0, <1>6, <1>10
<1>12. ASSUME NEW b \in least .. WordBits, Pow2[b] >= n, b = least \/ Pow2[b - 1] < n
       PROVE  b = m
  <2>1. b \in 0 .. WordBits
    BY <1>0
  <2>2. ~(b < m)
    BY <1>0, <1>1, <1>6, <1>10, <1>12, <2>1
  <2>3. ~(b > m)
    <3> SUFFICES ASSUME b > m PROVE FALSE
      OBVIOUS
    <3>1. b - 1 \in 0 .. WordBits /\ m <= b - 1 /\ b # least
      BY <1>0, <1>6, <2>1
    <3>2. Pow2[b - 1] >= Pow2[m]
      BY <1>6, <3>1, Pow2Grows
    <3> QED
      BY <1>1, <1>6, <1>9, <1>12, <3>1, <3>2
  <2> QED
    BY <1>0, <1>6, <2>1, <2>2, <2>3
<1> HIDE DEF m, B
<1>13. GameBits(n, least) = m
  BY <1>6, <1>9, <1>11, <1>12, Zenon DEF GameBits
<1> QED
  BY <1>6, <1>8, <1>9, <1>13

\* A quotient is at least q where the number is at least q times the divisor.
LEMMA DivAtLeast ==
  ASSUME NEW a \in Int, NEW n \in Nat \ {0}, NEW q \in Int
  PROVE  (q <= a \div n) <=> (q * n <= a)
<1> DEFINE p == a \div n
           r == a % n
<1>1. p \in Int /\ r \in 0 .. n - 1 /\ a = p * n + r
  BY DivMod
<1> HIDE DEF p, r
<1> DEFINE d == p - q
<1>2. d * n = p * n - q * n /\ d \in Int /\ p * n \in Int /\ q * n \in Int /\ d * n \in Int
  BY <1>1, Z3
<1>3. (d >= 0 => d * n >= 0) /\ (d <= -1 => d * n <= -n)
  BY <1>2, Z3
<1>4. d >= 0 <=> q <= p
  BY <1>1
<1> HIDE DEF d
<1>5. CASE d >= 0
  BY <1>1, <1>2, <1>3, <1>4, <1>5 DEF p
<1>6. CASE d <= -1
  <2>1. d * n <= -n
    BY <1>3, <1>6
  <2>2. ~(q <= p)
    BY <1>2, <1>4, <1>6
  <2>3. q * n = p * n - d * n /\ q * n >= p * n + n
    BY <1>2, <2>1
  <2>4. ~(q * n <= a)
    BY <1>1, <1>2, <2>3
  <2> QED
    BY <2>2, <2>4 DEF p
<1> QED
  BY <1>2, <1>5, <1>6

\* Where the words of packed indices begin and end.
LEMMA WordSpan ==
  ASSUME NEW n \in Nat, NEW per \in Nat \ {0}, NEW w \in 1 .. (n + per - 1) \div per
  PROVE  LET from == (w - 1) * per + 1
             to   == Min({w * per, n})
         IN  /\ from \in Nat /\ to \in Nat /\ from <= to + 1 /\ to + 1 - from <= per
             /\ to <= n /\ from >= 1 /\ (to = n \/ to + 1 - from = per)
<1> DEFINE a == (w - 1) * per
           z == w * per
<1>1. w \in Int /\ w >= 1 /\ w <= (n + per - 1) \div per /\ n + per - 1 \in Int
  BY DivMod
<1>2. z = a + per /\ a \in Int /\ z \in Int /\ a >= 0
  BY <1>1, Z3
<1>3. z <= n + per - 1
  BY <1>1, DivAtLeast
<1> HIDE DEF a, z
<1> DEFINE to == IF z <= n THEN z ELSE n
<1>4. Min({z, n}) = to
  BY <1>2, MinPair
<1>5. /\ a + 1 \in Nat /\ to \in Nat /\ a + 1 <= to + 1 /\ to + 1 - (a + 1) <= per
      /\ to <= n /\ a + 1 >= 1 /\ (to = n \/ to + 1 - (a + 1) = per)
  BY <1>2, <1>3
<1> QED
  BY <1>4, <1>5 DEF a, z

\* The word of an entry, and its place there.
LEMMA EntryPlace ==
  ASSUME NEW n \in Nat, NEW per \in Nat \ {0}, NEW idx \in 0 .. n - 1
  PROVE  /\ idx \div per + 1 \in 1 .. (n + per - 1) \div per
         /\ idx + 1 \in ((idx \div per + 1) - 1) * per + 1 .. Min({(idx \div per + 1) * per, n})
         /\ (idx + 1) - (((idx \div per + 1) - 1) * per + 1) = idx % per
<1> DEFINE q == idx \div per
           r == idx % per
<1>1. idx \in Int /\ q \in Int /\ r \in 0 .. per - 1 /\ idx = q * per + r
  BY DivMod
<1>2. 0 <= q
  <2>1. 0 * per <= idx
    OBVIOUS
  <2> QED
    BY <1>1, <2>1, DivAtLeast
<1> HIDE DEF q, r
<1>3. (q + 1) * per = q * per + per /\ q * per \in Int /\ ((q + 1) - 1) * per = q * per
  BY <1>1, Z3
<1>4. (q + 1) * per <= n + per - 1 /\ n + per - 1 \in Int /\ q + 1 \in Int
  BY <1>1, <1>3
<1>5. q + 1 <= (n + per - 1) \div per
  BY <1>4, DivAtLeast
<1>6. (n + per - 1) \div per \in Int
  BY <1>4, DivMod
<1>7. q + 1 \in 1 .. (n + per - 1) \div per
  BY <1>1, <1>2, <1>5, <1>6
<1> DEFINE z == (q + 1) * per
           b == q * per
<1>8. z = b + per /\ b \in Int /\ z \in Int /\ idx = b + r
  BY <1>1, <1>3
<1> HIDE DEF z, b
<1>9. Min({z, n}) = IF z <= n THEN z ELSE n
  BY <1>8, MinPair
<1>10. idx + 1 \in b + 1 .. Min({z, n}) /\ (idx + 1) - (b + 1) = r
  BY <1>1, <1>8, <1>9
<1> QED
  BY <1>3, <1>7, <1>10 DEF q, r, z, b

\* Indices that were packed are found again, each where palette_index looks.
LEMMA PackLemma ==
  ASSUME NEW n \in Nat, NEW bits \in 1 .. WordBits,
         NEW ids \in [1 .. n -> 0 .. Pow2[bits] - 1]
  PROVE  LET per  == WordBits \div bits
             data == Pack(ids, bits)
         IN  /\ per \in Nat \ {0} /\ data \in Seq(Nat)
             /\ \A w \in DOMAIN data : data[w] \in 0 .. Pow2[WordBits] - 1
             /\ \A idx \in 0 .. n - 1 :
                  /\ idx \div per \in Nat /\ idx \div per < Len(data)
                  /\ (data[idx \div per + 1] \div Pow2[(idx % per) * bits]) % Pow2[bits] = ids[idx + 1]
<1> DEFINE per == WordBits \div bits
           words == (n + per - 1) \div per
           From(w) == (w - 1) * per + 1
           To(w) == Min({w * per, n})
           data == Pack(ids, bits)
<1>0. WordBits \in Nat /\ bits \in Nat \ {0} /\ bits \in Int /\ WordBits \in Int
  BY SizesAssumption
<1>1. per \in Int /\ 1 <= per /\ per * bits <= WordBits
  <2>1. per \in Int /\ (1 * bits <= WordBits)
    BY <1>0, DivMod
  <2>2. 1 <= per /\ (per <= per => per * bits <= WordBits)
    BY <1>0, <2>1, DivAtLeast
  <2> QED
    BY <2>1, <2>2
<1>2. per \in Nat \ {0}
  BY <1>1
<1>3. Len(ids) = n
  OBVIOUS
<1>4. data = [w \in 1 .. words |-> Word(ids, bits, From(w), To(w))]
  BY <1>3 DEF Pack
<1>5. words \in Nat
  <2>1. n + per - 1 \in Int /\ 0 * per <= n + per - 1 /\ 0 \in Int
    BY <1>2
  <2>2. words \in Int /\ 0 <= words
    <3> HIDE DEF per
    <3> QED
      BY <1>2, <2>1, DivAtLeast, DivMod
  <2> QED
    BY <2>2
<1> HIDE DEF data, words, per
<1>6. ASSUME NEW w \in 1 .. words PROVE InWord(ids, bits, From(w), To(w))
  <2> DEFINE f == From(w)
             t == To(w)
  <2>1. f \in Nat /\ t \in Nat /\ f <= t + 1 /\ t + 1 - f <= per /\ t <= n /\ f >= 1
    BY <1>2, WordSpan DEF words
  <2> HIDE DEF f, t
  <2>2. (t + 1 - f) * bits <= WordBits
    <3> DEFINE m == t + 1 - f
    <3>1. m \in Nat /\ m <= per
      BY <2>1
    <3> HIDE DEF m
    <3>2. per * bits - m * bits = (per - m) * bits /\ (per - m) * bits >= 0
          /\ m * bits \in Int /\ per * bits \in Int
      BY <1>0, <1>2, <3>1, Z3
    <3>3. m * bits <= WordBits
      BY <1>0, <1>1, <3>2
    <3> QED
      BY <3>3 DEF m
  <2>3. \A k \in f .. t : ids[k] \in 0 .. Pow2[bits] - 1
    BY <2>1
  <2>4. InWord(ids, bits, f, t)
    BY <2>1, <2>2, <2>3 DEF InWord
  <2> QED
    BY <2>4 DEF f, t
<1>7. \A w \in 1 .. words : Word(ids, bits, From(w), To(w)) \in 0 .. Pow2[WordBits] - 1
  <2> SUFFICES ASSUME NEW w \in 1 .. words
               PROVE  Word(ids, bits, From(w), To(w)) \in 0 .. Pow2[WordBits] - 1
    OBVIOUS
  <2> HIDE DEF From, To
  <2> QED
    BY <1>6, WordLemma, Zenon
<1>8. DOMAIN data = 1 .. words /\ \A w \in DOMAIN data : data[w] \in 0 .. Pow2[WordBits] - 1
  <2> HIDE DEF From, To
  <2> QED
    BY <1>4, <1>7
<1>9. Pow2[WordBits] \in Nat
  BY <1>0, Pow2Unfolds
<1>10. data \in Seq(Nat) /\ Len(data) = words
  <2>1. \A w \in 1 .. words : data[w] \in Nat
    BY <1>8, <1>9
  <2>2. data = [w \in 1 .. words |-> data[w]]
    <3> HIDE DEF From, To
    <3> QED
      BY <1>4
  <2>3. data \in [1 .. words -> Nat]
    BY <2>1, <2>2
  <2> QED
    BY <1>5, <2>3
<1>11. ASSUME NEW idx \in 0 .. n - 1
       PROVE  /\ idx \div per \in Nat /\ idx \div per < Len(data)
              /\ (data[idx \div per + 1] \div Pow2[(idx % per) * bits]) % Pow2[bits] = ids[idx + 1]
  <2> DEFINE w == idx \div per + 1
             k == idx + 1
  <2>1. w \in 1 .. words /\ k \in From(w) .. To(w) /\ k - From(w) = idx % per
    BY <1>2, EntryPlace DEF words
  <2>2. idx \div per \in Int
    BY <1>2, DivMod
  <2>3. idx \div per \in Nat /\ idx \div per < words
    BY <1>5, <2>1, <2>2
  <2> HIDE DEF w, k, From, To
  <2>4. (Word(ids, bits, From(w), To(w)) \div Pow2[(k - From(w)) * bits]) % Pow2[bits] = ids[k]
    <3>1. InWord(ids, bits, From(w), To(w))
      BY <1>6, <2>1, Zenon
    <3>2. GivesBack(Word(ids, bits, From(w), To(w)), ids, bits, From(w), To(w))
      BY <3>1, WordLemma, Zenon
    <3> QED
      BY <2>1, <3>2, Zenon DEF GivesBack
  <2>5. data[w] = Word(ids, bits, From(w), To(w))
    BY <1>4, <2>1
  <2>6. (data[w] \div Pow2[(idx % per) * bits]) % Pow2[bits] = ids[k]
    BY <2>1, <2>4, <2>5, Zenon
  <2> QED
    BY <1>10, <2>3, <2>6 DEF w, k
<1> QED
  BY <1>2, <1>8, <1>10, <1>11 DEF data, per

-----------------------------------------------------------------------------
(* Paletted containers.                                                    *)

\* What block_at and biome_at read at an entry of a container.
Reading(s, least, idx) == Entry(s.palette, palette_index(s.data, Len(s.palette), least, idx))

ReadsAs(s, least, values) == \A i \in DOMAIN values : Reading(s, least, i - 1) = values[i]

WordsFit(data) == data # None => \A i \in DOMAIN data : data[i] \in 0 .. Pow2[WordBits] - 1

PaletteOK(palette, S) == palette \in Seq(S) /\ Len(palette) > 0 /\ IsInjective(palette)

ContainerOK(s, least, values, S) ==
  /\ s \in Containers(S) /\ PaletteOK(s.palette, S)
  /\ \A i \in DOMAIN values : values[i] \in ToSet(s.palette)
  /\ ReadsAs(s, least, values) /\ WordsFit(s.data)

\* One entry of a container with data.
LEMMA PackedReading ==
  ASSUME NEW S, NEW n \in Nat, NEW least \in 1 .. WordBits,
         NEW palette, PaletteOK(palette, S), Len(palette) <= Pow2[WordBits],
         NEW values \in [1 .. n -> ToSet(palette)]
  PROVE  LET ids  == [i \in DOMAIN values |-> (CHOOSE j \in DOMAIN palette : palette[j] = values[i]) - 1]
             data == Pack(ids, GameBits(Len(palette), least))
         IN  /\ data \in Seq(Nat) /\ WordsFit(data)
             /\ ReadsAs([palette |-> palette, data |-> data], least, values)
<1> DEFINE ids == [i \in DOMAIN values |-> (CHOOSE j \in DOMAIN palette : palette[j] = values[i]) - 1]
           size == Len(palette)
           bits == bits_for(size, least)
           per == WordBits \div bits
           data == Pack(ids, bits)
<1>0. size \in Nat /\ size >= 1 /\ palette \in Seq(S) /\ DOMAIN palette = 1 .. size /\ size <= Pow2[WordBits]
  BY DEF PaletteOK
<1>1. bits = GameBits(size, least) /\ bits \in least .. WordBits /\ size <= Pow2[bits]
  <2> HIDE DEF size
  <2> QED
    BY <1>0, BitsLemma
<1>2. bits \in 1 .. WordBits /\ bits \in 0 .. WordBits /\ Pow2[bits] \in Nat
  <2>1. WordBits \in Nat
    BY SizesAssumption
  <2>2. bits \in 1 .. WordBits /\ bits \in 0 .. WordBits
    <3> HIDE DEF bits
    <3> QED
      BY <1>1, <2>1
  <2> QED
    BY <2>2, Pow2Unfolds
<1> HIDE DEF bits, size
<1>3. ASSUME NEW i \in 1 .. n
      PROVE  ids[i] \in 0 .. size - 1 /\ palette[ids[i] + 1] = values[i]
  <2>1. \E j \in DOMAIN palette : palette[j] = values[i]
    BY DEF ToSet
  <2> DEFINE c == CHOOSE j \in DOMAIN palette : palette[j] = values[i]
  <2>2. c \in DOMAIN palette /\ palette[c] = values[i]
    BY <2>1
  <2>3. ids[i] = c - 1
    OBVIOUS
  <2> HIDE DEF c, ids
  <2> QED
    BY <1>0, <2>2, <2>3
<1>4. ids \in [1 .. n -> 0 .. Pow2[bits] - 1]
  <2>1. \A i \in 1 .. n : ids[i] \in 0 .. Pow2[bits] - 1
    <3> HIDE DEF ids
    <3> QED
      BY <1>0, <1>1, <1>2, <1>3
  <2>2. ids = [i \in 1 .. n |-> ids[i]]
    OBVIOUS
  <2> HIDE DEF ids
  <2> QED
    BY <2>1, <2>2
<1> HIDE DEF ids
<1>5. /\ per \in Nat \ {0} /\ data \in Seq(Nat)
      /\ \A w \in DOMAIN data : data[w] \in 0 .. Pow2[WordBits] - 1
      /\ \A idx \in 0 .. n - 1 :
           /\ idx \div per \in Nat /\ idx \div per < Len(data)
           /\ (data[idx \div per + 1] \div Pow2[(idx % per) * bits]) % Pow2[bits] = ids[idx + 1]
  BY <1>2, <1>4, PackLemma
<1>6. data # None
  BY <1>5, NoneAssumption
<1> HIDE DEF data
<1>7. ASSUME NEW i \in 1 .. n
      PROVE  Entry(palette, palette_index(data, size, least, i - 1)) = values[i]
  <2> DEFINE x == i - 1
  <2>1. x \in 0 .. n - 1 /\ x + 1 = i
    OBVIOUS
  <2>2. x \div per < Len(data) /\ x \div per \in Nat /\ Len(data) \in Nat
        /\ (data[x \div per + 1] \div Pow2[(x % per) * bits]) % Pow2[bits] = ids[i]
    <3> HIDE DEF x, per
    <3>1. /\ x \div per \in Nat /\ x \div per < Len(data)
          /\ (data[x \div per + 1] \div Pow2[(x % per) * bits]) % Pow2[bits] = ids[x + 1]
      BY <1>5, <2>1, Zenon
    <3>2. Len(data) \in Nat
      BY <1>5
    <3> QED
      BY <2>1, <3>1, <3>2, Zenon
  <2> HIDE DEF x
  <2>3. ~(x \div per >= Len(data))
    <3> DEFINE q == x \div per
    <3> HIDE DEF q
    <3>1. q < Len(data) /\ q \in Nat /\ Len(data) \in Nat
      BY <2>2 DEF q
    <3>2. ~(q >= Len(data))
      BY <3>1
    <3> QED
      BY <3>2 DEF q
  <2>4. palette_index(data, size, least, x) = ids[i]
    BY <1>6, <2>2, <2>3, Zenon DEF palette_index, bits, per
  <2>5. Entry(palette, ids[i]) = values[i]
    <3>1. ids[i] \in Nat /\ ids[i] # None /\ ~(ids[i] >= Len(palette))
      BY <1>0, <1>3, NoneAssumption DEF size
    <3> QED
      BY <1>3, <3>1 DEF Entry
  <2> QED
    BY <2>4, <2>5 DEF x
<1>8. ReadsAs([palette |-> palette, data |-> data], least, values)
  BY <1>7 DEF ReadsAs, Reading, size
<1>9. WordsFit(data)
  BY <1>5 DEF WordsFit, data
<1> QED
  BY <1>1, <1>5, <1>8, <1>9 DEF data, ids, size

\* A container that the game writes reads as the values it was written for, in
\* words that fit their width.
LEMMA PalettedLemma ==
  ASSUME NEW S, NEW n \in Nat, NEW least \in 1 .. WordBits,
         NEW palette, PaletteOK(palette, S), Len(palette) <= Pow2[WordBits],
         NEW values \in [1 .. n -> ToSet(palette)]
  PROVE  /\ ContainerOK(Paletted(values, palette, least), least, values, S)
         /\ Paletted(values, palette, least).palette = palette
<1> DEFINE s == Paletted(values, palette, least)
<1>0. palette \in Seq(S) /\ Len(palette) \in Nat
  BY DEF PaletteOK
<1>1. CASE Len(palette) = 1
  <2>1. s = [palette |-> palette, data |-> None]
    BY <1>1 DEF Paletted
  <2>2. ASSUME NEW i \in 1 .. n PROVE Reading(s, least, i - 1) = values[i]
    <3>1. palette_index(s.data, Len(s.palette), least, i - 1) = 0
      BY <2>1 DEF palette_index
    <3>2. values[i] = palette[1]
      BY <1>0, <1>1 DEF ToSet
    <3>3. 0 # None
      BY NoneAssumption
    <3>4. Entry(palette, 0) = palette[1]
      BY <1>1, <3>3 DEF Entry
    <3>5. s.palette = palette
      BY <2>1
    <3> HIDE DEF s
    <3> QED
      BY <3>1, <3>2, <3>4, <3>5 DEF Reading
  <2> QED
    BY <1>0, <2>1, <2>2 DEF ContainerOK, ReadsAs, WordsFit, Containers
<1>2. CASE Len(palette) # 1
  <2> DEFINE ids  == [i \in DOMAIN values |-> (CHOOSE j \in DOMAIN palette : palette[j] = values[i]) - 1]
             data == Pack(ids, GameBits(Len(palette), least))
  <2>1. s = [palette |-> palette, data |-> data]
    BY <1>2, Zenon DEF Paletted
  <2>2. /\ data \in Seq(Nat) /\ WordsFit(data)
        /\ ReadsAs([palette |-> palette, data |-> data], least, values)
    BY PackedReading
  <2> HIDE DEF data, s
  <2> QED
    BY <1>0, <2>1, <2>2 DEF ContainerOK, Containers, s
<1> QED
  BY <1>1, <1>2

-----------------------------------------------------------------------------
(* Positions.                                                              *)

Volume == Side * Side * Side

\* The positions there are.
LEMMA PositionsAre ==
  ASSUME NEW p
  PROVE  p \in Positions <=> /\ p \in Int \X Int \X Int
                             /\ chunk_of(p) \in Chunks /\ section_of(p) \in Heights
<1>0. Side \in Nat \ {0} /\ Chunks \subseteq Int \X Int /\ Heights \subseteq Int
  BY SidesAssumption, PlacesAssumption
<1> DEFINE Run(n) == {n * Side + d : d \in 0 .. Side - 1}
           X == UNION {Run(c[1]) : c \in Chunks}
           Y == UNION {Run(h) : h \in Heights}
           Z == UNION {Run(c[2]) : c \in Chunks}
<1>1. Positions = {q \in X \X Y \X Z : chunk_of(q) \in Chunks}
  BY Zenon DEF Positions
<1>2. \A n, a \in Int : a \in Run(n) <=> a \div Side = n
  <2> SUFFICES ASSUME NEW n \in Int, NEW a \in Int PROVE a \in Run(n) <=> a \div Side = n
    OBVIOUS
  <2>1. ASSUME NEW d \in 0 .. Side - 1 PROVE (n * Side + d) \div Side = n
    BY <1>0, DivUnique
  <2>2. a % Side \in 0 .. Side - 1 /\ a = (a \div Side) * Side + (a % Side)
    BY <1>0, DivMod
  <2> QED
    BY <2>1, <2>2, Zenon
<1>3. \A n \in Int : Run(n) \subseteq Int
  <2> SUFFICES ASSUME NEW n \in Int, NEW d \in 0 .. Side - 1 PROVE n * Side + d \in Int
    OBVIOUS
  <2>1. n * Side \in Int
    BY <1>0, Z3
  <2> QED
    BY <1>0, <2>1
<1> HIDE DEF Run
<1>4. \A c \in Chunks : c[1] \in Int /\ c[2] \in Int
  BY <1>0
<1>5. X \subseteq Int /\ Y \subseteq Int /\ Z \subseteq Int
  BY <1>0, <1>3, <1>4
<1>6. \A y \in Int : y \in Y <=> y \div Side \in Heights
  BY <1>0, <1>2
<1>7. \A x, z \in Int : <<x \div Side, z \div Side>> \in Chunks => x \in X /\ z \in Z
  <2> SUFFICES ASSUME NEW x \in Int, NEW z \in Int, <<x \div Side, z \div Side>> \in Chunks
               PROVE  x \in X /\ z \in Z
    OBVIOUS
  <2> DEFINE c == <<x \div Side, z \div Side>>
  <2>1. c[1] = x \div Side /\ c[2] = z \div Side /\ c \in Chunks
    OBVIOUS
  <2> HIDE DEF c
  <2>2. x \in Run(c[1]) /\ z \in Run(c[2])
    BY <1>2, <1>4, <2>1
  <2> QED
    BY <2>1, <2>2
<1> HIDE DEF X, Y, Z
<1>8. ASSUME p \in Positions
      PROVE  p \in Int \X Int \X Int /\ chunk_of(p) \in Chunks /\ section_of(p) \in Heights
  <2>1. p \in X \X Y \X Z /\ chunk_of(p) \in Chunks
    BY <1>1, <1>8
  <2>2. p \in Int \X Int \X Int /\ p[2] \in Y /\ p[2] \in Int
    BY <1>5, <2>1
  <2> QED
    BY <1>6, <2>1, <2>2 DEF section_of
<1>9. ASSUME p \in Int \X Int \X Int, chunk_of(p) \in Chunks, section_of(p) \in Heights
      PROVE  p \in Positions
  <2>1. p[1] \in Int /\ p[2] \in Int /\ p[3] \in Int /\ p = <<p[1], p[2], p[3]>>
    BY <1>9
  <2>2. p[1] \in X /\ p[2] \in Y /\ p[3] \in Z
    BY <1>6, <1>7, <1>9, <2>1 DEF chunk_of, section_of
  <2>3. p \in X \X Y \X Z
    BY <2>1, <2>2
  <2> QED
    BY <1>1, <1>9, <2>3
<1> QED
  BY <1>8, <1>9

\* The block of an entry is in the chunk and section of the entry, and has the
\* entry for its index.
LEMMA EntryPos ==
  ASSUME NEW c \in Int \X Int, NEW h \in Int, NEW idx \in 0 .. Volume - 1
  PROVE  /\ block_pos(c, h, idx) \in Int \X Int \X Int
         /\ chunk_of(block_pos(c, h, idx)) = c /\ section_of(block_pos(c, h, idx)) = h
         /\ block_index(block_pos(c, h, idx)) = idx
<1> DEFINE SS == Side * Side
           ly == idx \div SS
           rem == idx % SS
           lx == rem % Side
           lz == rem \div Side
<1>0. Side \in Nat \ {0} /\ SS \in Nat \ {0} /\ Volume \in Nat /\ Side \in Int
  BY SidesAssumption, Layer, Z3 DEF Volume
<1>1. idx \in Int /\ ly \in Int /\ rem \in 0 .. SS - 1 /\ idx = ly * SS + rem
  <2> HIDE DEF SS
  <2>1. idx \in Int
    BY <1>0
  <2> QED
    BY <1>0, <2>1, DivMod, Zenon
<1>2. ly \in 0 .. Side - 1
  <2>1. 0 * SS <= idx /\ ~(Side * SS <= idx)
    <3>1. Side * SS = Volume
      BY <1>0, Z3 DEF Volume
    <3> QED
      BY <1>0, <3>1
  <2> HIDE DEF SS
  <2>2. 0 <= ly /\ ~(Side <= ly)
    BY <1>0, <1>1, <2>1, DivAtLeast
  <2> QED
    BY <1>0, <1>1, <2>2
<1> HIDE DEF rem, ly
<1>3. lx \in 0 .. Side - 1 /\ lz \in 0 .. Side - 1 /\ rem = lx + lz * Side
  BY <1>0, <1>1, RowColumn
<1>4. block_pos(c, h, idx) = <<c[1] * Side + lx, h * Side + ly, c[2] * Side + lz>>
  BY DEF block_pos, rem, ly
<1> HIDE DEF lx, lz
<1> DEFINE x == c[1] * Side + lx
           y == h * Side + ly
           z == c[2] * Side + lz
<1>5. c[1] \in Int /\ c[2] \in Int /\ c = <<c[1], c[2]>>
  OBVIOUS
<1>6. ASSUME NEW n \in Int, NEW d \in 0 .. Side - 1
      PROVE  n * Side + d \in Int /\ (n * Side + d) \div Side = n /\ (n * Side + d) % Side = d
  <2>1. n * Side \in Int
    BY <1>0, Z3
  <2> QED
    BY <1>0, <2>1, DivUnique
<1>7. /\ x \in Int /\ x \div Side = c[1] /\ x % Side = lx
      /\ y \in Int /\ y \div Side = h /\ y % Side = ly
      /\ z \in Int /\ z \div Side = c[2] /\ z % Side = lz
  BY <1>2, <1>3, <1>5, <1>6, Zenon
<1> HIDE DEF x, y, z
<1>8. block_pos(c, h, idx) = <<x, y, z>>
  BY <1>4 DEF x, y, z
<1>9. chunk_of(<<x, y, z>>) = c /\ section_of(<<x, y, z>>) = h
  BY <1>5, <1>7 DEF chunk_of, section_of
<1>10. block_index(<<x, y, z>>) = ly * SS + lz * Side + lx
  BY <1>7 DEF block_index
<1>11. ly * SS + lz * Side + lx = idx
  <2>1. ly * SS \in Int /\ lz * Side \in Int
    BY <1>0, <1>2, <1>3, Z3
  <2> QED
    BY <1>1, <1>3, <2>1
<1> QED
  BY <1>7, <1>8, <1>9, <1>10, <1>11

\* A layer, a row and a column below n make an index below n * n * n.
LEMMA Cube ==
  ASSUME NEW n \in Nat \ {0}, NEW y \in 0 .. n - 1, NEW z \in 0 .. n - 1, NEW x \in 0 .. n - 1
  PROVE  y * (n * n) + z * n + x \in 0 .. n * n * n - 1
<1> DEFINE a == y * (n * n)
           b == n * n
           v == n * n * n
           row == x + z * n
<1>1. row \in 0 .. b - 1
  BY Cells
<1>2. a >= 0 /\ a \in Int /\ b \in Int /\ v \in Int /\ z * n \in Int
  BY Z3
<1>3. (n - 1 - y) * b >= 0 /\ (n - 1 - y) * b = v - b - a /\ (n - 1 - y) * b \in Int
  BY Z3
<1>4. a + z * n + x = a + row
  <2> HIDE DEF a
  <2> QED
    BY <1>2
<1> HIDE DEF a, b, v, row
<1>5. a + row \in 0 .. v - 1
  BY <1>1, <1>2, <1>3
<1> QED
  BY <1>4, <1>5 DEF a, v

\* A block has an entry in its section, and is the block of that entry.
LEMMA IndexPos ==
  ASSUME NEW p \in Int \X Int \X Int
  PROVE  /\ block_index(p) \in 0 .. Volume - 1
         /\ block_pos(chunk_of(p), section_of(p), block_index(p)) = p
<1>0. Side \in Nat \ {0}
  BY SidesAssumption
<1>1. p[1] \in Int /\ p[2] \in Int /\ p[3] \in Int /\ p = <<p[1], p[2], p[3]>>
  OBVIOUS
<1>2. p[1] % Side \in 0 .. Side - 1 /\ p[2] % Side \in 0 .. Side - 1 /\ p[3] % Side \in 0 .. Side - 1
  BY <1>0, <1>1, DivMod
<1>3. block_index(p) \in 0 .. Volume - 1
  BY <1>0, <1>2, Cube, Zenon DEF block_index, Volume
<1>4. block_pos(chunk_of(p), section_of(p), block_index(p)) = p
  BY <1>1, BlockRoundTrip
<1> QED
  BY <1>3, <1>4

CellVolume == CellSide * CellSide * CellSide

\* The cells fill a section.
LEMMA CellSides == CellSide \in Nat \ {0} /\ CellSide * Cell = Side
<1>0. Side \in Nat \ {0} /\ Cell \in Nat \ {0} /\ Side % Cell = 0 /\ Side \in Int
  BY SidesAssumption, SizesAssumption
<1>1. CellSide \in Int /\ Side = CellSide * Cell + (Side % Cell)
  BY <1>0, DivMod DEF CellSide
<1>2. CellSide * Cell = Side
  <2>1. CellSide * Cell \in Int
    BY <1>0, <1>1, Z3
  <2> QED
    BY <1>0, <1>1, <2>1
<1>3. ~(CellSide <= 0)
  <2> SUFFICES ASSUME CellSide <= 0 PROVE FALSE
    OBVIOUS
  <2>1. CellSide * Cell <= 0
    BY <1>0, <1>1, Z3
  <2> QED
    BY <1>0, <1>2, <2>1
<1> QED
  BY <1>1, <1>2, <1>3

\* The corner of a cell is in the chunk and section of the cell.
LEMMA CellPos ==
  ASSUME NEW c \in Int \X Int, NEW h \in Int, NEW idx \in 0 .. CellVolume - 1
  PROVE  /\ cell_pos(c, h, idx) \in Int \X Int \X Int
         /\ chunk_of(cell_pos(c, h, idx)) = c /\ section_of(cell_pos(c, h, idx)) = h
<1> DEFINE n == CellSide
           SS == n * n
           x == idx % n
           y == idx \div SS
           z == (idx \div n) % n
<1>0. /\ Side \in Nat \ {0} /\ Cell \in Nat \ {0} /\ n \in Nat \ {0} /\ n * Cell = Side
      /\ n \in Int
  BY SidesAssumption, SizesAssumption, CellSides
<1>1. SS \in Nat \ {0} /\ n * SS = CellVolume /\ CellVolume \in Nat
  BY <1>0, Z3 DEF CellVolume
<1>2. idx \in Int /\ idx >= 0 /\ ~(CellVolume <= idx)
  BY <1>1
<1>3. x \in 0 .. n - 1 /\ idx \div n \in Int
  BY <1>0, <1>2, DivMod
<1>4. z \in 0 .. n - 1
  BY <1>0, <1>3, DivMod
<1>5. y \in 0 .. n - 1
  <2>1. 0 * SS <= idx /\ ~(n * SS <= idx) /\ 0 \in Int
    BY <1>1, <1>2
  <2> HIDE DEF SS, n
  <2>2. y \in Int
    BY <1>1, <1>2, DivMod
  <2>3. 0 <= y /\ ~(n <= y)
    BY <1>0, <1>1, <1>2, <2>1, DivAtLeast, Zenon
  <2> QED
    BY <1>0, <2>2, <2>3
<1>6. cell_pos(c, h, idx) = <<c[1] * Side + x * Cell, h * Side + y * Cell, c[2] * Side + z * Cell>>
  BY DEF cell_pos
<1> HIDE DEF n, SS, x, y, z
<1>7. ASSUME NEW a \in Int, NEW k \in 0 .. n - 1
      PROVE  a * Side + k * Cell \in Int /\ (a * Side + k * Cell) \div Side = a
  <2>1. /\ k * Cell >= 0 /\ k * Cell \in Int /\ (n - 1 - k) * Cell >= 0
        /\ (n - 1 - k) * Cell = n * Cell - Cell - k * Cell
    BY <1>0, Z3
  <2> DEFINE d == k * Cell
  <2>2. d \in 0 .. Side - 1
    BY <1>0, <2>1
  <2>3. a * Side \in Int
    BY <1>0, Z3
  <2> HIDE DEF d
  <2>4. a * Side + d \in Int /\ (a * Side + d) \div Side = a
    BY <1>0, <2>2, <2>3, DivUnique
  <2> QED
    BY <2>4 DEF d
<1>8. c[1] \in Int /\ c[2] \in Int /\ c = <<c[1], c[2]>>
  OBVIOUS
<1> DEFINE px == c[1] * Side + x * Cell
           py == h * Side + y * Cell
           pz == c[2] * Side + z * Cell
<1>9. /\ px \in Int /\ px \div Side = c[1] /\ py \in Int /\ py \div Side = h
      /\ pz \in Int /\ pz \div Side = c[2]
  BY <1>3, <1>4, <1>5, <1>7, <1>8, Zenon
<1>10. cell_pos(c, h, idx) = <<px, py, pz>>
  BY <1>6
<1> HIDE DEF px, py, pz
<1> QED
  BY <1>8, <1>9, <1>10 DEF chunk_of, section_of

\* A block has an entry in the biomes of its section.
LEMMA CellIndex ==
  ASSUME NEW p \in Int \X Int \X Int
  PROVE  cell_index(p) \in 0 .. CellVolume - 1
<1>0. Side \in Nat \ {0} /\ Cell \in Nat \ {0} /\ CellSide \in Nat \ {0} /\ CellSide * Cell = Side
      /\ CellSide \in Int
  BY SidesAssumption, SizesAssumption, CellSides
<1>1. ASSUME NEW a \in Int PROVE (a % Side) \div Cell \in 0 .. CellSide - 1
  <2> DEFINE v == a % Side
             q == v \div Cell
  <2>1. v \in 0 .. Side - 1
    BY <1>0, DivMod
  <2> HIDE DEF v
  <2>2. v \in Int /\ 0 * Cell <= v /\ ~(CellSide * Cell <= v) /\ 0 \in Int
    BY <1>0, <2>1
  <2>3. q \in Int
    BY <1>0, <2>2, DivMod
  <2>4. 0 <= q /\ ~(CellSide <= q)
    BY <1>0, <2>2, DivAtLeast, Zenon
  <2> HIDE DEF q
  <2>5. q \in 0 .. CellSide - 1
    BY <1>0, <2>3, <2>4
  <2> QED
    BY <2>5 DEF q, v
<1>2. p[1] \in Int /\ p[2] \in Int /\ p[3] \in Int
  OBVIOUS
<1> QED
  BY <1>0, <1>1, <1>2, Cube, Zenon DEF cell_index, CellVolume

-----------------------------------------------------------------------------
(* Worlds.                                                                 *)

Stored == ChunkRecords \cup {None, Broken, Refused}

\* Chunks are in the slots that are theirs.
InPlace(w) == \A r \in Regions, i \in Slots : w[r][i] # None => from_region_index(r, i) \in Chunks

WorldType(w) == w \in [Regions -> [Slots -> Stored]] /\ InPlace(w)

\* A chunk has a region file and a slot there, and the slot no other chunk.
LEMMA SlotOf ==
  ASSUME NEW c \in Chunks
  PROVE  /\ region(c) \in Regions /\ region_index(c) \in Slots
         /\ from_region_index(region(c), region_index(c)) = c
         /\ c \in Int \X Int /\ region(c) \in Int \X Int
<1>0. c \in Int \X Int /\ RegionSide \in Nat \ {0}
  BY PlacesAssumption, SidesAssumption
<1>1. c = <<c[1], c[2]>> /\ c[1] \in Int /\ c[2] \in Int
  BY <1>0
<1>2. region(c) \in Int \X Int
  BY <1>0, <1>1, DivMod DEF region
<1>3. region(c) \in Regions
  BY DEF Regions
<1>4. region_index(c) \in Slots /\ from_region_index(region(c), region_index(c)) = c
  BY <1>1, ChunkRoundTrip, Zenon DEF Slots
<1> QED
  BY <1>0, <1>2, <1>3, <1>4

LEMMA SlotsApart ==
  ASSUME NEW r \in Regions, NEW i \in Slots
  PROVE  region(from_region_index(r, i)) = r /\ region_index(from_region_index(r, i)) = i
<1>1. r \in Int \X Int
  BY SlotOf DEF Regions
<1>2. PICK x \in Int, z \in Int : r = <<x, z>>
  BY <1>1
<1>3. i \in 0 .. RegionSide * RegionSide - 1
  BY DEF Slots
<1>4. region(from_region_index(<<x, z>>, i)) = <<x, z>> /\ region_index(from_region_index(<<x, z>>, i)) = i
  BY <1>3, SlotRoundTrip, Zenon
<1> QED
  BY <1>2, <1>4

\* A chunk is read from its slot.
LEMMA ChunkAtIs ==
  ASSUME NEW w, DOMAIN w = Regions, NEW c \in Chunks
  PROVE  ChunkAt(w, c) = w[region(c)][region_index(c)]
<1> DEFINE slot == {i \in Slots : from_region_index(region(c), i) = c}
<1>1. region(c) \in DOMAIN w /\ region_index(c) \in slot
  BY SlotOf
<1>2. \A i \in slot : i = region_index(c)
  BY SlotOf, SlotsApart
<1>3. (CHOOSE i \in slot : TRUE) = region_index(c)
  BY <1>1, <1>2
<1>4. slot # {}
  BY <1>1
<1>5. ChunkAt(w, c) = w[region(c)][CHOOSE i \in slot : TRUE]
  BY <1>1, <1>4, Zenon DEF ChunkAt
<1> QED
  BY <1>3, <1>5

\* The chunks of a world are those the game generated, where the region file
\* parses.
LEMMA ChunksOfIs ==
  ASSUME NEW w, WorldType(w)
  PROVE  /\ ChunksOf(w) = {c \in Chunks : Parses(w, region(c)) /\ ChunkAt(w, c) # None}
         /\ ReadChunks(w) =
              {c \in Chunks : Parses(w, region(c)) /\ ChunkAt(w, c) \notin {None, Broken, Refused}}
         /\ \A c \in Chunks : /\ ChunkAt(w, c) \in Stored
                              /\ Parses(w, region(c)) => ChunkAt(w, c) # Refused
<1>0. DOMAIN w = Regions /\ \A r \in Regions, i \in Slots : w[r][i] \in Stored
  BY DEF WorldType
<1>1. ASSUME NEW c \in ChunksOf(w)
      PROVE  c \in Chunks /\ ChunkAt(w, c) # None /\ Parses(w, region(c))
  <2>1. PICK r \in {x \in DOMAIN w : Parses(w, x)} :
               c \in {from_region_index(r, i) : i \in {j \in Slots : w[r][j] # None}}
    BY <1>1, Zenon DEF ChunksOf
  <2>2. PICK i \in Slots : w[r][i] # None /\ c = from_region_index(r, i)
    BY <2>1
  <2>3. r \in Regions /\ Parses(w, r)
    BY <1>0, <2>1
  <2>4. c \in Chunks /\ region(c) = r /\ region_index(c) = i
    BY <2>2, <2>3, SlotsApart DEF WorldType, InPlace
  <2> QED
    BY <1>0, <2>2, <2>3, <2>4, ChunkAtIs
<1>2. ASSUME NEW c \in Chunks, ChunkAt(w, c) # None, Parses(w, region(c)) PROVE c \in ChunksOf(w)
  <2> DEFINE r == region(c)
             i == region_index(c)
  <2>1. r \in DOMAIN w /\ i \in Slots /\ from_region_index(r, i) = c /\ w[r][i] # None
    BY <1>0, <1>2, SlotOf, ChunkAtIs
  <2>2. r \in {x \in DOMAIN w : Parses(w, x)}
    BY <1>2, <2>1
  <2> HIDE DEF r, i
  <2> QED
    BY <2>1, <2>2 DEF ChunksOf
<1>3. \A c \in Chunks : ChunkAt(w, c) \in Stored /\ (Parses(w, region(c)) => ChunkAt(w, c) # Refused)
  <2> SUFFICES ASSUME NEW c \in Chunks
               PROVE  /\ ChunkAt(w, c) \in Stored
                      /\ Parses(w, region(c)) => ChunkAt(w, c) # Refused
    OBVIOUS
  <2>1. region(c) \in Regions /\ region_index(c) \in Slots
        /\ ChunkAt(w, c) = w[region(c)][region_index(c)]
    BY <1>0, SlotOf, ChunkAtIs
  <2> QED
    BY <1>0, <2>1 DEF Parses
<1>4. ChunksOf(w) = {c \in Chunks : Parses(w, region(c)) /\ ChunkAt(w, c) # None}
  BY <1>1, <1>2
<1>5. ReadChunks(w) =
        {c \in Chunks : Parses(w, region(c)) /\ ChunkAt(w, c) \notin {None, Broken, Refused}}
  <2>1. ReadChunks(w) = {c \in ChunksOf(w) : ChunkAt(w, c) # Broken}
    BY Zenon DEF ReadChunks
  <2> QED
    BY <1>3, <1>4, <2>1
<1> QED
  BY <1>3, <1>4, <1>5

\* What a chunk that is written changes.
LEMMA PutLemma ==
  ASSUME NEW w, WorldType(w), NEW c \in Chunks, NEW x \in Stored
  PROVE  /\ WorldType(Put(w, c, x))
         /\ ChunkAt(Put(w, c, x), c) = x
         /\ \A d \in Chunks : d # c => ChunkAt(Put(w, c, x), d) = ChunkAt(w, d)
<1> DEFINE v == Put(w, c, x)
           rc == region(c)
           ic == region_index(c)
<1>0. w \in [Regions -> [Slots -> Stored]] /\ rc \in Regions /\ ic \in Slots
  BY SlotOf DEF WorldType
<1>1. v = [w EXCEPT ![rc][ic] = x]
  BY DEF Put
<1> HIDE DEF v, rc, ic
<1>2. v \in [Regions -> [Slots -> Stored]] /\ DOMAIN v = Regions /\ DOMAIN w = Regions
  BY <1>0, <1>1
<1>3. v[rc][ic] = x
  BY <1>0, <1>1
<1>4. ASSUME NEW r \in Regions, NEW i \in Slots, ~(r = rc /\ i = ic) PROVE v[r][i] = w[r][i]
  BY <1>0, <1>1, <1>4
<1>5. InPlace(v)
  <2> SUFFICES ASSUME NEW r \in Regions, NEW i \in Slots, v[r][i] # None
               PROVE  from_region_index(r, i) \in Chunks
    BY DEF InPlace
  <2>1. CASE r = rc /\ i = ic
    BY <2>1, SlotOf DEF rc, ic
  <2>2. CASE ~(r = rc /\ i = ic)
    BY <1>4, <2>2 DEF WorldType, InPlace
  <2> QED
    BY <2>1, <2>2
<1>6. ChunkAt(v, c) = x
  BY <1>2, <1>3, ChunkAtIs DEF rc, ic
<1>7. ASSUME NEW d \in Chunks, d # c PROVE ChunkAt(v, d) = ChunkAt(w, d)
  <2>1. region(d) \in Regions /\ region_index(d) \in Slots
    BY SlotOf
  <2>2. ~(region(d) = rc /\ region_index(d) = ic)
    BY <1>7, SlotOf DEF rc, ic
  <2> QED
    BY <1>2, <1>4, <2>1, <2>2, ChunkAtIs
<1> QED
  BY <1>2, <1>5, <1>6, <1>7 DEF WorldType, v

-----------------------------------------------------------------------------
(* Sections.                                                               *)

\* SetToSeq lists a finite set, each element once.
LEMMA SetToSeqLists ==
  ASSUME NEW S, IsFiniteSet(S)
  PROVE  /\ SetToSeq(S) \in Seq(S) /\ ToSet(SetToSeq(S)) = S /\ IsInjective(SetToSeq(S))
         /\ Len(SetToSeq(S)) = Cardinality(S) /\ Cardinality(S) \in Nat
<1> DEFINE n == Cardinality(S)
           s == SetToSeq(S)
<1>1. n \in Nat /\ \E f : f \in Bijection(1 .. n, S)
  BY FS_CardinalityType DEF ExistsBijection
<1>2. \E f \in [1 .. n -> S] : IsInjective(f)
  BY <1>1 DEF Bijection, Injection
<1>3. s \in [1 .. n -> S] /\ IsInjective(s)
  BY <1>2, Zenon DEF SetToSeq
<1>4. s \in Injection(1 .. n, S)
  BY <1>3 DEF Injection
<1>5. IsFiniteSet(1 .. n) /\ Cardinality(1 .. n) = n
  BY <1>1, FS_Interval
<1>6. s \in Surjection(1 .. n, S)
  BY <1>4, <1>5, FS_Injection
<1> HIDE DEF s, n
<1>7. ToSet(s) = S
  BY <1>3, <1>6 DEF ToSet, Surjection
<1>8. s \in Seq(S) /\ Len(s) = n
  BY <1>1, <1>3
<1> QED
  BY <1>1, <1>3, <1>7, <1>8 DEF s, n

\* The elements of a function of n numbers are finitely many, at most n.
LEMMA FewElements ==
  ASSUME NEW n \in Nat, NEW f, DOMAIN f = 1 .. n
  PROVE  IsFiniteSet(ToSet(f)) /\ Cardinality(ToSet(f)) <= n /\ Cardinality(ToSet(f)) \in Nat
<1> DEFINE g == [i \in 1 .. n |-> f[i]]
<1>1. g \in Surjection(1 .. n, ToSet(f))
  BY DEF Surjection, ToSet
<1>2. IsFiniteSet(1 .. n) /\ Cardinality(1 .. n) = n
  BY FS_Interval
<1> HIDE DEF g
<1>3. IsFiniteSet(ToSet(f)) /\ Cardinality(ToSet(f)) <= Cardinality(1 .. n)
  BY <1>1, <1>2, FS_Surjection
<1> QED
  BY <1>2, <1>3, FS_CardinalityType

\* A palette of blocks has an index for each that fits in a word.
LEMMA PaletteFits ==
  ASSUME NEW palette, PaletteOK(palette, States)
  PROVE  Len(palette) <= Pow2[WordBits]
<1> DEFINE n == Len(palette)
<1>1. n \in Nat /\ palette \in [1 .. n -> States] /\ IsInjective(palette)
  BY DEF PaletteOK
<1>2. palette \in Injection(1 .. n, States)
  BY <1>1 DEF Injection
<1>3. IsFiniteSet(1 .. n) /\ Cardinality(1 .. n) = n
  BY <1>1, FS_Interval
<1>4. IsFiniteSet(States) /\ Cardinality(States) <= Pow2[WordBits] /\ Pow2[WordBits] \in Nat
  <2>1. WordBits \in 0 .. WordBits
    BY SizesAssumption
  <2> QED
    BY <2>1, PalettesAssumption, Pow2Unfolds
<1> HIDE DEF n
<1>5. Cardinality(1 .. n) <= Cardinality(States) /\ Cardinality(States) \in Nat
  BY <1>2, <1>4, FS_Injection, FS_CardinalityType
<1>6. n <= Pow2[WordBits]
  BY <1>1, <1>3, <1>4, <1>5
<1> QED
  BY <1>6 DEF n

BlocksIn(t, c, h) == [i \in 1 .. Volume |-> t[block_pos(c, h, i - 1)]]
BiomesIn(c, h) == [i \in 1 .. CellVolume |-> Biome(cell_pos(c, h, i - 1))]

SectionOK(s, t, c, h) ==
  /\ s \in SectionRecords
  /\ ContainerOK(s.blocks, BlockBits, BlocksIn(t, c, h), States)
  /\ ContainerOK(s.biomes, 1, BiomesIn(c, h), BiomesThere)

\* The positions of a section.
InSection(p, c, h) == chunk_of(p) = c /\ section_of(p) = h

LEMMA SectionPos ==
  ASSUME NEW c \in Chunks, NEW h \in Heights
  PROVE  /\ c \in Int \X Int /\ h \in Int
         /\ \A i \in 1 .. Volume : /\ block_pos(c, h, i - 1) \in Positions
                                   /\ InSection(block_pos(c, h, i - 1), c, h)
                                   /\ block_index(block_pos(c, h, i - 1)) = i - 1
         /\ \A i \in 1 .. CellVolume : cell_pos(c, h, i - 1) \in Positions
<1>0. c \in Int \X Int /\ h \in Int
  BY PlacesAssumption
<1>1. Volume \in Nat /\ CellVolume \in Nat
  BY SidesAssumption, CellSides, Z3 DEF Volume, CellVolume
<1>2. ASSUME NEW i \in 1 .. Volume
      PROVE  /\ block_pos(c, h, i - 1) \in Positions /\ InSection(block_pos(c, h, i - 1), c, h)
             /\ block_index(block_pos(c, h, i - 1)) = i - 1
  <2>1. i - 1 \in 0 .. Volume - 1
    BY <1>1
  <2> QED
    BY <1>0, <2>1, EntryPos, PositionsAre DEF InSection
<1>3. ASSUME NEW i \in 1 .. CellVolume PROVE cell_pos(c, h, i - 1) \in Positions
  <2>1. i - 1 \in 0 .. CellVolume - 1
    BY <1>1
  <2> QED
    BY <1>0, <2>1, CellPos, PositionsAre
<1> QED
  BY <1>0, <1>2, <1>3

\* A section that the game writes is right.
LEMMA SectionOfLemma ==
  ASSUME NEW c \in Chunks, NEW h \in Heights, NEW palette, PaletteOK(palette, States),
         NEW t, \A p \in Positions : InSection(p, c, h) => t[p] \in ToSet(palette)
  PROVE  SectionOK(SectionOf(t, c, h, palette), t, c, h)
<1> DEFINE s == SectionOf(t, c, h, palette)
           bs == BlocksIn(t, c, h)
           ms == BiomesIn(c, h)
           mp == SetToSeq(ToSet(ms))
<1>0. Volume \in Nat /\ CellVolume \in Nat \ {0}
  BY SidesAssumption, CellSides, Z3 DEF Volume, CellVolume
<1>1. WordBits \in Nat /\ BlockBits \in 1 .. WordBits /\ 1 \in 1 .. WordBits
  BY SizesAssumption
<1>2. s = [blocks |-> Paletted(bs, palette, BlockBits), biomes |-> Paletted(ms, mp, 1)]
  BY Zenon DEF SectionOf, BlocksIn, BiomesIn, Volume, CellVolume
<1>3. bs \in [1 .. Volume -> ToSet(palette)]
  BY SectionPos DEF BlocksIn
<1>4. DOMAIN ms = 1 .. CellVolume /\ ms = [i \in 1 .. CellVolume |-> ms[i]]
      /\ \A i \in 1 .. CellVolume : ms[i] \in BiomesThere
  BY SectionPos DEF BiomesIn, BiomesThere
<1> HIDE DEF ms, bs
<1>5. IsFiniteSet(ToSet(ms)) /\ Cardinality(ToSet(ms)) <= CellVolume /\ ToSet(ms) \subseteq BiomesThere
      /\ ms[1] \in ToSet(ms)
  BY <1>0, <1>4, FewElements DEF ToSet
<1>6. /\ mp \in Seq(ToSet(ms)) /\ ToSet(mp) = ToSet(ms) /\ IsInjective(mp)
      /\ Len(mp) = Cardinality(ToSet(ms)) /\ Len(mp) \in Nat
  BY <1>5, SetToSeqLists
<1> HIDE DEF mp
<1>7. PaletteOK(mp, BiomesThere)
  <2>1. mp \in Seq(BiomesThere)
    BY <1>5, <1>6
  <2>2. Len(mp) # 0
    BY <1>5, <1>6, FS_EmptySet
  <2> QED
    BY <1>6, <2>1, <2>2 DEF PaletteOK
<1>8. Len(mp) <= Pow2[WordBits]
  <2>1. CellVolume <= Pow2[WordBits] /\ Pow2[WordBits] \in Nat
    BY <1>1, PalettesAssumption, Pow2Unfolds DEF CellVolume
  <2> QED
    BY <1>0, <1>5, <1>6, <2>1
<1>9. ms \in [1 .. CellVolume -> ToSet(mp)]
  BY <1>4, <1>6 DEF ToSet
<1>10. ContainerOK(s.blocks, BlockBits, bs, States)
  <2>1. ContainerOK(Paletted(bs, palette, BlockBits), BlockBits, bs, States)
    BY <1>0, <1>1, <1>3, PaletteFits, PalettedLemma
  <2> QED
    BY <1>2, <2>1
<1>11. ContainerOK(s.biomes, 1, ms, BiomesThere)
  <2>1. ContainerOK(Paletted(ms, mp, 1), 1, ms, BiomesThere)
    BY <1>0, <1>1, <1>7, <1>8, <1>9, PalettedLemma
  <2> QED
    BY <1>2, <2>1
<1>12. s \in SectionRecords
  <2>1. s.blocks \in Containers(States) /\ s.biomes \in Containers(BiomesThere)
    BY <1>10, <1>11 DEF ContainerOK
  <2> QED
    BY <1>2, <2>1 DEF SectionRecords
<1> QED
  BY <1>10, <1>11, <1>12 DEF SectionOK, bs, ms

-----------------------------------------------------------------------------
(* Chunks and what is read from them.                                      *)

Signs(t, c) == {<<Sign, p>> : p \in {q \in Positions : chunk_of(q) = c /\ t[q] = Sign}}

\* A chunk and the truth about it.
ChunkOK(x, t, c) ==
  IF x \in {None, Broken, Refused} THEN \A p \in Positions : chunk_of(p) = c => t[p] = None
  ELSE /\ \A p \in Positions : chunk_of(p) = c => (t[p] = None <=> section_of(p) \notin DOMAIN x.sections)
       /\ \A h \in DOMAIN x.sections : SectionOK(x.sections[h], t, c, h)
       /\ ToSet(x.entities) = Signs(t, c)

TruthType(t) == t \in [Positions -> States \cup {None}]

WorldOK(w, t) ==
  /\ WorldType(w) /\ TruthType(t)
  /\ \A c \in Chunks : ChunkOK(ChunkAt(w, c), t, c)

\* A chunk that decodes.
Decoded(x, t, c) == x \in ChunkRecords /\ TruthType(t) /\ ChunkOK(x, t, c)

LEMMA DecodedIs ==
  ASSUME NEW x, NEW t, NEW c \in Chunks, Decoded(x, t, c)
  PROVE  /\ DOMAIN x.sections \subseteq Heights /\ x.entities \in Seq({Sign} \X Positions)
         /\ \A p \in Positions : chunk_of(p) = c => (t[p] = None <=> section_of(p) \notin DOMAIN x.sections)
         /\ \A h \in DOMAIN x.sections : SectionOK(x.sections[h], t, c, h)
         /\ ToSet(x.entities) = Signs(t, c)
         /\ x \notin {None, Broken, Refused}
<1>1. x \notin {None, Broken, Refused}
  BY NoneAssumption DEF Decoded
<1>2. DOMAIN x.sections \subseteq Heights /\ x.entities \in Seq({Sign} \X Positions)
  BY DEF Decoded, ChunkRecords
<1> QED
  BY <1>1, <1>2 DEF Decoded, ChunkOK

LEMMA ReadIsDecoded ==
  ASSUME NEW w, NEW t, WorldOK(w, t), NEW c \in Chunks
  PROVE  /\ ChunkAt(w, c) \notin {None, Broken, Refused} => Decoded(ChunkAt(w, c), t, c)
         /\ ChunkAt(w, c) \in {None, Broken, Refused} => \A p \in Positions : chunk_of(p) = c => t[p] = None
<1>1. ChunkAt(w, c) \in Stored /\ ChunkOK(ChunkAt(w, c), t, c) /\ TruthType(t)
  BY ChunksOfIs DEF WorldOK
<1> QED
  BY <1>1 DEF Stored, Decoded, ChunkOK

\* section_blocks gives the blocks of a section.
LEMMA SectionBlocksAre ==
  ASSUME NEW x, NEW t, NEW c \in Chunks, Decoded(x, t, c), NEW h \in DOMAIN x.sections
  PROVE  /\ section_blocks(x, h) = BlocksIn(t, c, h) /\ section_blocks(x, h) # None
         /\ h \in Heights
<1>0. h \in Heights /\ SectionOK(x.sections[h], t, c, h)
  BY DecodedIs
<1> DEFINE s == x.sections[h].blocks
           all == [i \in 1 .. Side * Side * Side |-> Reading(s, BlockBits, i - 1)]
           bs == BlocksIn(t, c, h)
<1>1. ContainerOK(s, BlockBits, bs, States)
  BY <1>0 DEF SectionOK
<1>2. s.palette \in Seq(States) /\ DOMAIN bs = 1 .. Volume
      /\ \A i \in 1 .. Volume : Reading(s, BlockBits, i - 1) = bs[i] /\ bs[i] \in ToSet(s.palette)
  BY <1>1 DEF ContainerOK, PaletteOK, ReadsAs, BlocksIn
<1>3. all = bs
  BY <1>2 DEF Volume, BlocksIn
<1>4. ToSet(s.palette) \subseteq States
  BY <1>2 DEF ToSet
<1>5. bs \in [1 .. Volume -> States]
  BY <1>2, <1>4 DEF BlocksIn
<1> HIDE DEF bs
<1>6. None \notin ToSet(bs) /\ bs # None
  BY <1>2, <1>5, NoneAssumption DEF ToSet, Volume
<1>7. section_blocks(x, h) = IF None \in ToSet(all) THEN None ELSE all
  BY Zenon DEF section_blocks, Reading
<1> HIDE DEF all
<1> QED
  BY <1>0, <1>3, <1>6, <1>7 DEF bs

\* The block that an entry of section_blocks stands for, None where there is no
\* section.
LEMMA SectionBlockAt ==
  ASSUME NEW x, NEW t, NEW c \in Chunks, Decoded(x, t, c), NEW h \in Heights, NEW i \in 1 .. Volume
  PROVE  (IF section_blocks(x, h) = None THEN None ELSE section_blocks(x, h)[i]) = t[block_pos(c, h, i - 1)]
<1>1. CASE h \in DOMAIN x.sections
  <2>1. section_blocks(x, h) = BlocksIn(t, c, h) /\ section_blocks(x, h) # None
    BY <1>1, SectionBlocksAre
  <2> QED
    BY <2>1 DEF BlocksIn
<1>2. CASE h \notin DOMAIN x.sections
  <2>1. section_blocks(x, h) = None
    BY <1>2 DEF section_blocks
  <2>2. block_pos(c, h, i - 1) \in Positions /\ InSection(block_pos(c, h, i - 1), c, h)
    BY SectionPos
  <2>3. t[block_pos(c, h, i - 1)] = None
    BY <1>2, <2>2, DecodedIs DEF InSection
  <2> QED
    BY <2>1, <2>3
<1> QED
  BY <1>1, <1>2

\* block_at and biome_at of a position.
LEMMA BlockAndBiomeAt ==
  ASSUME NEW x, NEW t, NEW p \in Positions, Decoded(x, t, chunk_of(p))
  PROVE  /\ block_at(x, p) = t[p]
         /\ biome_at(x, p) = IF t[p] = None THEN None ELSE Biome(p)
<1> DEFINE c == chunk_of(p)
           h == section_of(p)
<1>0. p \in Int \X Int \X Int /\ c \in Chunks /\ h \in Heights
  BY PositionsAre
<1>1. CASE h \notin DOMAIN x.sections
  <2>1. t[p] = None
    BY <1>0, <1>1, DecodedIs
  <2> QED
    BY <1>1, <2>1 DEF block_at, biome_at
<1>2. CASE h \in DOMAIN x.sections
  <2> DEFINE s == x.sections[h]
  <2>1. SectionOK(s, t, c, h) /\ t[p] # None
    BY <1>0, <1>2, DecodedIs
  <2>2. /\ block_at(x, p) = Reading(s.blocks, BlockBits, block_index(p))
        /\ biome_at(x, p) = Reading(s.biomes, 1, cell_index(p))
    BY <1>2, Zenon DEF block_at, biome_at, Reading
  <2>3. ReadsAs(s.blocks, BlockBits, BlocksIn(t, c, h)) /\ ReadsAs(s.biomes, 1, BiomesIn(c, h))
    BY <2>1 DEF SectionOK, ContainerOK
  <2>4. Reading(s.blocks, BlockBits, block_index(p)) = t[p]
    <3> DEFINE i == block_index(p) + 1
    <3>1. block_index(p) \in 0 .. Volume - 1 /\ block_pos(c, h, block_index(p)) = p
      BY <1>0, IndexPos
    <3>2. Volume \in Nat
      BY SidesAssumption, Z3 DEF Volume
    <3>3. i \in 1 .. Volume /\ i - 1 = block_index(p)
      BY <3>1, <3>2
    <3> HIDE DEF i
    <3>4. Reading(s.blocks, BlockBits, i - 1) = BlocksIn(t, c, h)[i]
      BY <2>3, <3>3 DEF ReadsAs, BlocksIn
    <3>5. BlocksIn(t, c, h)[i] = t[block_pos(c, h, i - 1)]
      BY <3>3 DEF BlocksIn
    <3> QED
      BY <3>1, <3>3, <3>4, <3>5
  <2>5. Reading(s.biomes, 1, cell_index(p)) = Biome(p)
    <3> DEFINE i == cell_index(p) + 1
    <3>1. cell_index(p) \in 0 .. CellVolume - 1
      BY <1>0, CellIndex
    <3>2. CellVolume \in Nat
      BY CellSides, Z3 DEF CellVolume
    <3>3. i \in 1 .. CellVolume /\ i - 1 = cell_index(p)
      BY <3>1, <3>2
    <3> HIDE DEF i
    <3>4. Reading(s.biomes, 1, i - 1) = BiomesIn(c, h)[i]
      BY <2>3, <3>3 DEF ReadsAs, BiomesIn
    <3>5. BiomesIn(c, h)[i] = Biome(cell_pos(c, h, i - 1))
      BY <3>3 DEF BiomesIn
    <3> QED
      BY <3>3, <3>4, <3>5, BiomeAssumption
  <2> QED
    BY <2>1, <2>2, <2>4, <2>5
<1> QED
  BY <1>1, <1>2

-----------------------------------------------------------------------------
(* inspect, find and where-changed.                                        *)

\* A finite set of numbers that is not empty has a least and a greatest.
LEMMA Extremes ==
  ASSUME NEW S \in SUBSET Int, IsFiniteSet(S), S # {}
  PROVE  /\ Max(S) \in S /\ \A y \in S : Max(S) >= y
         /\ Min(S) \in S /\ \A y \in S : Min(S) <= y
<1> DEFINE n == Cardinality(S)
<1>0. n \in Nat /\ ExistsBijection(1 .. n, S)
  BY FS_CardinalityType
<1> HIDE DEF n
<1>1. PICK f \in [1 .. n -> S] : \A x \in S : \E i \in 1 .. n : f[i] = x
  BY <1>0 DEF ExistsBijection, Bijection, Surjection
<1> DEFINE Has(k) == /\ \E m \in 1 .. k : \A i \in 1 .. k : f[m] >= f[i]
                     /\ \E m \in 1 .. k : \A i \in 1 .. k : f[m] <= f[i]
           Bad == {k \in 1 .. n : ~Has(k)}
<1>2. n >= 1
  <2>1. PICK x : x \in S
    OBVIOUS
  <2>2. PICK i \in 1 .. n : f[i] = x
    BY <1>1, <2>1
  <2> QED
    BY <1>0, <2>2
<1>3. \A i \in 1 .. n : f[i] \in Int
  OBVIOUS
<1>4. ASSUME NEW k \in Bad, \A j \in Bad : k <= j PROVE FALSE
  <2>1. CASE k = 1
    <3>1. 1 .. 1 = {1} /\ f[1] \in Int
      BY <1>2, <1>3
    <3> QED
      BY <2>1, <3>1
  <2>2. CASE k # 1
    <3> DEFINE j == k - 1
    <3>1. j \in 1 .. n /\ j \in Nat /\ k = j + 1 /\ ~(k <= j) /\ k \in 1 .. n
      BY <1>0, <2>2
    <3> HIDE DEF j
    <3>2. Has(j)
      BY <1>4, <3>1
    <3>3. PICK a \in 1 .. j : \A i \in 1 .. j : f[a] >= f[i]
      BY <3>2
    <3>4. PICK b \in 1 .. j : \A i \in 1 .. j : f[b] <= f[i]
      BY <3>2
    <3>5. a \in 1 .. k /\ b \in 1 .. k /\ k \in 1 .. k /\ f[a] \in Int /\ f[b] \in Int /\ f[k] \in Int
          /\ \A i \in 1 .. k : (i = k \/ i \in 1 .. j) /\ i \in 1 .. n
      BY <1>0, <1>3, <3>1
    <3>6. \E m \in 1 .. k : \A i \in 1 .. k : f[m] >= f[i]
      <4>1. CASE f[a] >= f[k]
        BY <3>3, <3>5, <4>1
      <4>2. CASE ~(f[a] >= f[k])
        <5>1. ASSUME NEW i \in 1 .. k PROVE f[k] >= f[i]
          <6>1. f[i] \in Int /\ (i = k \/ f[a] >= f[i])
            BY <1>3, <3>3, <3>5
          <6> QED
            BY <3>5, <4>2, <6>1
        <5> QED
          BY <3>5, <5>1
      <4> QED
        BY <4>1, <4>2
    <3>7. \E m \in 1 .. k : \A i \in 1 .. k : f[m] <= f[i]
      <4>1. CASE f[b] <= f[k]
        BY <3>4, <3>5, <4>1
      <4>2. CASE ~(f[b] <= f[k])
        <5>1. ASSUME NEW i \in 1 .. k PROVE f[k] <= f[i]
          <6>1. f[i] \in Int /\ (i = k \/ f[b] <= f[i])
            BY <1>3, <3>4, <3>5
          <6> QED
            BY <3>5, <4>2, <6>1
        <5> QED
          BY <3>5, <5>1
      <4> QED
        BY <4>1, <4>2
    <3> QED
      BY <3>6, <3>7
  <2> QED
    BY <2>1, <2>2
<1>5. Bad \subseteq Nat
  OBVIOUS
<1>6. n \notin Bad
  <2> HIDE DEF Bad
  <2> QED
    BY <1>4, <1>5, LeastLemma
<1>7. Has(n)
  BY <1>0, <1>2, <1>6
<1>8. PICK a \in S : \A y \in S : a >= y
  <2>1. PICK m \in 1 .. n : \A i \in 1 .. n : f[m] >= f[i]
    BY <1>7
  <2> QED
    BY <1>1, <2>1
<1>9. PICK b \in S : \A y \in S : b <= y
  <2>1. PICK m \in 1 .. n : \A i \in 1 .. n : f[m] <= f[i]
    BY <1>7
  <2> QED
    BY <1>1, <2>1
<1> QED
  BY <1>8, <1>9, MaxIs, MinIs

\* What inspect says.
LEMMA InspectIs ==
  ASSUME NEW w, NEW t, WorldOK(w, t), NEW p \in Positions
  PROVE  inspect(w, p) =
           IF ~Parses(w, region(chunk_of(p))) THEN Failed
           ELSE [block |-> t[p], biome |-> IF t[p] = None THEN None ELSE Biome(p),
                 entity |-> IF t[p] = Sign THEN Sign ELSE None]
<1> DEFINE x == ChunkAt(w, chunk_of(p))
           here == {i \in DOMAIN x.entities : x.entities[i][2] = p}
<1>0. chunk_of(p) \in Chunks /\ None # Sign
  BY PositionsAre, NoneAssumption DEF States
<1>a. region(chunk_of(p)) \in DOMAIN w
  BY <1>0, SlotOf DEF WorldOK, WorldType
<1>b. CASE ~Parses(w, region(chunk_of(p)))
  BY <1>a, <1>b, Zenon DEF inspect
<1>c. ASSUME Parses(w, region(chunk_of(p))) PROVE x # Refused
  BY <1>0, <1>c, ChunksOfIs DEF WorldOK
<1>1. CASE Parses(w, region(chunk_of(p))) /\ x \in {None, Broken, Refused}
  <2>0. x \in {None, Broken}
    BY <1>1, <1>c
  <2>1. inspect(w, p) = [block |-> None, biome |-> None, entity |-> None]
    BY <1>1, <2>0, Zenon DEF inspect
  <2>2. t[p] = None
    BY <1>0, <1>1, ReadIsDecoded
  <2> QED
    BY <1>0, <1>1, <2>1, <2>2
<1>2. CASE Parses(w, region(chunk_of(p))) /\ x \notin {None, Broken, Refused}
  <2>0. x \notin {None, Broken}
    BY <1>2
  <2>1. Decoded(x, t, chunk_of(p))
    BY <1>0, <1>2, ReadIsDecoded
  <2>2. inspect(w, p) = [block |-> block_at(x, p), biome |-> biome_at(x, p),
                         entity |-> IF here = {} THEN None ELSE x.entities[Max(here)][1]]
    BY <1>2, <2>0, Zenon DEF inspect
  <2>3. x.entities \in Seq({Sign} \X Positions) /\ ToSet(x.entities) = Signs(t, chunk_of(p))
    BY <1>0, <2>1, DecodedIs
  <2> HIDE DEF x
  <2>4. here = {} <=> t[p] # Sign
    <3>1. here # {} <=> \E e \in ToSet(x.entities) : e[2] = p
      BY DEF ToSet
    <3>2. (\E e \in Signs(t, chunk_of(p)) : e[2] = p) <=> t[p] = Sign
      <4>1. ASSUME NEW e \in Signs(t, chunk_of(p)), e[2] = p PROVE t[p] = Sign
        BY <4>1 DEF Signs
      <4>2. ASSUME t[p] = Sign PROVE <<Sign, p>> \in Signs(t, chunk_of(p))
        BY <4>2 DEF Signs
      <4> QED
        BY <4>1, <4>2
    <3> QED
      BY <2>3, <3>1, <3>2
  <2>5. ASSUME here # {} PROVE x.entities[Max(here)][1] = Sign
    <3>1. here \in SUBSET (1 .. Len(x.entities)) /\ Len(x.entities) \in Nat
      BY <2>3
    <3>2. IsFiniteSet(here) /\ here \in SUBSET Int
      <4> HIDE DEF here
      <4>1. IsFiniteSet(1 .. Len(x.entities))
        BY <3>1, FS_Interval
      <4>2. IsFiniteSet(here)
        BY <3>1, <4>1, FS_Subset, Zenon
      <4> QED
        BY <3>1, <4>2
    <3>3. Max(here) \in here
      <4> HIDE DEF here
      <4> QED
        BY <2>5, <3>2, Extremes
    <3> DEFINE m == Max(here)
    <3>4. m \in DOMAIN x.entities
      BY <3>3
    <3> HIDE DEF m
    <3>5. x.entities[m] \in {Sign} \X Positions
      BY <2>3, <3>4
    <3>6. x.entities[m][1] = Sign
      BY <3>5
    <3> QED
      BY <3>6 DEF m
  <2>6. /\ block_at(x, p) = t[p]
        /\ biome_at(x, p) = IF t[p] = None THEN None ELSE Biome(p)
    BY <2>1, BlockAndBiomeAt
  <2> HIDE DEF here
  <2> QED
    BY <1>2, <2>2, <2>4, <2>5, <2>6
<1> QED
  BY <1>1, <1>2, <1>b

\* What find lists.
LEMMA FindIs ==
  ASSUME NEW w, NEW t, WorldOK(w, t)
  PROVE  find_block_entities(w, Sign) =
           IF \E r \in Regions : ~Parses(w, r) THEN Failed
           ELSE {<<Sign, p>> : p \in {q \in Positions : t[q] = Sign}}
<1> DEFINE R == {<<Sign, p>> : p \in {q \in Positions : t[q] = Sign}}
           Found == {e \in UNION {ToSet(ChunkAt(w, c).entities) : c \in ReadChunks(w)} : e[1] = Sign}
<1>a. DOMAIN w = Regions
  BY DEF WorldOK, WorldType
<1>b. CASE \E r \in Regions : ~Parses(w, r)
  BY <1>a, <1>b, Zenon DEF find_block_entities
<1>c. CASE \A r \in Regions : Parses(w, r)
  <2>0. /\ ReadChunks(w) = {c \in Chunks : Parses(w, region(c))
                                          /\ ChunkAt(w, c) \notin {None, Broken, Refused}}
        /\ None # Sign
    BY ChunksOfIs, NoneAssumption DEF WorldOK, States
  <2>1. \A c \in ReadChunks(w) : ToSet(ChunkAt(w, c).entities) = Signs(t, c)
    BY <2>0, ReadIsDecoded, DecodedIs
  <2>2. ASSUME NEW e \in Found PROVE e \in R
    <3>1. PICK c \in ReadChunks(w) : e \in ToSet(ChunkAt(w, c).entities)
      BY <2>2
    <3> QED
      BY <2>1, <3>1 DEF Signs
  <2>3. ASSUME NEW p \in Positions, t[p] = Sign PROVE <<Sign, p>> \in Found
    <3> DEFINE c == chunk_of(p)
    <3>1. c \in Chunks /\ Parses(w, region(c))
      BY <1>c, PositionsAre, SlotOf
    <3>2. c \in ReadChunks(w)
      BY <2>0, <2>3, <3>1, ReadIsDecoded
    <3>3. <<Sign, p>> \in Signs(t, c)
      BY <2>3 DEF Signs
    <3>4. <<Sign, p>> \in ToSet(ChunkAt(w, c).entities)
      BY <2>1, <3>2, <3>3
    <3> QED
      BY <3>2, <3>4
  <2>4. Found = R
    BY <2>2, <2>3
  <2>5. find_block_entities(w, Sign) = Found
    BY <1>a, <1>c, Zenon DEF find_block_entities
  <2> HIDE DEF Found, R
  <2>6. find_block_entities(w, Sign) = R
    BY <2>4, <2>5
  <2> QED
    BY <1>c, <2>6, Zenon DEF R
<1> QED
  BY <1>b, <1>c, Zenon

\* The blocks of a chunk that two truths differ on, with both.
Differing(t, u, c) ==
  {<<p, t[p], u[p]>> : p \in {q \in Positions : chunk_of(q) = c /\ t[q] # u[q]}}

\* The changes between two chunks are exact.
LEMMA BlockChangesAre ==
  ASSUME NEW c \in Chunks, NEW x, NEW t, Decoded(x, t, c), NEW y, NEW u, Decoded(y, u, c)
  PROVE  BlockChanges(x, y, c) = Differing(t, u, c)
<1> DEFINE at(s, i) == IF s = None THEN None ELSE s[i]
           pos(h, i) == block_pos(c, h, i - 1)
           Of(h) == {<<pos(h, i), at(section_blocks(x, h), i), at(section_blocks(y, h), i)>> :
                       i \in {j \in 1 .. Volume : at(section_blocks(x, h), j) # at(section_blocks(y, h), j)}}
<1>1. BlockChanges(x, y, c) = UNION {Of(h) : h \in DOMAIN x.sections \cup DOMAIN y.sections}
  BY Zenon DEF BlockChanges, Volume
<1>2. /\ DOMAIN x.sections \subseteq Heights /\ DOMAIN y.sections \subseteq Heights
      /\ \A p \in Positions : chunk_of(p) = c => (t[p] = None <=> section_of(p) \notin DOMAIN x.sections)
      /\ \A p \in Positions : chunk_of(p) = c => (u[p] = None <=> section_of(p) \notin DOMAIN y.sections)
  BY DecodedIs
<1>3. \A h \in Heights, i \in 1 .. Volume :
        at(section_blocks(x, h), i) = t[pos(h, i)] /\ at(section_blocks(y, h), i) = u[pos(h, i)]
  BY SectionBlockAt
<1>4. \A h \in Heights, i \in 1 .. Volume : pos(h, i) \in Positions /\ chunk_of(pos(h, i)) = c
  BY SectionPos DEF InSection
<1> HIDE DEF at, pos
<1>5. ASSUME NEW e \in BlockChanges(x, y, c) PROVE e \in Differing(t, u, c)
  <2>1. PICK h \in DOMAIN x.sections \cup DOMAIN y.sections : e \in Of(h)
    BY <1>1, <1>5
  <2>2. PICK i \in 1 .. Volume :
               /\ at(section_blocks(x, h), i) # at(section_blocks(y, h), i)
               /\ e = <<pos(h, i), at(section_blocks(x, h), i), at(section_blocks(y, h), i)>>
    BY <2>1
  <2> DEFINE p == pos(h, i)
  <2>3. h \in Heights
    BY <1>2
  <2>4. p \in Positions /\ chunk_of(p) = c /\ t[p] # u[p] /\ e = <<p, t[p], u[p]>>
    BY <1>3, <1>4, <2>2, <2>3
  <2> HIDE DEF p
  <2> QED
    BY <2>4 DEF Differing
<1>6. ASSUME NEW p \in Positions, chunk_of(p) = c, t[p] # u[p]
      PROVE  <<p, t[p], u[p]>> \in BlockChanges(x, y, c)
  <2> DEFINE h == section_of(p)
             i == block_index(p) + 1
  <2>1. h \in DOMAIN x.sections \cup DOMAIN y.sections /\ h \in Heights
    BY <1>2, <1>6
  <2>2. i \in 1 .. Volume /\ pos(h, i) = p
    <3>1. p \in Int \X Int \X Int
      BY PositionsAre
    <3>2. block_index(p) \in 0 .. Volume - 1 /\ block_pos(c, h, block_index(p)) = p
      BY <1>6, <3>1, IndexPos
    <3>3. Volume \in Nat
      BY SidesAssumption, Z3 DEF Volume
    <3>4. i \in 1 .. Volume /\ i - 1 = block_index(p)
      BY <3>2, <3>3
    <3> QED
      BY <3>2, <3>4 DEF pos
  <2> HIDE DEF i, h
  <2>3. at(section_blocks(x, h), i) = t[p] /\ at(section_blocks(y, h), i) = u[p]
    BY <1>3, <2>1, <2>2
  <2>4. <<p, t[p], u[p]>> \in Of(h)
    BY <1>6, <2>2, <2>3
  <2> HIDE DEF Of
  <2> QED
    BY <1>1, <2>1, <2>4
<1> QED
  BY <1>5, <1>6 DEF Differing

\* A list of the blocks at some positions that two truths differ on, with both.
ChangedIn(t, u, ps) == {<<p, t[p], u[p]>> : p \in {q \in ps : t[q] # u[q]}}

\* The region files that both of two worlds have.
SharedBy(w, v) == {r \in Regions : Exists(w, r) /\ Exists(v, r)}

\* where_changed and block_edits_between are exact.
LEMMA ChangesAre ==
  ASSUME NEW w, NEW t, WorldOK(w, t), NEW v, NEW u, WorldOK(v, u)
  PROVE  /\ where_changed(w, v) =
              IF \A r \in SharedBy(w, v) : Parses(w, r) /\ Parses(v, r)
              THEN ChangedIn(t, u, {p \in Positions : Good(w, p) /\ Good(v, p)})
              ELSE Failed
         /\ \A c \in ReadChunks(w) \cap ReadChunks(v) :
              block_edits_between(ChunkAt(w, c), ChunkAt(v, c), c) =
                ChangedIn(t, u, {p \in Positions : chunk_of(p) = c})
<1> DEFINE Both == ReadChunks(w) \cap ReadChunks(v)
           R == ChangedIn(t, u, {p \in Positions : Good(w, p) /\ Good(v, p)})
           Sound == \A r \in SharedBy(w, v) : Parses(w, r) /\ Parses(v, r)
           Listed == UNION {BlockChanges(ChunkAt(w, c), ChunkAt(v, c), c) : c \in Both}
<1>0. DOMAIN w = Regions /\ DOMAIN v = Regions
  BY DEF WorldOK, WorldType
<1>1. Both = {c \in Chunks : /\ Parses(w, region(c)) /\ Parses(v, region(c))
                             /\ ChunkAt(w, c) \notin {None, Broken, Refused}
                             /\ ChunkAt(v, c) \notin {None, Broken, Refused}}
  BY ChunksOfIs DEF WorldOK
<1>2. \A c \in Both : BlockChanges(ChunkAt(w, c), ChunkAt(v, c), c) = Differing(t, u, c)
  BY <1>1, ReadIsDecoded, BlockChangesAre
<1>3. where_changed(w, v) = IF Sound THEN Listed ELSE Failed
  <2>1. (\E r \in DOMAIN w \cap DOMAIN v :
           Exists(w, r) /\ Exists(v, r) /\ ~(Parses(w, r) /\ Parses(v, r))) <=> ~Sound
    BY <1>0, Zenon DEF SharedBy
  <2> QED
    BY <2>1, Zenon DEF where_changed
<1>4. ASSUME Sound, NEW p \in Positions
      PROVE  (Good(w, p) /\ Good(v, p)) <=> chunk_of(p) \in Both
  <2> DEFINE c == chunk_of(p)
             r == region(c)
  <2>1. c \in Chunks /\ r \in Regions /\ region_index(c) \in Slots
    BY PositionsAre, SlotOf
  <2>2. ChunkAt(w, c) = w[r][region_index(c)] /\ ChunkAt(v, c) = v[r][region_index(c)]
    BY <1>0, <2>1, ChunkAtIs
  <2> HIDE DEF r, Both
  <2>3. ASSUME Good(w, p), Good(v, p) PROVE Parses(w, r) /\ Parses(v, r)
    <3>1. w[r][region_index(c)] # None /\ v[r][region_index(c)] # None
      BY <2>2, <2>3 DEF Good
    <3>2. r \in SharedBy(w, v)
      BY <2>1, <3>1 DEF SharedBy, Exists
    <3> QED
      BY <1>4, <3>2
  <2> QED
    BY <1>1, <2>1, <2>3 DEF Good, r
<1> HIDE DEF Both, Sound
<1>5. ASSUME Sound PROVE Listed = R
  <2>1. Listed = UNION {Differing(t, u, c) : c \in Both}
    BY <1>2
  <2>2. \A p \in Positions : (Good(w, p) /\ Good(v, p)) <=> chunk_of(p) \in Both
    BY <1>4, <1>5
  <2>3. UNION {Differing(t, u, c) : c \in Both} = R
    BY <2>2 DEF Differing, ChangedIn
  <2> QED
    BY <2>1, <2>3
<1> HIDE DEF Listed, R
<1>6. where_changed(w, v) = IF Sound THEN R ELSE Failed
  BY <1>3, <1>5
<1>7. \A c \in Both : Differing(t, u, c) = ChangedIn(t, u, {p \in Positions : chunk_of(p) = c})
  BY DEF Differing, ChangedIn
<1>8. \A c \in Both : block_edits_between(ChunkAt(w, c), ChunkAt(v, c), c) =
                        ChangedIn(t, u, {p \in Positions : chunk_of(p) = c})
  BY <1>2, <1>7 DEF block_edits_between
<1> QED
  BY <1>6, <1>8, Zenon DEF Both, Sound, R

-----------------------------------------------------------------------------
(* The game keeps worlds right.                                            *)

\* A section is as right for a truth that says the same of its blocks.
LEMMA SameSection ==
  ASSUME NEW c \in Chunks, NEW h \in Heights, NEW t, NEW u,
         \A p \in Positions : InSection(p, c, h) => u[p] = t[p],
         NEW s, SectionOK(s, t, c, h)
  PROVE  SectionOK(s, u, c, h)
<1>1. \A i \in 1 .. Volume : u[block_pos(c, h, i - 1)] = t[block_pos(c, h, i - 1)]
  BY SectionPos
<1>2. BlocksIn(u, c, h) = BlocksIn(t, c, h)
  BY <1>1 DEF BlocksIn
<1> QED
  BY <1>2 DEF SectionOK

\* A block of a section is in its palette.
LEMMA InPalette ==
  ASSUME NEW p \in Positions, NEW t, NEW s, SectionOK(s, t, chunk_of(p), section_of(p))
  PROVE  t[p] \in ToSet(s.blocks.palette)
<1> DEFINE c == chunk_of(p)
           h == section_of(p)
           i == block_index(p) + 1
<1>1. block_index(p) \in 0 .. Volume - 1 /\ block_pos(c, h, block_index(p)) = p
  BY PositionsAre, IndexPos
<1>2. Volume \in Nat
  BY SidesAssumption, Z3 DEF Volume
<1>3. i \in 1 .. Volume /\ i - 1 = block_index(p)
  BY <1>1, <1>2
<1> HIDE DEF i
<1>4. BlocksIn(t, c, h)[i] = t[p] /\ i \in DOMAIN BlocksIn(t, c, h)
  BY <1>1, <1>3 DEF BlocksIn
<1> QED
  BY <1>4 DEF SectionOK, ContainerOK

\* Two truths that differ in one chunk alone.
SameElsewhere(u, t, c) == \A p \in Positions : chunk_of(p) # c => u[p] = t[p]

\* One chunk is written, and the truth changes there alone.
LEMMA WriteChunk ==
  ASSUME NEW w, NEW t, WorldOK(w, t), NEW c \in Chunks, NEW x \in Stored,
         NEW u, TruthType(u), SameElsewhere(u, t, c), ChunkOK(x, u, c)
  PROVE  WorldOK(Put(w, c, x), u)
<1> DEFINE v == Put(w, c, x)
<1>1. WorldType(v) /\ ChunkAt(v, c) = x /\ \A d \in Chunks : d # c => ChunkAt(v, d) = ChunkAt(w, d)
  BY PutLemma DEF WorldOK
<1>2. ASSUME NEW d \in Chunks, d # c PROVE ChunkOK(ChunkAt(w, d), u, d)
  <2> DEFINE y == ChunkAt(w, d)
  <2>1. \A p \in Positions : chunk_of(p) = d => u[p] = t[p]
    BY <1>2 DEF SameElsewhere
  <2>2. CASE y \in {None, Broken, Refused}
    BY <2>1, <2>2, ReadIsDecoded DEF ChunkOK
  <2>3. CASE y \notin {None, Broken, Refused}
    <3>1. Decoded(y, t, d)
      BY <2>3, ReadIsDecoded
    <3>2. /\ DOMAIN y.sections \subseteq Heights
          /\ \A p \in Positions : chunk_of(p) = d => (t[p] = None <=> section_of(p) \notin DOMAIN y.sections)
          /\ \A h \in DOMAIN y.sections : SectionOK(y.sections[h], t, d, h)
          /\ ToSet(y.entities) = Signs(t, d)
      BY <3>1, DecodedIs
    <3>3. \A h \in DOMAIN y.sections : SectionOK(y.sections[h], u, d, h)
      <4> SUFFICES ASSUME NEW h \in DOMAIN y.sections PROVE SectionOK(y.sections[h], u, d, h)
        OBVIOUS
      <4>1. \A p \in Positions : InSection(p, d, h) => u[p] = t[p]
        BY <2>1 DEF InSection
      <4>2. h \in Heights /\ SectionOK(y.sections[h], t, d, h)
        BY <3>2
      <4> HIDE DEF y
      <4> QED
        BY <4>1, <4>2, SameSection
    <3>4. Signs(u, d) = Signs(t, d)
      BY <2>1 DEF Signs
    <3>5. \A p \in Positions : chunk_of(p) = d => (u[p] = None <=> section_of(p) \notin DOMAIN y.sections)
      BY <2>1, <3>2
    <3> HIDE DEF y
    <3>6. ChunkOK(y, u, d)
      BY <2>3, <3>2, <3>3, <3>4, <3>5 DEF ChunkOK
    <3> QED
      BY <3>6 DEF y
  <2> QED
    BY <2>2, <2>3
<1> HIDE DEF v
<1>3. \A d \in Chunks : ChunkOK(ChunkAt(v, d), u, d)
  BY <1>1, <1>2
<1>4. WorldOK(v, u)
  BY <1>1, <1>3 DEF WorldOK
<1> QED
  BY <1>4 DEF v

\* What is there, and what is written, when a chunk is generated and when a
\* block is placed.
WithChunk(t, c, palette) ==
  [p \in Positions |-> IF chunk_of(p) = c /\ section_of(p) \in StartHeights
                       THEN palette[1] ELSE t[p]]

NewChunk(u, c, palette) ==
  [sections |-> [h \in StartHeights |-> SectionOf(u, c, h, palette)], entities |-> <<>>]

WithSection(t, c, h) ==
  [q \in Positions |-> IF chunk_of(q) = c /\ section_of(q) = h /\ t[q] = None THEN Air ELSE t[q]]

PaletteBefore(x, h) == IF h \in DOMAIN x.sections THEN x.sections[h].blocks.palette ELSE <<Air>>

PaletteWith(before, b) == IF b \in ToSet(before) THEN before ELSE Append(before, b)

OthersThan(x, p) == {e \in ToSet(x.entities) : e[2] # p}

ChunkWith(x, u, c, h, p, b, palette, others) ==
  [sections |-> [k \in DOMAIN x.sections \cup {h} |->
                   IF k = h THEN SectionOf(u, c, h, palette) ELSE x.sections[k]],
   entities |-> SetToSeq(IF b = Sign THEN others \cup {<<Sign, p>>} ELSE others)]

\* A chunk is generated.
LEMMA GenerateKeeps ==
  ASSUME NEW w, NEW t, WorldOK(w, t), NEW c \in Chunks, NEW palette \in Palettes,
         ChunkAt(w, c) = None, NEW u, u = WithChunk(t, c, palette)
  PROVE  WorldOK(Put(w, c, NewChunk(u, c, palette)), u)
<1> SUFFICES ASSUME u = [p \in Positions |-> IF chunk_of(p) = c /\ section_of(p) \in StartHeights
                                            THEN palette[1] ELSE t[p]]
             PROVE  WorldOK(Put(w, c, [sections |-> [h \in StartHeights |-> SectionOf(u, c, h, palette)],
                                       entities |-> <<>>]), u)
  BY Zenon DEF WithChunk, NewChunk
<1> DEFINE secs == [h \in StartHeights |-> SectionOf(u, c, h, palette)]
           x == [sections |-> secs, entities |-> <<>>]
<1>1. /\ palette \in Seq(States) /\ Len(palette) > 0 /\ PaletteOK(palette, States)
      /\ palette[1] \in ToSet(palette) /\ palette[1] \in States /\ palette[1] # Sign /\ palette[1] # None
      /\ None # Sign
  <2>1. palette \in Seq(States) /\ Len(palette) > 0 /\ IsInjective(palette) /\ palette[1] # Sign
    BY PalettesAssumption
  <2>2. 1 \in DOMAIN palette /\ palette[1] \in States
    BY <2>1
  <2> QED
    BY <2>1, <2>2, NoneAssumption DEF PaletteOK, ToSet, States
<1>2. \A p \in Positions : chunk_of(p) = c => t[p] = None
  BY ReadIsDecoded
<1>3. TruthType(u)
  BY <1>1 DEF TruthType, WorldOK
<1>4. \A p \in Positions : chunk_of(p) # c => u[p] = t[p]
  OBVIOUS
<1>5. \A p \in Positions : chunk_of(p) = c =>
        u[p] = IF section_of(p) \in StartHeights THEN palette[1] ELSE None
  BY <1>2
<1>6. ASSUME NEW h \in StartHeights PROVE SectionOK(SectionOf(u, c, h, palette), u, c, h)
  <2>1. \A p \in Positions : InSection(p, c, h) => u[p] \in ToSet(palette)
    BY <1>1, <1>5 DEF InSection
  <2>2. h \in Heights
    BY PlacesAssumption
  <2> QED
    BY <1>1, <2>1, <2>2, SectionOfLemma
<1>7. x \in ChunkRecords
  <2>1. secs \in [StartHeights -> SectionRecords]
    BY <1>6 DEF SectionOK
  <2>2. StartHeights \in SUBSET Heights
    BY PlacesAssumption
  <2> HIDE DEF secs
  <2>3. secs \in UNION {[H -> SectionRecords] : H \in SUBSET Heights}
    BY <2>1, <2>2
  <2>4. <<>> \in Seq({Sign} \X Positions)
    OBVIOUS
  <2> QED
    BY <2>3, <2>4 DEF ChunkRecords
<1>8. ChunkOK(x, u, c)
  <2>1. x \notin {None, Broken, Refused}
    <3> HIDE DEF x
    <3> QED
      BY <1>7, NoneAssumption
  <2>2. x.sections = secs /\ DOMAIN secs = StartHeights /\ x.entities = <<>>
    OBVIOUS
  <2>3. \A p \in Positions : chunk_of(p) = c => (u[p] = None <=> section_of(p) \notin StartHeights)
    BY <1>1, <1>5
  <2>4. Signs(u, c) = {}
    BY <1>1, <1>5 DEF Signs
  <2>5. ToSet(<<>>) = {}
    BY DEF ToSet
  <2>6. \A h \in StartHeights : SectionOK(secs[h], u, c, h)
    BY <1>6
  <2> HIDE DEF x, secs
  <2> QED
    BY <2>1, <2>2, <2>3, <2>4, <2>5, <2>6 DEF ChunkOK
<1>9. x \in Stored
  BY <1>7 DEF Stored
<1> HIDE DEF x
<1>10. WorldOK(Put(w, c, x), u)
  BY <1>3, <1>4, <1>8, <1>9, WriteChunk DEF SameElsewhere
<1> QED
  BY <1>10 DEF x

\* A chunk is damaged.
LEMMA DamageKeeps ==
  ASSUME NEW w, NEW t, WorldOK(w, t), NEW c \in Chunks, NEW how \in {Broken, Refused}, NEW u,
         u = [p \in Positions |-> IF chunk_of(p) = c THEN None ELSE t[p]]
  PROVE  WorldOK(Put(w, c, how), u)
<1>1. TruthType(u)
  BY DEF TruthType, WorldOK
<1>2. \A p \in Positions : chunk_of(p) # c => u[p] = t[p]
  OBVIOUS
<1>3. ChunkOK(how, u, c) /\ how \in Stored
  BY DEF ChunkOK, Stored
<1> QED
  BY <1>1, <1>2, <1>3, WriteChunk DEF SameElsewhere

\* A palette that grows by what it lacks.
LEMMA GrownPalette ==
  ASSUME NEW before, PaletteOK(before, States), NEW b \in States
  PROVE  /\ PaletteOK(PaletteWith(before, b), States)
         /\ ToSet(before) \subseteq ToSet(PaletteWith(before, b)) /\ b \in ToSet(PaletteWith(before, b))
<1>1. CASE b \in ToSet(before)
  BY <1>1 DEF PaletteWith
<1>2. CASE b \notin ToSet(before)
  <2> DEFINE grown == Append(before, b)
             n == Len(before)
  <2>1. before \in Seq(States) /\ n \in Nat /\ n > 0 /\ IsInjective(before) /\ DOMAIN before = 1 .. n
    BY DEF PaletteOK
  <2>2. /\ grown \in Seq(States) /\ Len(grown) = n + 1 /\ DOMAIN grown = 1 .. n + 1
        /\ grown[n + 1] = b /\ \A i \in 1 .. n : grown[i] = before[i]
    BY <2>1
  <2>3. \A i \in 1 .. n : before[i] # b
    BY <1>2, <2>1 DEF ToSet
  <2> HIDE DEF grown, n
  <2>4. IsInjective(grown)
    <3> SUFFICES ASSUME NEW i \in 1 .. n + 1, NEW j \in 1 .. n + 1, grown[i] = grown[j] PROVE i = j
      BY <2>2 DEF IsInjective
    <3>1. (i \in 1 .. n \/ i = n + 1) /\ (j \in 1 .. n \/ j = n + 1)
      BY <2>1
    <3> QED
      BY <2>1, <2>2, <2>3, <3>1 DEF IsInjective
  <2>5. ToSet(before) \subseteq ToSet(grown) /\ b \in ToSet(grown)
    <3>1. \A i \in 1 .. n : i \in 1 .. n + 1
      BY <2>1
    <3>2. n + 1 \in 1 .. n + 1
      BY <2>1
    <3> QED
      BY <2>1, <2>2, <3>1, <3>2 DEF ToSet
  <2>6. PaletteOK(grown, States)
    BY <2>1, <2>2, <2>4 DEF PaletteOK
  <2> QED
    BY <1>2, <2>5, <2>6 DEF grown, PaletteWith
<1> QED
  BY <1>1, <1>2

\* A palette of one block, and what a palette may hold.
LEMMA OneBlock ==
  ASSUME NEW a \in States
  PROVE  PaletteOK(<<a>>, States)
<1> DEFINE s == <<a>>
<1>1. s \in Seq(States) /\ Len(s) = 1 /\ DOMAIN s = 1 .. 1
  OBVIOUS
<1>2. \A i, j \in 1 .. 1 : i = j
  OBVIOUS
<1> HIDE DEF s
<1>3. IsInjective(s)
  BY <1>1, <1>2 DEF IsInjective
<1>4. PaletteOK(s, States)
  BY <1>1, <1>3 DEF PaletteOK
<1> QED
  BY <1>4 DEF s

LEMMA PaletteHolds ==
  ASSUME NEW palette, NEW S, PaletteOK(palette, S)
  PROVE  ToSet(palette) \subseteq S
<1>1. palette \in Seq(S)
  BY DEF PaletteOK
<1> QED
  BY <1>1 DEF ToSet

\* A block is placed or taken away.
LEMMA PlaceKeeps ==
  ASSUME NEW w, NEW t, WorldOK(w, t), NEW p \in Places, NEW b \in Blocks,
         NEW c, c = chunk_of(p), NEW h, h = section_of(p),
         NEW x, x = ChunkAt(w, c), x \notin {None, Broken, Refused},
         NEW f, f = WithSection(t, c, h),
         NEW before, before = PaletteBefore(x, h),
         NEW palette, palette = PaletteWith(before, b),
         NEW others, others = OthersThan(x, p),
         NEW u, u = [f EXCEPT ![p] = b]
  PROVE  WorldOK(Put(w, c, ChunkWith(x, u, c, h, p, b, palette, others)), u)
<1>w. SUFFICES
      ASSUME f = [q \in Positions |-> IF chunk_of(q) = c /\ section_of(q) = h /\ t[q] = None
                                      THEN Air ELSE t[q]],
             before = (IF h \in DOMAIN x.sections THEN x.sections[h].blocks.palette ELSE <<Air>>),
             palette = (IF b \in ToSet(before) THEN before ELSE Append(before, b)),
             others = {e \in ToSet(x.entities) : e[2] # p}
      PROVE  WorldOK(Put(w, c,
               [sections |-> [k \in DOMAIN x.sections \cup {h} |->
                                IF k = h THEN SectionOf(u, c, h, palette) ELSE x.sections[k]],
                entities |-> SetToSeq(IF b = Sign THEN others \cup {<<Sign, p>>} ELSE others)]), u)
  BY Zenon DEF WithSection, PaletteBefore, PaletteWith, OthersThan, ChunkWith
<1> DEFINE H == DOMAIN x.sections \cup {h}
           secs == [k \in H |-> IF k = h THEN SectionOf(u, c, h, palette) ELSE x.sections[k]]
           E == IF b = Sign THEN others \cup {<<Sign, p>>} ELSE others
           y == [sections |-> secs, entities |-> SetToSeq(E)]
<1>0. p \in Positions /\ c \in Chunks /\ h \in Heights /\ InSection(p, c, h)
  BY PlacesAssumption, PositionsAre DEF InSection
<1>1. Decoded(x, t, c) /\ TruthType(t)
  BY <1>0, ReadIsDecoded DEF WorldOK
<1>2. /\ DOMAIN x.sections \subseteq Heights /\ x.entities \in Seq({Sign} \X Positions)
      /\ \A q \in Positions : chunk_of(q) = c => (t[q] = None <=> section_of(q) \notin DOMAIN x.sections)
      /\ \A k \in DOMAIN x.sections : SectionOK(x.sections[k], t, c, k)
      /\ ToSet(x.entities) = Signs(t, c)
  BY <1>0, <1>1, DecodedIs
<1>3. /\ b \in States /\ Air \in States /\ None \notin States /\ Air # None /\ b # None
      /\ Air # Sign /\ None # Sign
  BY NoneAssumption, PalettesAssumption DEF States
<1>4. TruthType(f) /\ TruthType(u)
  <2>1. TruthType(f)
    BY <1>w, <1>1, <1>3 DEF TruthType
  <2> QED
    BY <1>0, <1>3, <2>1 DEF TruthType
<1>5. u[p] = b /\ \A q \in Positions : q # p => u[q] = f[q]
  BY <1>0, <1>4 DEF TruthType
<1>6. \A q \in Positions : chunk_of(q) # c => u[q] = t[q]
  BY <1>w, <1>0, <1>5 DEF InSection
<1>7. \A q \in Positions : chunk_of(q) = c /\ section_of(q) # h => u[q] = t[q]
  BY <1>w, <1>0, <1>5 DEF InSection
<1>8. \A q \in Positions : InSection(q, c, h) => f[q] = IF t[q] = None THEN Air ELSE t[q]
  BY <1>w DEF InSection
<1>9. PaletteOK(before, States) /\ \A q \in Positions : InSection(q, c, h) => f[q] \in ToSet(before)
  <2>1. CASE h \in DOMAIN x.sections
    <3> DEFINE s == x.sections[h]
    <3>1. SectionOK(s, t, c, h) /\ before = s.blocks.palette
      BY <1>w, <1>2, <2>1
    <3>2. PaletteOK(before, States)
      BY <3>1 DEF SectionOK, ContainerOK
    <3>3. ASSUME NEW q \in Positions, InSection(q, c, h) PROVE f[q] \in ToSet(before)
      <4>1. t[q] # None /\ chunk_of(q) = c /\ section_of(q) = h
        BY <1>2, <2>1, <3>3 DEF InSection
      <4>2. t[q] \in ToSet(before)
        BY <3>1, <4>1, InPalette
      <4> QED
        BY <1>8, <3>3, <4>1, <4>2
    <3> QED
      BY <3>2, <3>3
  <2>2. CASE h \notin DOMAIN x.sections
    <3>1. before = <<Air>> /\ ToSet(before) = {Air}
      BY <1>w, <2>2 DEF ToSet
    <3>2. PaletteOK(before, States)
      BY <1>3, <3>1, OneBlock, Zenon
    <3>3. \A q \in Positions : InSection(q, c, h) => f[q] = Air
      BY <1>2, <1>8, <2>2 DEF InSection
    <3> QED
      BY <3>1, <3>2, <3>3
  <2> QED
    BY <2>1, <2>2
<1>10. PaletteOK(palette, States) /\ ToSet(before) \subseteq ToSet(palette) /\ b \in ToSet(palette)
  BY <1>3, <1>9, GrownPalette
<1>11. \A q \in Positions : InSection(q, c, h) => u[q] \in ToSet(palette)
  BY <1>5, <1>9, <1>10
<1>12. SectionOK(SectionOf(u, c, h, palette), u, c, h)
  BY <1>0, <1>10, <1>11, SectionOfLemma
<1>13. ASSUME NEW k \in H PROVE SectionOK(secs[k], u, c, k)
  <2>1. CASE k = h
    BY <1>12, <2>1
  <2>2. CASE k # h
    <3>1. secs[k] = x.sections[k] /\ k \in Heights /\ SectionOK(x.sections[k], t, c, k)
      BY <1>2, <2>2
    <3>2. \A q \in Positions : InSection(q, c, k) => u[q] = t[q]
      BY <1>7, <2>2 DEF InSection
    <3>3. SectionOK(x.sections[k], u, c, k)
      BY <1>0, <3>1, <3>2, SameSection
    <3> QED
      BY <3>1, <3>3
  <2> QED
    BY <2>1, <2>2
<1>14. E = Signs(u, c)
  <2>1. others = {e \in Signs(t, c) : e[2] # p}
    BY <1>w, <1>2
  <2>2. \A q \in Positions : q # p /\ chunk_of(q) = c => (u[q] = Sign <=> t[q] = Sign)
    BY <1>w, <1>3, <1>5
  <2>3. others = {<<Sign, q>> : q \in {r \in Positions : chunk_of(r) = c /\ u[r] = Sign /\ r # p}}
    <3>1. ASSUME NEW e \in others
          PROVE  \E q \in Positions : e = <<Sign, q>> /\ chunk_of(q) = c /\ u[q] = Sign /\ q # p
      BY <2>1, <2>2, <3>1 DEF Signs
    <3>2. ASSUME NEW q \in Positions, chunk_of(q) = c, u[q] = Sign, q # p PROVE <<Sign, q>> \in others
      BY <2>1, <2>2, <3>2 DEF Signs
    <3>3. others \subseteq {<<Sign, q>> : q \in {r \in Positions : chunk_of(r) = c /\ u[r] = Sign /\ r # p}}
      BY <3>1
    <3>4. {<<Sign, q>> : q \in {r \in Positions : chunk_of(r) = c /\ u[r] = Sign /\ r # p}} \subseteq others
      BY <3>2
    <3> QED
      BY <3>3, <3>4, Zenon
  <2>4. chunk_of(p) = c /\ p \in Positions /\ (u[p] = Sign <=> b = Sign)
    BY <1>0, <1>5 DEF InSection
  <2> QED
    BY <2>3, <2>4 DEF Signs
<1>15. SetToSeq(E) \in Seq({Sign} \X Positions) /\ ToSet(SetToSeq(E)) = E
  <2>1. IsFiniteSet(ToSet(x.entities))
    <3>1. Len(x.entities) \in Nat /\ DOMAIN x.entities = 1 .. Len(x.entities)
      BY <1>2
    <3> QED
      BY <3>1, FewElements
  <2>2. others \in SUBSET ToSet(x.entities)
    BY <1>w
  <2>3. IsFiniteSet(others)
    BY <2>1, <2>2, FS_Subset, Zenon
  <2>4. IsFiniteSet(others \cup {<<Sign, p>>})
    BY <2>3, FS_AddElement, Zenon
  <2>5. IsFiniteSet(E)
    BY <2>3, <2>4
  <2>6. E \subseteq {Sign} \X Positions
    BY <1>14 DEF Signs
  <2> HIDE DEF E
  <2>7. SetToSeq(E) \in Seq(E) /\ ToSet(SetToSeq(E)) = E
    BY <2>5, SetToSeqLists
  <2> QED
    BY <2>6, <2>7
<1> HIDE DEF E
<1>16. y \in ChunkRecords
  <2>1. secs \in [H -> SectionRecords]
    <3>1. \A k \in H : secs[k] \in SectionRecords
      BY <1>13 DEF SectionOK
    <3>2. secs = [k \in H |-> secs[k]]
      OBVIOUS
    <3> HIDE DEF secs
    <3> QED
      BY <3>1, <3>2
  <2>2. H \in SUBSET Heights
    BY <1>0, <1>2
  <2> HIDE DEF secs, H
  <2>3. secs \in UNION {[K -> SectionRecords] : K \in SUBSET Heights}
    BY <2>1, <2>2
  <2> QED
    BY <1>15, <2>3 DEF ChunkRecords
<1>17. ChunkOK(y, u, c)
  <2>1. y \notin {None, Broken, Refused}
    <3> HIDE DEF y
    <3> QED
      BY <1>16, NoneAssumption
  <2>2. y.sections = secs /\ DOMAIN secs = H /\ y.entities = SetToSeq(E)
    OBVIOUS
  <2>3. ASSUME NEW q \in Positions, chunk_of(q) = c PROVE u[q] = None <=> section_of(q) \notin H
    <3>1. CASE section_of(q) = h
      <4>1. u[q] \in ToSet(palette)
        BY <1>11, <2>3, <3>1 DEF InSection
      <4>2. ToSet(palette) \subseteq States
        BY <1>10, PaletteHolds
      <4> QED
        BY <1>3, <3>1, <4>1, <4>2
    <3>2. CASE section_of(q) # h
      BY <1>2, <1>7, <2>3, <3>2
    <3> QED
      BY <3>1, <3>2
  <2> HIDE DEF y, secs, H
  <2> QED
    BY <1>13, <1>14, <1>15, <2>1, <2>2, <2>3 DEF ChunkOK
<1>18. y \in Stored
  BY <1>16 DEF Stored
<1> HIDE DEF y
<1>19. WorldOK(Put(w, c, y), u)
  <2>1. SameElsewhere(u, t, c)
    BY <1>6, Zenon DEF SameElsewhere
  <2> QED
    BY <1>0, <1>4, <1>17, <1>18, <2>1, WriteChunk, Zenon
<1> QED
  BY <1>19 DEF y, E

-----------------------------------------------------------------------------
(* The invariant.                                                          *)

\* Both worlds hold what was put there, in the form the game writes.
BlocksInv == WorldOK(new, truth) /\ WorldOK(old, truthOld) /\ edits \in 0 .. MaxEdits

LEMMA EmptyWorld == WorldOK(NoWorld, Nowhere)
<1>1. WorldType(NoWorld)
  BY DEF WorldType, InPlace, NoWorld, Stored
<1>2. TruthType(Nowhere)
  BY DEF TruthType, Nowhere
<1>3. ASSUME NEW c \in Chunks PROVE ChunkOK(ChunkAt(NoWorld, c), Nowhere, c)
  <2>1. ChunkAt(NoWorld, c) = NoWorld[region(c)][region_index(c)]
    BY ChunkAtIs DEF NoWorld
  <2>2. region(c) \in Regions /\ region_index(c) \in Slots
    BY <1>3, SlotOf DEF Regions
  <2>3. ChunkAt(NoWorld, c) = None
    BY <2>1, <2>2 DEF NoWorld
  <2> QED
    BY <2>3 DEF ChunkOK, Nowhere
<1> QED
  BY <1>1, <1>2, <1>3 DEF WorldOK

LEMMA BlocksStart == Init => BlocksInv
  BY EmptyWorld, SizesAssumption DEF Init, BlocksInv

LEMMA GenerateStep ==
  ASSUME BlocksInv, NEW c \in Chunks, NEW palette \in Palettes, Generate(c, palette)
  PROVE  BlocksInv'
<1>1. /\ WorldOK(new, truth) /\ ChunkAt(new, c) = None
      /\ truth' = WithChunk(truth, c, palette) /\ new' = Put(new, c, NewChunk(truth', c, palette))
  BY Zenon DEF BlocksInv, Generate, WithChunk, NewChunk
<1>2. WorldOK(Put(new, c, NewChunk(truth', c, palette)), truth')
  BY <1>1, GenerateKeeps
<1>3. WorldOK(new', truth')
  BY <1>1, <1>2, Zenon
<1>4. WorldOK(old', truthOld')
  BY Zenon DEF BlocksInv, Generate
<1>5. edits' \in 0 .. MaxEdits
  BY SizesAssumption DEF BlocksInv, Generate
<1> QED
  BY <1>3, <1>4, <1>5 DEF BlocksInv

LEMMA PlaceStep ==
  ASSUME BlocksInv, NEW p \in Places, NEW b \in Blocks, Place(p, b)
  PROVE  BlocksInv'
<1> DEFINE c == chunk_of(p)
           h == section_of(p)
           x == ChunkAt(new, c)
           f == WithSection(truth, c, h)
           before == PaletteBefore(x, h)
           palette == PaletteWith(before, b)
           others == OthersThan(x, p)
           y == ChunkWith(x, truth', c, h, p, b, palette, others)
<1>1. /\ WorldOK(new, truth) /\ x \notin {None, Broken, Refused} /\ truth' = [f EXCEPT ![p] = b]
      /\ new' = Put(new, c, y)
  BY Zenon DEF BlocksInv, Place, WithSection, PaletteBefore, PaletteWith, OthersThan, ChunkWith
<1>2. WorldOK(Put(new, c, y), truth')
  BY <1>1, PlaceKeeps
<1> HIDE DEF y, c, f, x
<1>3. WorldOK(new', truth')
  BY <1>1, <1>2, Zenon
<1>4. WorldOK(old', truthOld')
  BY Zenon DEF BlocksInv, Place
<1>5. edits' \in 0 .. MaxEdits
  <2>1. edits < MaxEdits /\ edits' = edits + 1
    BY Zenon DEF Place
  <2> QED
    BY <2>1, SizesAssumption DEF BlocksInv
<1> QED
  BY <1>3, <1>4, <1>5 DEF BlocksInv

LEMMA DamageStep ==
  ASSUME BlocksInv, NEW c \in Chunks, NEW how \in {Broken, Refused}, Damage(c, how)
  PROVE  BlocksInv'
<1>1. /\ WorldOK(new, truth) /\ new' = Put(new, c, how)
      /\ truth' = [p \in Positions |-> IF chunk_of(p) = c THEN None ELSE truth[p]]
  BY Zenon DEF BlocksInv, Damage
<1>2. WorldOK(Put(new, c, how), truth')
  BY <1>1, DamageKeeps, Zenon
<1>3. WorldOK(new', truth')
  BY <1>1, <1>2, Zenon
<1>4. WorldOK(old', truthOld')
  BY Zenon DEF BlocksInv, Damage
<1>5. edits' \in 0 .. MaxEdits
  BY SizesAssumption DEF BlocksInv, Damage
<1> QED
  BY <1>3, <1>4, <1>5 DEF BlocksInv

LEMMA BlocksNext == BlocksInv /\ [Next]_vars => BlocksInv'
<1> SUFFICES ASSUME BlocksInv, [Next]_vars PROVE BlocksInv'
  OBVIOUS
<1>1. CASE \E c \in Chunks, palette \in Palettes : Generate(c, palette)
  BY <1>1, GenerateStep
<1>2. CASE \E p \in Places, b \in Blocks : Place(p, b)
  BY <1>2, PlaceStep
<1>3. CASE \E c \in Chunks, how \in {Broken, Refused} : Damage(c, how)
  BY <1>3, DamageStep
<1>4. CASE CopyWorld
  BY <1>4, Zenon DEF BlocksInv, CopyWorld
<1>5. CASE UNCHANGED vars
  BY <1>5, Zenon DEF BlocksInv, vars
<1> QED
  BY <1>1, <1>2, <1>3, <1>4, <1>5 DEF Next

\* In both worlds every chunk that can be read holds, in its packed palettes,
\* exactly the blocks that were put there, and its block entities are its signs.
THEOREM WorldsHold == Spec => []BlocksInv
  BY BlocksStart, BlocksNext, PTL DEF Spec

LEMMA TypeHolds == BlocksInv => BlocksTypeOK
<1> SUFFICES ASSUME BlocksInv PROVE BlocksTypeOK
  OBVIOUS
<1>1. /\ WorldOK(new, truth) /\ WorldType(new) /\ WorldType(old) /\ edits \in 0 .. MaxEdits
  BY DEF BlocksInv, WorldOK
<1>2. DOMAIN old = Regions /\ DOMAIN new = Regions
  BY <1>1 DEF WorldType
<1>3. /\ ChunksOf(new) \subseteq Chunks
      /\ \A c \in ReadChunks(new) : c \in Chunks /\ ChunkAt(new, c) \notin {None, Broken, Refused}
  BY <1>1, ChunksOfIs
<1>4. ASSUME NEW c \in ReadChunks(new), NEW h \in DOMAIN ChunkAt(new, c).sections
      PROVE  LET s == ChunkAt(new, c).sections[h].blocks
             IN  /\ IsInjective(s.palette)
                 /\ s.data # None => \A i \in DOMAIN s.data : s.data[i] \in 0 .. Pow2[WordBits] - 1
  <2> DEFINE x == ChunkAt(new, c)
  <2>1. c \in Chunks /\ x \notin {None, Broken, Refused}
    BY <1>3
  <2>2. Decoded(x, truth, c)
    BY <1>1, <2>1, ReadIsDecoded
  <2> HIDE DEF x
  <2>3. \A k \in DOMAIN x.sections : SectionOK(x.sections[k], truth, c, k)
    BY <2>1, <2>2, DecodedIs
  <2>4. SectionOK(x.sections[h], truth, c, h)
    BY <1>4, <2>3 DEF x
  <2>5. PaletteOK(x.sections[h].blocks.palette, States) /\ WordsFit(x.sections[h].blocks.data)
    BY <2>4 DEF SectionOK, ContainerOK
  <2> QED
    BY <2>5, Zenon DEF x, PaletteOK, WordsFit
<1> QED
  BY <1>1, <1>2, <1>3, <1>4, Zenon DEF BlocksTypeOK

\* The type invariant: chunks are where they were generated, words fit their
\* width, palettes have no entry twice.
THEOREM BlocksType == Spec => []BlocksTypeOK
  BY WorldsHold, TypeHolds, PTL

LEMMA InspectHolds == BlocksInv => InspectRight
  BY InspectIs, Zenon DEF BlocksInv, InspectRight

\* inspect (query/lib.rs) says of every position the block, the biome and the
\* sign that are there, whatever the sizes, the palettes and the place, and
\* nothing of one that was not generated or does not decode; and it fails in the
\* regions that have a refused chunk, and nowhere else.
THEOREM InspectIsRight == Spec => []InspectRight
  BY WorldsHold, InspectHolds, PTL

LEMMA ChangesHold == BlocksInv => ChangesExact
<1> SUFFICES ASSUME BlocksInv PROVE ChangesExact
  OBVIOUS
<1>1. WorldOK(old, truthOld) /\ WorldOK(new, truth)
  BY DEF BlocksInv
<1>2. Shared = SharedBy(old, new)
  BY Zenon DEF Shared, SharedBy
<1>3. /\ where_changed(old, new) =
           IF \A r \in SharedBy(old, new) : Parses(old, r) /\ Parses(new, r)
           THEN ChangedIn(truthOld, truth, {p \in Positions : Good(old, p) /\ Good(new, p)})
           ELSE Failed
      /\ \A c \in ReadChunks(old) \cap ReadChunks(new) :
           block_edits_between(ChunkAt(old, c), ChunkAt(new, c), c) =
             ChangedIn(truthOld, truth, {p \in Positions : chunk_of(p) = c})
  BY <1>1, ChangesAre
<1>4. where_changed(old, new) =
        IF \A r \in Shared : Parses(old, r) /\ Parses(new, r)
        THEN ChangedIn(truthOld, truth, {p \in Positions : Good(old, p) /\ Good(new, p)})
        ELSE Failed
  BY <1>2, <1>3, Zenon
<1> QED
  BY <1>3, <1>4, Zenon DEF ChangesExact, ChangedIn

\* where_changed and the block edits of diff name each position that differs in
\* chunks both worlds have, with both blocks, and no other; where_changed fails
\* exactly when a region file that both have does not parse in one.
THEOREM ChangesAreExact == Spec => []ChangesExact
  BY WorldsHold, ChangesHold, PTL

LEMMA SignsFound == BlocksInv => FindsSigns
  BY FindIs, Zenon DEF BlocksInv, FindsSigns

\* find lists each sign that is there, and no other, also beside chunks that do
\* not decode; it fails exactly when a region file does not parse.
THEOREM FindFindsSigns == Spec => []FindsSigns
  BY WorldsHold, SignsFound, PTL

-----------------------------------------------------------------------------
(* The map.                                                                *)

\* What Tops says, of any truth.
SolidIn(t, top) == {p \in Positions : /\ t[p] \notin {None, Air} /\ p[2] <= top
                                      /\ section_of(p) \in MapSections}

Highest(S) == {p \in S : \A q \in S : q[1] = p[1] /\ q[3] = p[3] => q[2] <= p[2]}

SurfaceOf(t, c, top) == {<<p, t[p]>> : p \in {q \in Highest(SolidIn(t, top)) : chunk_of(q) = c}}

\* The highest blocks, looked for height by height.
LEMMA HighestIs ==
  ASSUME NEW S, S \subseteq Int \X Int \X Int, NEW Y, {p[2] : p \in S} \subseteq Y, Y \subseteq Int,
         NEW p \in S
  PROVE  (\A y \in Y : y > p[2] => <<p[1], y, p[3]>> \notin S) <=> p \in Highest(S)
<1>1. ASSUME \A y \in Y : y > p[2] => <<p[1], y, p[3]>> \notin S PROVE p \in Highest(S)
  <2> SUFFICES ASSUME NEW q \in S, q[1] = p[1], q[3] = p[3] PROVE q[2] <= p[2]
    BY DEF Highest
  <2>1. q = <<p[1], q[2], p[3]>> /\ q[2] \in Y /\ q[2] \in Int /\ p[2] \in Int
    OBVIOUS
  <2>2. ~(q[2] > p[2])
    BY <1>1, <2>1
  <2> QED
    BY <2>1, <2>2
<1>2. ASSUME p \in Highest(S), NEW y \in Y, y > p[2], <<p[1], y, p[3]>> \in S PROVE FALSE
  <2> DEFINE q == <<p[1], y, p[3]>>
  <2>1. q \in S /\ q[1] = p[1] /\ q[3] = p[3] /\ q[2] = y /\ y \in Int /\ p[2] \in Int
    BY <1>2
  <2> HIDE DEF q
  <2>2. y <= p[2]
    BY <1>2, <2>1 DEF Highest
  <2> QED
    BY <1>2, <2>1, <2>2
<1> QED
  BY <1>1, <1>2

\* A section is not above its blocks.
LEMMA SectionBelow ==
  ASSUME NEW p \in Int \X Int \X Int
  PROVE  section_of(p) * Side <= p[2] /\ section_of(p) \in Int /\ section_of(p) * Side \in Int
<1>1. p[2] \in Int /\ Side \in Nat \ {0}
  BY SidesAssumption
<1>2. /\ p[2] \div Side \in Int /\ p[2] % Side \in 0 .. Side - 1
      /\ p[2] = (p[2] \div Side) * Side + (p[2] % Side)
  BY <1>1, DivMod
<1>3. (p[2] \div Side) * Side \in Int
  BY <1>1, <1>2, Z3
<1> HIDE DEF section_of
<1>4. (p[2] \div Side) * Side <= p[2]
  BY <1>1, <1>2, <1>3
<1> QED
  BY <1>2, <1>3, <1>4, Zenon DEF section_of

\* What a map sees of a chunk before it keeps the highest.
SolidEntries(x, c, top) ==
  UNION {LET all == section_blocks(x, h)
         IN  {<<block_pos(c, h, i - 1), all[i]>> :
                i \in {j \in DOMAIN all : all[j] # Air /\ block_pos(c, h, j - 1)[2] <= top}} :
         h \in Scanned(x, top)}

LEMMA SolidEntriesAre ==
  ASSUME NEW x, NEW t, NEW c \in Chunks, Decoded(x, t, c), NEW top \in Int
  PROVE  SolidEntries(x, c, top) = {<<p, t[p]>> : p \in {q \in SolidIn(t, top) : chunk_of(q) = c}}
<1> DEFINE pos(h, i) == block_pos(c, h, i - 1)
           Of(h) == LET all == section_blocks(x, h)
                    IN  {<<pos(h, i), all[i]>> :
                           i \in {j \in DOMAIN all : all[j] # Air /\ pos(h, j)[2] <= top}}
           R == {<<p, t[p]>> : p \in {q \in SolidIn(t, top) : chunk_of(q) = c}}
<1>1. SolidEntries(x, c, top) = UNION {Of(h) : h \in Scanned(x, top)}
  BY Zenon DEF SolidEntries
<1>2. /\ DOMAIN x.sections \subseteq Heights
      /\ \A p \in Positions : chunk_of(p) = c => (t[p] = None <=> section_of(p) \notin DOMAIN x.sections)
  BY DecodedIs
<1>3. \A h \in DOMAIN x.sections : section_blocks(x, h) = BlocksIn(t, c, h) /\ section_blocks(x, h) # None
  BY SectionBlocksAre
<1>4. \A h \in Heights, i \in 1 .. Volume : pos(h, i) \in Positions /\ InSection(pos(h, i), c, h)
  BY SectionPos
<1>5. ASSUME NEW h \in DOMAIN x.sections
      PROVE  Of(h) = {<<pos(h, i), t[pos(h, i)]>> :
                        i \in {j \in 1 .. Volume : t[pos(h, j)] # Air /\ pos(h, j)[2] <= top}}
  <2>1. Of(h) = {<<pos(h, i), BlocksIn(t, c, h)[i]>> :
                   i \in {j \in DOMAIN BlocksIn(t, c, h) : BlocksIn(t, c, h)[j] # Air /\ pos(h, j)[2] <= top}}
    BY <1>3, <1>5, Zenon
  <2>2. DOMAIN BlocksIn(t, c, h) = 1 .. Volume /\ \A i \in 1 .. Volume : BlocksIn(t, c, h)[i] = t[pos(h, i)]
    BY DEF BlocksIn
  <2> HIDE DEF pos, Of
  <2> QED
    BY <2>1, <2>2
<1> HIDE DEF pos, Of
<1>6. ASSUME NEW e \in SolidEntries(x, c, top) PROVE e \in R
  <2>1. PICK h \in Scanned(x, top) : e \in Of(h)
    BY <1>1, <1>6
  <2>2. h \in DOMAIN x.sections /\ h \in MapSections /\ h \in Heights
    BY <1>2 DEF Scanned
  <2>3. PICK i \in 1 .. Volume : /\ t[pos(h, i)] # Air /\ pos(h, i)[2] <= top
                                 /\ e = <<pos(h, i), t[pos(h, i)]>>
    BY <1>5, <2>1, <2>2
  <2> DEFINE p == pos(h, i)
  <2>4. p \in Positions /\ chunk_of(p) = c /\ section_of(p) = h
    BY <1>4, <2>2 DEF InSection
  <2>5. t[p] # None
    BY <1>2, <2>2, <2>4
  <2> HIDE DEF p
  <2>6. e = <<p, t[p]>> /\ t[p] # Air /\ p[2] <= top
    BY <2>3 DEF p
  <2> QED
    BY <2>2, <2>4, <2>5, <2>6 DEF SolidIn
<1>7. ASSUME NEW p \in SolidIn(t, top), chunk_of(p) = c PROVE <<p, t[p]>> \in SolidEntries(x, c, top)
  <2> DEFINE h == section_of(p)
             i == block_index(p) + 1
  <2>1. p \in Positions /\ t[p] # None /\ t[p] # Air /\ p[2] <= top /\ h \in MapSections
    BY DEF SolidIn
  <2>2. p \in Int \X Int \X Int
    BY <2>1, PositionsAre
  <2>3. h \in DOMAIN x.sections
    BY <1>2, <1>7, <2>1
  <2>4. i \in 1 .. Volume /\ pos(h, i) = p
    <3>1. block_index(p) \in 0 .. Volume - 1 /\ block_pos(c, h, block_index(p)) = p
      BY <1>7, <2>2, IndexPos
    <3>2. Volume \in Nat
      BY SidesAssumption, Z3 DEF Volume
    <3>3. i \in 1 .. Volume /\ i - 1 = block_index(p)
      BY <3>1, <3>2
    <3> QED
      BY <3>1, <3>3 DEF pos
  <2>5. h * Side <= top
    <3>1. section_of(p) * Side <= p[2] /\ section_of(p) * Side \in Int /\ p[2] \in Int
      BY <2>2, SectionBelow, Zenon
    <3> DEFINE k == section_of(p) * Side
    <3>2. k <= p[2] /\ k \in Int /\ p[2] \in Int
      BY <3>1, <2>2
    <3> HIDE DEF k
    <3>3. k <= top
      BY <2>1, <3>2
    <3> QED
      BY <3>3, Zenon DEF k
  <2> HIDE DEF i, h
  <2>6. h \in Scanned(x, top)
    BY <1>3, <2>1, <2>3, <2>5, Zenon DEF Scanned
  <2>7. <<p, t[p]>> \in Of(h)
    BY <1>5, <2>1, <2>3, <2>4
  <2> QED
    BY <1>1, <2>6, <2>7
<1> QED
  BY <1>6, <1>7

\* surface_of a chunk: its part of the highest blocks of the world.
LEMMA SurfaceIs ==
  ASSUME NEW x, NEW t, NEW c \in Chunks, Decoded(x, t, c), NEW top \in Int
  PROVE  surface_of(x, c, top) = SurfaceOf(t, c, top)
<1> DEFINE S == SolidIn(t, top)
           Sc == {q \in S : chunk_of(q) = c}
           solid == SolidEntries(x, c, top)
           where == {e[1] : e \in solid}
           ys == {p[2] : p \in where}
<1>1. surface_of(x, c, top) =
        {e \in solid : \A y \in ys : y > e[1][2] => <<e[1][1], y, e[1][3]>> \notin where}
  BY Zenon DEF surface_of, SolidEntries
<1>2. solid = {<<p, t[p]>> : p \in Sc}
  BY SolidEntriesAre
<1> HIDE DEF solid
<1>3. where = Sc
  <2>1. ASSUME NEW e \in solid PROVE e[1] \in Sc
    BY <1>2, <2>1
  <2>2. ASSUME NEW p \in Sc PROVE \E e \in solid : e[1] = p
    <3>1. <<p, t[p]>> \in solid /\ <<p, t[p]>>[1] = p
      BY <1>2, <2>2
    <3> QED
      BY <3>1, Zenon
  <2> HIDE DEF Sc
  <2> QED
    BY <2>1, <2>2
<1> HIDE DEF where
<1>4. S \subseteq Positions /\ Positions \subseteq Int \X Int \X Int
  BY PositionsAre DEF SolidIn
<1>5. Sc \subseteq Int \X Int \X Int /\ {p[2] : p \in Sc} \subseteq ys /\ ys \subseteq Int
  BY <1>3, <1>4
<1> HIDE DEF Sc, ys
<1>6. \A p \in Sc : (\A y \in ys : y > p[2] => <<p[1], y, p[3]>> \notin Sc) <=> p \in Highest(Sc)
  BY <1>5, HighestIs
<1>7. Highest(Sc) = {q \in Highest(S) : chunk_of(q) = c}
  <2>1. \A p, q \in S : q[1] = p[1] /\ q[3] = p[3] => chunk_of(q) = chunk_of(p)
    BY DEF chunk_of
  <2> QED
    BY <2>1 DEF Highest, Sc
<1>8. surface_of(x, c, top) = {<<p, t[p]>> : p \in Highest(Sc)}
  <2>1. Highest(Sc) \subseteq Sc
    BY DEF Highest
  <2>2. ASSUME NEW e \in surface_of(x, c, top) PROVE \E p \in Highest(Sc) : e = <<p, t[p]>>
    <3>1. e \in solid /\ \A y \in ys : y > e[1][2] => <<e[1][1], y, e[1][3]>> \notin Sc
      BY <1>1, <1>3, <2>2
    <3>2. PICK p \in Sc : e = <<p, t[p]>>
      BY <1>2, <3>1
    <3>3. e[1] = p
      BY <3>2
    <3> QED
      BY <1>6, <3>1, <3>2, <3>3
  <2>3. ASSUME NEW p \in Highest(Sc) PROVE <<p, t[p]>> \in surface_of(x, c, top)
    <3> DEFINE e == <<p, t[p]>>
    <3>1. e \in solid /\ e[1] = p
      BY <1>2, <2>1
    <3>2. \A y \in ys : y > p[2] => <<p[1], y, p[3]>> \notin Sc
      BY <1>6, <2>1
    <3> HIDE DEF e
    <3>3. e \in surface_of(x, c, top)
      BY <1>1, <1>3, <3>1, <3>2
    <3> QED
      BY <3>3 DEF e
  <2> QED
    BY <2>2, <2>3
<1> QED
  BY <1>7, <1>8, Zenon DEF SurfaceOf

\* Tops are the highest blocks.
LEMMA TopsAre ==
  ASSUME NEW top \in Int
  PROVE  Tops(top) = Highest(SolidIn(truth, top))
<1> DEFINE S == SolidIn(truth, top)
           Y == {p[2] : p \in Positions}
<1>1. Tops(top) = {p \in S : \A y \in Y : y > p[2] => <<p[1], y, p[3]>> \notin S}
  BY Zenon DEF Tops, SolidIn, Levels
<1>2. S \subseteq Positions /\ Positions \subseteq Int \X Int \X Int
  BY PositionsAre DEF SolidIn
<1>3. S \subseteq Int \X Int \X Int /\ {p[2] : p \in S} \subseteq Y /\ Y \subseteq Int
  BY <1>2
<1> HIDE DEF S, Y
<1>4. \A p \in S : (\A y \in Y : y > p[2] => <<p[1], y, p[3]>> \notin S) <=> p \in Highest(S)
  BY <1>3, HighestIs
<1>5. Highest(S) \subseteq S
  BY DEF Highest
<1>6. Tops(top) = Highest(S)
  BY <1>1, <1>4, <1>5
<1> QED
  BY <1>6 DEF S

\* A picture is no wider than it may be, and shows all when it is not cut.
LEMMA WindowFits ==
  ASSUME NEW lo \in Int, NEW hi \in Int, lo <= hi
  PROVE  /\ Window(lo, hi)[1] \in Int /\ Window(lo, hi)[2] \in Int
         /\ Window(lo, hi)[2] - Window(lo, hi)[1] + 1 <= MaxSide
<1>0. MaxSide \in Nat \ {0}
  BY SizesAssumption
<1>1. CASE hi - lo + 1 <= MaxSide
  <2>1. Window(lo, hi) = <<lo, hi>>
    BY <1>1 DEF Window
  <2> QED
    BY <1>1, <2>1
<1>2. CASE ~(hi - lo + 1 <= MaxSide)
  <2> DEFINE m == TruncDiv(lo + hi, 2)
             from == m - MaxSide \div 2
  <2>1. m \in Int /\ MaxSide \div 2 \in Int
    BY <1>0 DEF TruncDiv
  <2>2. Window(lo, hi) = <<from, from + MaxSide - 1>>
    BY <1>2 DEF Window
  <2> HIDE DEF m
  <2>3. from \in Int /\ from + MaxSide - 1 \in Int /\ (from + MaxSide - 1) - from + 1 <= MaxSide
    BY <1>0, <2>1
  <2> HIDE DEF from
  <2> QED
    BY <2>2, <2>3
<1> QED
  BY <1>1, <1>2

\* A picture starts at a chunk between the outermost, or less than its size before.
LEMMA WindowStart ==
  ASSUME NEW lo \in Int, NEW hi \in Int, lo <= hi
  PROVE  \E m \in lo .. hi, n \in 0 .. MaxSide : Window(lo, hi)[1] = m - n
<1>0. MaxSide \in Nat \ {0}
  BY SizesAssumption
<1>1. CASE hi - lo + 1 <= MaxSide
  <2>1. Window(lo, hi)[1] = lo - 0
    BY <1>1 DEF Window
  <2>2. lo \in lo .. hi /\ 0 \in 0 .. MaxSide
    BY <1>0
  <2> QED
    BY <2>1, <2>2
<1>2. CASE ~(hi - lo + 1 <= MaxSide)
  <2> DEFINE m == TruncDiv(lo + hi, 2)
             n == MaxSide \div 2
  <2>1. Window(lo, hi)[1] = m - n
    BY <1>2 DEF Window
  <2>2. m \in lo .. hi
    <3>1. CASE lo + hi >= 0
      <4>1. m = (lo + hi) \div 2
        BY <3>1 DEF TruncDiv
      <4> HIDE DEF m
      <4> QED
        BY <4>1
    <3>2. CASE ~(lo + hi >= 0)
      <4>1. m = -((-(lo + hi)) \div 2)
        BY <3>2 DEF TruncDiv
      <4> HIDE DEF m
      <4> QED
        BY <4>1
    <3> QED
      BY <3>1, <3>2
  <2>3. n \in 0 .. MaxSide
    BY <1>0
  <2> HIDE DEF m, n
  <2> QED
    BY <2>1, <2>2, <2>3
<1> QED
  BY <1>1, <1>2

\* An i32 holds a number of its range.
LEMMA WrapIs ==
  ASSUME NEW n \in Int, -CoordLimit < n, n < CoordLimit
  PROVE  Wrap(n) = n
<1> DEFINE r == n + CoordLimit
           d == 2 * CoordLimit
<1>1. CoordLimit \in Nat
  BY BorderAssumption
<1>2. d \in Nat \ {0} /\ r \in 0 .. d - 1
  BY <1>1
<1>3. Wrap(n) = (r % d) - CoordLimit
  BY Zenon DEF Wrap
<1>4. r - CoordLimit = n
  BY <1>1
<1> HIDE DEF r, d
<1>5. (0 * d + r) % d = r
  BY <1>2, DivUnique
<1>6. 0 * d + r = r
  BY <1>2
<1> QED
  BY <1>3, <1>4, <1>5, <1>6

\* Inside the border the first pixel of a chunk is where it belongs.
LEMMA BaseIs ==
  ASSUME NEW x \in Int, NEW lo \in Int,
         -CoordLimit < (x - lo) * Side, (x - lo) * Side < CoordLimit
  PROVE  Base(x, lo) = (x - lo) * Side
<1> DEFINE d == x - lo
<1>1. CoordLimit \in Nat /\ Side \in Nat /\ Side >= 1 /\ d \in Int
  BY BorderAssumption, SidesAssumption
<1>2. -CoordLimit < d * Side /\ d * Side < CoordLimit
  OBVIOUS
<1>3. Base(x, lo) = Wrap(Wrap(d) * Side)
  BY Zenon DEF Base
<1> HIDE DEF d
<1>4. d * Side \in Int /\ (d >= 0 => d * Side >= d) /\ (d <= 0 => d * Side <= d)
  BY <1>1, Z3
<1>5. -CoordLimit < d /\ d < CoordLimit
  BY <1>1, <1>2, <1>4
<1>6. Wrap(d) = d /\ Wrap(d * Side) = d * Side
  BY <1>1, <1>2, <1>4, <1>5, WrapIs
<1>7. Base(x, lo) = d * Side
  BY <1>3, <1>6, Zenon
<1> QED
  BY <1>7 DEF d

\* What is shown along one side, then.
LEMMA FitsIs ==
  ASSUME NEW x \in Int, NEW window, window[1] \in Int, window[2] \in Int,
         Base(x, window[1]) = (x - window[1]) * Side
  PROVE  Fits(x, window) <=> x \in window[1] .. window[2]
<1> DEFINE lo == window[1]
           hi == window[2]
           a == (x - lo) * Side
           b == (hi - x) * Side
<1>1. Side \in Nat \ {0} /\ lo \in Int /\ hi \in Int
  BY SidesAssumption
<1>2. Fits(x, window) <=> 0 <= a /\ a + Side <= (hi - lo + 1) * Side
  BY Zenon DEF Fits
<1> HIDE DEF lo, hi
<1>3. a \in Int /\ b \in Int /\ (hi - lo + 1) * Side = a + b + Side
  BY <1>1, Z3
<1>4. (0 <= a <=> lo <= x) /\ (0 <= b <=> x <= hi)
  BY <1>1, Z3
<1> HIDE DEF a, b
<1>5. Fits(x, window) <=> lo <= x /\ x <= hi
  BY <1>1, <1>2, <1>3, <1>4
<1> QED
  BY <1>1, <1>5 DEF lo, hi

\* A coordinate inside the border.
Inside(x) == x \in Int /\ -CoordLimit < 4 * Side * x /\ 4 * Side * x < CoordLimit

\* Inside the border no picture overflows.
LEMMA NoOverflow ==
  ASSUME NEW lo, Inside(lo), NEW hi, Inside(hi), lo <= hi, NEW x, Inside(x)
  PROVE  Base(x, Window(lo, hi)[1]) = (x - Window(lo, hi)[1]) * Side
<1>1. PICK m \in lo .. hi, n \in 0 .. MaxSide : Window(lo, hi)[1] = m - n
  BY WindowStart DEF Inside
<1>2. /\ CoordLimit \in Nat /\ Side \in Nat \ {0} /\ MaxSide \in Nat
      /\ lo \in Int /\ hi \in Int /\ x \in Int /\ m \in Int /\ n \in Int
      /\ lo <= m /\ m <= hi /\ 0 <= n /\ n <= MaxSide
  BY <1>1, BorderAssumption, SidesAssumption, SizesAssumption DEF Inside
<1> DEFINE K == 4 * Side
<1>3. K \in Nat \ {0} /\ K * MaxSide <= CoordLimit
  BY <1>2, BorderAssumption
<1>4. /\ -CoordLimit < K * lo /\ K * hi < CoordLimit
      /\ -CoordLimit < K * x /\ K * x < CoordLimit
  BY DEF Inside
<1>5. (x - (m - n)) * K = 4 * ((x - (m - n)) * Side)
  BY <1>2, Z3
<1> HIDE DEF K
<1>6. /\ K * lo \in Int /\ K * hi \in Int /\ K * m \in Int /\ K * n \in Int /\ K * x \in Int
      /\ K * MaxSide \in Int
  BY <1>2, <1>3, Z3
<1>7. K * lo <= K * m /\ K * m <= K * hi
  BY <1>2, <1>3, Z3
<1>8. 0 <= K * n /\ K * n <= K * MaxSide
  BY <1>2, <1>3, Z3
<1>9. (x - (m - n)) * K = K * x - K * m + K * n
  BY <1>2, <1>3, Z3
<1>10. (x - (m - n)) * K < 4 * CoordLimit /\ -(4 * CoordLimit) < (x - (m - n)) * K
  BY <1>2, <1>3, <1>4, <1>6, <1>7, <1>8, <1>9
<1> DEFINE a == (x - (m - n)) * Side
<1>11. a \in Int
  BY <1>2, Z3
<1>12. 4 * a < 4 * CoordLimit /\ -(4 * CoordLimit) < 4 * a
  BY <1>5, <1>10
<1> HIDE DEF a
<1>13. a < CoordLimit /\ -CoordLimit < a
  BY <1>2, <1>11, <1>12
<1>14. Base(x, m - n) = (x - (m - n)) * Side
  BY <1>2, <1>13, BaseIs DEF a
<1> QED
  BY <1>1, <1>14

\* The number of chunks in a picture.
LEMMA FrameSize ==
  ASSUME NEW a \in Int, NEW b \in Int, NEW c \in Int, NEW d \in Int, NEW n \in Nat,
         b - a + 1 <= n, d - c + 1 <= n
  PROVE  Cardinality((a .. b) \X (c .. d)) <= n * n
<1>1. /\ IsFiniteSet(a .. b) /\ Cardinality(a .. b) = IF a > b THEN 0 ELSE b - a + 1
      /\ IsFiniteSet(c .. d) /\ Cardinality(c .. d) = IF c > d THEN 0 ELSE d - c + 1
  BY FS_Interval
<1> DEFINE i == Cardinality(a .. b)
           j == Cardinality(c .. d)
<1>2. i \in 0 .. n /\ j \in 0 .. n
  BY <1>1
<1>3. Cardinality((a .. b) \X (c .. d)) = i * j
  BY <1>1, FS_Product, Zenon
<1> HIDE DEF i, j
<1>4. i * j <= n * n
  <2>1. i * j <= i * n
    <3>1. i * (n - j) >= 0 /\ i * (n - j) = i * n - i * j /\ i * n \in Int /\ i * j \in Int
      BY <1>2, Z3
    <3> QED
      BY <3>1, Z3
  <2>2. i * n <= n * n
    <3>1. (n - i) * n >= 0 /\ (n - i) * n = n * n - i * n /\ i * n \in Int /\ n * n \in Int
      BY <1>2, Z3
    <3> QED
      BY <3>1, Z3
  <2>3. i * n \in Int /\ n * n \in Int /\ i * j \in Int
    BY <1>2, Z3
  <2> QED
    BY <2>1, <2>2, <2>3, Z3
<1> QED
  BY <1>3, <1>4, Zenon

\* The chunks that a map can draw, and what a picture of some is made of.
Drawable(w, top) == {c \in ReadChunks(w) : Scanned(ChunkAt(w, c), top) # {}}

Image(w, top, D) == UNION {surface_of(ChunkAt(w, c), c, top) : c \in D}

Pixels(I) == {<<e[1][1], e[1][3], e[2], Shade(I, e)>> : e \in I}

SeenIn(T, D) == {p \in T : chunk_of(p) \in D}

EntriesOf(t, V) == {<<p, t[p]>> : p \in V}

LEMMA LookedIs ==
  ASSUME NEW w, NEW top, NEW looked \in Looked(w, top)
  PROVE  looked[1] \subseteq Drawable(w, top) /\ (looked[1] # Drawable(w, top) => looked[2])
<1> DEFINE shown == Drawable(w, top)
<1>1. Looked(w, top) =
        IF Cardinality(shown) < MaxChunks THEN {<<shown, FALSE>>}
        ELSE {r \in kSubset(MaxChunks, shown) \X BOOLEAN :
                (r[1] # shown => r[2]) /\ (r[1] = ChunksOf(w) => ~r[2])}
  BY Zenon DEF Looked, Drawable
<1>2. \A s \in kSubset(MaxChunks, shown) : s \subseteq shown
  BY DEF kSubset
<1> HIDE DEF shown
<1>3. CASE Cardinality(shown) < MaxChunks
  <2>1. looked = <<shown, FALSE>>
    BY <1>1, <1>3
  <2> QED
    BY <2>1 DEF shown
<1>4. CASE ~(Cardinality(shown) < MaxChunks)
  <2>1. looked \in kSubset(MaxChunks, shown) \X BOOLEAN /\ (looked[1] # shown => looked[2])
    BY <1>1, <1>4
  <2>2. looked[1] \in kSubset(MaxChunks, shown)
    BY <2>1
  <2> QED
    BY <1>2, <2>1, <2>2 DEF shown
<1> QED
  BY <1>3, <1>4

LEMMA ImageIs ==
  ASSUME NEW w, NEW t, WorldOK(w, t), NEW top \in Int, NEW D, D \subseteq ReadChunks(w)
  PROVE  Image(w, top, D) = EntriesOf(t, SeenIn(Highest(SolidIn(t, top)), D))
<1>1. \A c \in D : c \in Chunks /\ ChunkAt(w, c) \notin {None, Broken, Refused}
  BY ChunksOfIs DEF WorldOK
<1>2. \A c \in D : surface_of(ChunkAt(w, c), c, top) = SurfaceOf(t, c, top)
  BY <1>1, ReadIsDecoded, SurfaceIs
<1>3. Image(w, top, D) = UNION {SurfaceOf(t, c, top) : c \in D}
  BY <1>2 DEF Image
<1> QED
  BY <1>3 DEF SurfaceOf, EntriesOf, SeenIn

\* A chunk that has a block to show is drawn, if its region file parses.
LEMMA TopsDrawable ==
  ASSUME NEW w, NEW t, WorldOK(w, t), NEW top \in Int, NEW p \in SolidIn(t, top),
         Parses(w, region(chunk_of(p)))
  PROVE  chunk_of(p) \in Drawable(w, top)
<1> DEFINE c == chunk_of(p)
           x == ChunkAt(w, c)
<1>1. p \in Positions /\ c \in Chunks /\ t[p] # None
  BY PositionsAre DEF SolidIn
<1>2. x \notin {None, Broken, Refused} /\ Decoded(x, t, c)
  BY <1>1, ReadIsDecoded
<1>3. c \in ReadChunks(w)
  BY <1>1, <1>2, ChunksOfIs DEF WorldOK
<1>4. <<p, t[p]>> \in SolidEntries(x, c, top)
  <2> HIDE DEF x
  <2>1. SolidEntries(x, c, top) = {<<q, t[q]>> : q \in {r \in SolidIn(t, top) : chunk_of(r) = c}}
    BY <1>1, <1>2, SolidEntriesAre
  <2> QED
    BY <2>1
<1>5. Scanned(x, top) # {}
  <2> HIDE DEF x
  <2> SUFFICES ASSUME Scanned(x, top) = {} PROVE FALSE
    OBVIOUS
  <2> QED
    BY <1>4 DEF SolidEntries
<1> QED
  BY <1>3, <1>5 DEF Drawable

\* How a column compares with the one to the north, among some blocks.
Slope(V, p) ==
  LET north == {y \in Levels : <<p[1], y, p[3] - 1>> \in V}
  IN  IF \E y \in north : y < p[2] THEN 1
      ELSE IF \E y \in north : y > p[2] THEN -1
      ELSE 0

\* The shade of a column is the slope to the north.
LEMMA ShadeIs ==
  ASSUME NEW t, NEW V, V \subseteq Positions, NEW p \in V
  PROVE  Shade(EntriesOf(t, V), <<p, t[p]>>) = Slope(V, p)
<1> DEFINE I == EntriesOf(t, V)
           e == <<p, t[p]>>
           north == {f \in I : f[1][1] = e[1][1] /\ f[1][3] = e[1][3] - 1}
           heights == {y \in Levels : <<p[1], y, p[3] - 1>> \in V}
<1>0. e[1] = p
  OBVIOUS
<1>1. Shade(I, e) = IF \E f \in north : f[1][2] < e[1][2] THEN 1
                    ELSE IF \E f \in north : f[1][2] > e[1][2] THEN -1 ELSE 0
  BY Zenon DEF Shade
<1>2. Slope(V, p) = IF \E y \in heights : y < p[2] THEN 1
                    ELSE IF \E y \in heights : y > p[2] THEN -1 ELSE 0
  BY Zenon DEF Slope
<1>3. Positions \subseteq Int \X Int \X Int
  BY PositionsAre
<1>4. ASSUME NEW f \in north PROVE f[1][2] \in heights
  <2>1. f \in I /\ f[1][1] = p[1] /\ f[1][3] = p[3] - 1
    BY <1>0, <1>4
  <2>2. PICK q \in V : f = <<q, t[q]>>
    BY <2>1 DEF EntriesOf
  <2>3. f[1] = q /\ q \in Positions
    BY <2>2
  <2>4. q \in Int \X Int \X Int /\ q[1] = p[1] /\ q[3] = p[3] - 1
    BY <1>3, <2>1, <2>3
  <2>5. q = <<p[1], q[2], p[3] - 1>> /\ q[2] \in Levels
    BY <2>3, <2>4 DEF Levels
  <2> QED
    BY <2>3, <2>5
<1>5. ASSUME NEW y \in heights PROVE \E f \in north : f[1][2] = y
  <2> DEFINE q == <<p[1], y, p[3] - 1>>
             f == <<q, t[q]>>
  <2>1. q \in V /\ q[1] = p[1] /\ q[2] = y /\ q[3] = p[3] - 1
    BY <1>5
  <2> HIDE DEF q
  <2>2. f \in I /\ f[1] = q
    BY <2>1 DEF EntriesOf
  <2> HIDE DEF f, I, e
  <2>3. f \in north
    BY <1>0, <2>1, <2>2
  <2> QED
    BY <2>1, <2>2, <2>3
<1> HIDE DEF I, e, north, heights
<1>6. (\E f \in north : f[1][2] < p[2]) <=> \E y \in heights : y < p[2]
  BY <1>4, <1>5
<1>7. (\E f \in north : f[1][2] > p[2]) <=> \E y \in heights : y > p[2]
  BY <1>4, <1>5
<1>8. Shade(I, e) = Slope(V, p)
  BY <1>0, <1>1, <1>2, <1>6, <1>7
<1> QED
  BY <1>8 DEF I, e

\* The pixels are the highest blocks of the chunks in the picture, with their
\* slopes.
LEMMA PixelsAre ==
  ASSUME NEW w, NEW t, WorldOK(w, t), NEW top \in Int, NEW D, D \subseteq ReadChunks(w),
         NEW V, V = SeenIn(Highest(SolidIn(t, top)), D)
  PROVE  Pixels(Image(w, top, D)) = {<<p[1], p[3], t[p], Slope(V, p)>> : p \in V}
<1> DEFINE I == Image(w, top, D)
           P == Pixels(I)
<1>1. I = EntriesOf(t, V)
  BY ImageIs
<1>2. V \subseteq Positions
  BY DEF SeenIn, Highest, SolidIn
<1>3. \A p \in V : Shade(I, <<p, t[p]>>) = Slope(V, p)
  BY <1>1, <1>2, ShadeIs
<1> HIDE DEF I
<1>4. P = {<<e[1][1], e[1][3], e[2], Shade(I, e)>> : e \in I}
  BY Zenon DEF Pixels
<1> HIDE DEF P
<1>5. ASSUME NEW e \in I PROVE \E p \in V : e = <<p, t[p]>> /\ e[1] = p /\ e[2] = t[p]
  BY <1>1, <1>5 DEF EntriesOf
<1>6. ASSUME NEW p \in V PROVE <<p, t[p]>> \in I /\ <<p, t[p]>>[1] = p /\ <<p, t[p]>>[2] = t[p]
  BY <1>1, <1>6 DEF EntriesOf
<1>7. ASSUME NEW z \in P PROVE \E p \in V : z = <<p[1], p[3], t[p], Slope(V, p)>>
  <2>1. PICK e \in I : z = <<e[1][1], e[1][3], e[2], Shade(I, e)>>
    BY <1>4, <1>7
  <2>2. PICK p \in V : e = <<p, t[p]>> /\ e[1] = p /\ e[2] = t[p]
    BY <1>5
  <2> QED
    BY <1>3, <2>1, <2>2
<1>8. ASSUME NEW p \in V PROVE <<p[1], p[3], t[p], Slope(V, p)>> \in P
  <2> DEFINE e == <<p, t[p]>>
  <2>1. e \in I /\ e[1] = p /\ e[2] = t[p] /\ Shade(I, e) = Slope(V, p)
    BY <1>3, <1>6
  <2> HIDE DEF e
  <2> QED
    BY <1>4, <2>1
<1>9. P = {<<p[1], p[3], t[p], Slope(V, p)>> : p \in V}
  BY <1>7, <1>8
<1> QED
  BY <1>9 DEF P, I

\* The frame, which is within its size, when a picture is not cut, and which
\* chunks are placed in it.
LEMMA FrameIs ==
  ASSUME NEW L, L \subseteq Chunks, L # {},
         NEW wx, wx = Window(Min({c[1] : c \in L}), Max({c[1] : c \in L})),
         NEW wz, wz = Window(Min({c[2] : c \in L}), Max({c[2] : c \in L}))
  PROVE  /\ Cardinality((wx[1] .. wx[2]) \X (wz[1] .. wz[2])) <= MaxSide * MaxSide
         /\ <<Min({c[1] : c \in L}), Max({c[1] : c \in L})>> = wx
            /\ <<Min({c[2] : c \in L}), Max({c[2] : c \in L})>> = wz
            => L \subseteq (wx[1] .. wx[2]) \X (wz[1] .. wz[2])
         /\ wx[1] \in Int /\ wz[1] \in Int
         /\ \A c \in L : /\ Base(c[1], wx[1]) = (c[1] - wx[1]) * Side
                         /\ Base(c[2], wz[1]) = (c[2] - wz[1]) * Side
                         /\ Fits(c[1], wx) /\ Fits(c[2], wz) <=>
                              c \in (wx[1] .. wx[2]) \X (wz[1] .. wz[2])
<1> DEFINE xs == {c[1] : c \in L}
           zs == {c[2] : c \in L}
<1>0. MaxSide \in Nat /\ Chunks \subseteq Int \X Int
  BY SizesAssumption, PlacesAssumption
<1>1. IsFiniteSet(L)
  BY PlacesAssumption, FS_Subset
<1>2. IsFiniteSet(xs) /\ IsFiniteSet(zs)
  <2>1. [c \in L |-> c[1]] \in Surjection(L, xs) /\ [c \in L |-> c[2]] \in Surjection(L, zs)
    BY DEF Surjection
  <2> HIDE DEF xs, zs
  <2> QED
    BY <1>1, <2>1, FS_Surjection, Zenon
<1>3. xs \in SUBSET Int /\ zs \in SUBSET Int /\ xs # {} /\ zs # {} /\ L \subseteq xs \X zs
  BY <1>0
<1> HIDE DEF xs, zs
<1>4. /\ Max(xs) \in xs /\ Min(xs) \in xs /\ \A y \in xs : Max(xs) >= y /\ Min(xs) <= y
      /\ Max(zs) \in zs /\ Min(zs) \in zs /\ \A y \in zs : Max(zs) >= y /\ Min(zs) <= y
  BY <1>2, <1>3, Extremes
<1>5. Max(xs) \in Int /\ Min(xs) \in Int /\ Max(zs) \in Int /\ Min(zs) \in Int
  BY <1>3, <1>4
<1>6. Min(xs) <= Max(xs) /\ Min(zs) <= Max(zs)
  BY <1>4
<1>7. wx = Window(Min(xs), Max(xs)) /\ wz = Window(Min(zs), Max(zs))
  BY DEF xs, zs
<1>8. /\ wx[1] \in Int /\ wx[2] \in Int /\ wx[2] - wx[1] + 1 <= MaxSide
      /\ wz[1] \in Int /\ wz[2] \in Int /\ wz[2] - wz[1] + 1 <= MaxSide
  BY <1>5, <1>6, <1>7, WindowFits
<1>9. Cardinality((wx[1] .. wx[2]) \X (wz[1] .. wz[2])) <= MaxSide * MaxSide
  BY <1>0, <1>8, FrameSize, Zenon
<1>10. ASSUME <<Min(xs), Max(xs)>> = wx, <<Min(zs), Max(zs)>> = wz
       PROVE  L \subseteq (wx[1] .. wx[2]) \X (wz[1] .. wz[2])
  <2>1. wx[1] = Min(xs) /\ wx[2] = Max(xs) /\ wz[1] = Min(zs) /\ wz[2] = Max(zs)
    BY <1>10
  <2>2. ASSUME NEW x \in xs PROVE x \in Min(xs) .. Max(xs)
    BY <1>3, <1>4, <1>5
  <2>3. ASSUME NEW z \in zs PROVE z \in Min(zs) .. Max(zs)
    BY <1>3, <1>4, <1>5
  <2> QED
    BY <1>3, <2>1, <2>2, <2>3
<1>11. (\A x \in xs : Inside(x)) /\ (\A z \in zs : Inside(z))
  <2>1. \A c \in Chunks : \A k \in 1 .. 2 : Inside(c[k])
    BY <1>0, BorderAssumption DEF Inside
  <2>2. 1 \in 1 .. 2 /\ 2 \in 1 .. 2
    OBVIOUS
  <2>3. \A c \in L : Inside(c[1]) /\ Inside(c[2])
    BY <2>1, <2>2, Zenon
  <2> QED
    BY <2>3 DEF xs, zs
<1>12. ASSUME NEW c \in L
       PROVE  /\ Base(c[1], wx[1]) = (c[1] - wx[1]) * Side
              /\ Base(c[2], wz[1]) = (c[2] - wz[1]) * Side
              /\ Fits(c[1], wx) /\ Fits(c[2], wz) <=>
                   c \in (wx[1] .. wx[2]) \X (wz[1] .. wz[2])
  <2>1. c[1] \in xs /\ c[2] \in zs /\ c[1] \in Int /\ c[2] \in Int /\ c = <<c[1], c[2]>>
    <3>1. c \in Int \X Int
      BY <1>0
    <3> QED
      BY <3>1 DEF xs, zs
  <2>2. Inside(c[1]) /\ Inside(Min(xs)) /\ Inside(Max(xs))
    BY <1>4, <1>11, <2>1
  <2>3. Inside(c[2]) /\ Inside(Min(zs)) /\ Inside(Max(zs))
    BY <1>4, <1>11, <2>1
  <2>4. Base(c[1], wx[1]) = (c[1] - wx[1]) * Side
    BY <1>6, <1>7, <2>2, NoOverflow, Zenon
  <2>5. Base(c[2], wz[1]) = (c[2] - wz[1]) * Side
    BY <1>6, <1>7, <2>3, NoOverflow, Zenon
  <2>6. Fits(c[1], wx) <=> c[1] \in wx[1] .. wx[2]
    BY <1>8, <2>1, <2>4, FitsIs, Zenon
  <2>7. Fits(c[2], wz) <=> c[2] \in wz[1] .. wz[2]
    BY <1>8, <2>1, <2>5, FitsIs, Zenon
  <2>8. c \in (wx[1] .. wx[2]) \X (wz[1] .. wz[2]) <=>
          c[1] \in wx[1] .. wx[2] /\ c[2] \in wz[1] .. wz[2]
    BY <2>1
  <2> QED
    BY <2>4, <2>5, <2>6, <2>7, <2>8, Zenon
<1> QED
  BY <1>8, <1>9, <1>10, <1>12, Zenon DEF xs, zs

\* What is painted: each block at the place of its chunk in the picture.
Painted(w, top, L, wx, wz) ==
  UNION {{<<<<wx[1] * Side + Base(c[1], wx[1]) + (e[1][1] - c[1] * Side), e[1][2],
              wz[1] * Side + Base(c[2], wz[1]) + (e[1][3] - c[2] * Side)>>, e[2]>> :
            e \in surface_of(ChunkAt(w, c), c, top)} :
         c \in {d \in L : Fits(d[1], wx) /\ Fits(d[2], wz)}}

\* A chunk is painted where it belongs, and if it is in the frame.
AtPlace(c, wx, wz, F) ==
  /\ Base(c[1], wx[1]) = (c[1] - wx[1]) * Side
  /\ Base(c[2], wz[1]) = (c[2] - wz[1]) * Side
  /\ Fits(c[1], wx) /\ Fits(c[2], wz) <=> c \in F

\* A place in a picture where nothing overflows.
LEMMA PixelPlace ==
  ASSUME NEW lo \in Int, NEW x \in Int, NEW a \in Int, Base(x, lo) = (x - lo) * Side
  PROVE  lo * Side + Base(x, lo) + (a - x * Side) = a
<1>1. Side \in Nat
  BY SidesAssumption
<1> QED
  BY <1>1, Z3

\* Every block is painted at its own place.
LEMMA PaintedIs ==
  ASSUME NEW w, NEW t, WorldOK(w, t), NEW top \in Int, NEW L, L \subseteq ReadChunks(w),
         NEW wx, NEW wz, wx[1] \in Int, wz[1] \in Int, NEW F,
         \A c \in L : AtPlace(c, wx, wz, F)
  PROVE  Painted(w, top, L, wx, wz) = Image(w, top, L \cap F)
<1> DEFINE Sf(c) == surface_of(ChunkAt(w, c), c, top)
           at(c, p) == <<wx[1] * Side + Base(c[1], wx[1]) + (p[1] - c[1] * Side), p[2],
                         wz[1] * Side + Base(c[2], wz[1]) + (p[3] - c[2] * Side)>>
           Moved(c) == {<<at(c, e[1]), e[2]>> : e \in Sf(c)}
<1>0. \A c \in L : /\ Base(c[1], wx[1]) = (c[1] - wx[1]) * Side
                   /\ Base(c[2], wz[1]) = (c[2] - wz[1]) * Side
                   /\ Fits(c[1], wx) /\ Fits(c[2], wz) <=> c \in F
  BY Zenon DEF AtPlace
<1>1. {d \in L : Fits(d[1], wx) /\ Fits(d[2], wz)} = L \cap F
  BY <1>0
<1>2. ASSUME NEW c \in L PROVE Moved(c) = Sf(c)
  <2>1. c \in Chunks /\ ChunkAt(w, c) \notin {None, Broken, Refused}
    BY ChunksOfIs DEF WorldOK
  <2>2. Sf(c) = SurfaceOf(t, c, top)
    BY <2>1, ReadIsDecoded, SurfaceIs
  <2>3. c[1] \in Int /\ c[2] \in Int
    BY <2>1, PlacesAssumption
  <2>4. ASSUME NEW p \in Int \X Int \X Int PROVE at(c, p) = p
    <3>1. /\ wx[1] * Side + Base(c[1], wx[1]) + (p[1] - c[1] * Side) = p[1]
          /\ wz[1] * Side + Base(c[2], wz[1]) + (p[3] - c[2] * Side) = p[3]
      BY <1>0, <2>3, PixelPlace
    <3>2. p = <<p[1], p[2], p[3]>>
      OBVIOUS
    <3> QED
      BY <3>1, <3>2, Zenon
  <2> HIDE DEF at, Sf
  <2>5. ASSUME NEW e \in Sf(c) PROVE <<at(c, e[1]), e[2]>> = e
    <3>1. PICK p \in Positions : e = <<p, t[p]>>
      BY <2>2, <2>5 DEF SurfaceOf, Highest, SolidIn
    <3>2. p \in Int \X Int \X Int
      BY PositionsAre
    <3>3. at(c, p) = p
      BY <2>4, <3>2
    <3>4. e[1] = p /\ e[2] = t[p]
      BY <3>1
    <3> QED
      BY <3>1, <3>3, <3>4, Zenon
  <2> QED
    BY <2>5
<1>3. Painted(w, top, L, wx, wz) = UNION {Moved(c) : c \in L \cap F}
  BY <1>1, Zenon DEF Painted
<1>4. Image(w, top, L \cap F) = UNION {Sf(c) : c \in L \cap F}
  BY Zenon DEF Image
<1> HIDE DEF Moved, Sf
<1> QED
  BY <1>2, <1>3, <1>4

\* What MapRight says of one picture.
PictureRight(m, w, T, L, t) ==
  LET V == SeenIn(T, L \cap m.frame)
  IN  /\ m.pixels = {<<p[1], p[3], t[p], Slope(V, p)>> : p \in V}
      /\ Cardinality(m.frame) <= MaxSide * MaxSide
      /\ ~m.truncated => V = {p \in T : Parses(w, region(chunk_of(p)))}

LEMMA MapHolds == BlocksInv => MapRight
<1> SUFFICES ASSUME BlocksInv, NEW top \in ScanTops, NEW looked \in Looked(new, top), looked[1] # {}
             PROVE  PictureRight(render_map(new, top, looked), new, Tops(top), looked[1], truth)
  BY Zenon DEF MapRight, PictureRight, Slope, SeenIn
<1> DEFINE L == looked[1]
           xs == {c[1] : c \in L}
           zs == {c[2] : c \in L}
           wx == Window(Min(xs), Max(xs))
           wz == Window(Min(zs), Max(zs))
           F == (wx[1] .. wx[2]) \X (wz[1] .. wz[2])
           D == L \cap F
           P == Pixels(Painted(new, top, L, wx, wz))
           T == Tops(top)
           V == SeenIn(T, D)
           cut == looked[2] \/ <<Min(xs), Max(xs)>> # wx \/ <<Min(zs), Max(zs)>> # wz
           m == render_map(new, top, looked)
<1>1. m = [frame |-> F, pixels |-> P, truncated |-> cut]
  BY Zenon DEF render_map, Pixels, Painted
<1>2. m.frame = F /\ m.pixels = P /\ m.truncated = cut
  <2> HIDE DEF F, P, cut, m
  <2> QED
    BY <1>1
<1>3. WorldOK(new, truth) /\ top \in Int
  BY SizesAssumption DEF BlocksInv
<1>4. L \subseteq Drawable(new, top) /\ (L # Drawable(new, top) => looked[2])
  BY LookedIs
<1>5. /\ L \subseteq ReadChunks(new) /\ L \subseteq Chunks
      /\ \A c \in L : Parses(new, region(c))
  BY <1>3, <1>4, ChunksOfIs DEF Drawable, WorldOK
<1>6. /\ Cardinality(F) <= MaxSide * MaxSide
      /\ <<Min(xs), Max(xs)>> = wx /\ <<Min(zs), Max(zs)>> = wz => L \subseteq F
      /\ wx[1] \in Int /\ wz[1] \in Int
      /\ \A c \in L : /\ Base(c[1], wx[1]) = (c[1] - wx[1]) * Side
                      /\ Base(c[2], wz[1]) = (c[2] - wz[1]) * Side
                      /\ Fits(c[1], wx) /\ Fits(c[2], wz) <=> c \in F
  BY <1>5, FrameIs, Zenon
<1>7. T = Highest(SolidIn(truth, top))
  BY <1>3, TopsAre
<1>8. D \subseteq ReadChunks(new)
  BY <1>5
<1>9. P = Pixels(Image(new, top, D))
  <2>0. \A c \in L : AtPlace(c, wx, wz, F)
    BY <1>6, Zenon DEF AtPlace
  <2> HIDE DEF F, wx, wz, L
  <2>1. Painted(new, top, L, wx, wz) = Image(new, top, L \cap F)
    <3>1. WorldOK(new, truth)
      BY <1>3
    <3>2. top \in Int
      BY <1>3
    <3>3. L \subseteq ReadChunks(new)
      BY <1>5
    <3>4. wx[1] \in Int
      BY <1>6, Zenon
    <3>5. wz[1] \in Int
      BY <1>6, Zenon
    <3> HIDE DEF D, P, T, V, cut, m
    <3> QED
      BY <2>0, <3>1, <3>2, <3>3, <3>4, <3>5, PaintedIs
  <2> QED
    BY <2>1, Zenon
<1> HIDE DEF T, F, m, P
<1>10. P = {<<p[1], p[3], truth[p], Slope(V, p)>> : p \in V}
  <2>1. V = SeenIn(Highest(SolidIn(truth, top)), D)
    BY <1>7
  <2> HIDE DEF D, V
  <2> QED
    BY <1>3, <1>8, <1>9, <2>1, PixelsAre
<1>11. ~cut => V = {p \in T : Parses(new, region(chunk_of(p)))}
  <2>1. \A p \in V : p \in T /\ Parses(new, region(chunk_of(p)))
    BY <1>5 DEF SeenIn
  <2>2. ASSUME ~cut, NEW p \in T, Parses(new, region(chunk_of(p))) PROVE chunk_of(p) \in D
    <3>1. ~looked[2] /\ <<Min(xs), Max(xs)>> = wx /\ <<Min(zs), Max(zs)>> = wz
      BY <2>2
    <3>2. L = Drawable(new, top) /\ L \subseteq F
      BY <1>4, <1>6, <3>1
    <3>3. chunk_of(p) \in Drawable(new, top)
      BY <1>3, <1>7, <2>2, TopsDrawable DEF Highest
    <3> QED
      BY <3>2, <3>3
  <2> HIDE DEF cut, D
  <2> QED
    BY <2>1, <2>2 DEF SeenIn
<1>12. SeenIn(T, L \cap m.frame) = V
  BY <1>2, Zenon
<1> HIDE DEF V, cut, L
<1>13. PictureRight(m, new, T, L, truth)
  BY <1>2, <1>6, <1>10, <1>11, <1>12, Zenon DEF PictureRight
<1> QED
  BY <1>13, Zenon DEF m, T, L

\* A map (render.rs) is right for every world inside the border, whichever chunks
\* its limits let it look at: every pixel is the top block of its column, lighter
\* or darker by the slope to the north, the picture is within its size, and one
\* that does not say it is cut shows every column there is, but for those of a
\* region file that does not parse.
THEOREM MapIsRight == Spec => []MapRight
  BY WorldsHold, MapHolds, PTL

=============================================================================
