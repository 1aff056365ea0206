------------------------------ MODULE MCPatch ------------------------------
(***************************************************************************)
(* Patch.tla for TLC: every pair of small .dat trees, with lists that have *)
(* identities, have none or repeat one; and every pair of small worlds.    *)
(***************************************************************************)
EXTENDS Patch

CONSTANTS s1, s2          \* chunk slots

NameOrder  == <<"uuid", "id", "n", "x", "l", "x.n">>
SpelledAs  == [k \in ToSet(NameOrder) |-> IF k = "x.n" THEN <<Key("x"), Key("n")>> ELSE <<Key(k)>>]
Identities == <<<<"uuid", "ints">>, <<"id", "string">>>>
Defaults   == [string |-> "", int |-> 0, compound |-> <<>>, double |-> 0]

Num(i)  == <<"int", i>>
Text(x)  == <<"string", x>>
Root(x, l) ==
  Compound([k \in {n \in {"x", "l"} : (n = "x" => x # None) /\ (n = "l" => l # None)} |->
              IF k = "x" THEN x ELSE l])

Mob(id, n)     == Compound([id |-> Text(id), n |-> Num(n)])
Named(u, n)    == Compound([uuid |-> <<"ints", u>>, id |-> Text("cow"), n |-> Num(n)])

Lists ==
  {None} \cup {List(l) : l \in
    { <<>>, <<Num(1)>>, <<Num(1), Num(2)>>, <<Num(2), Num(2), Num(1)>>, <<Text("a"), Text("b")>>,
      <<Mob("cow", 1)>>, <<Mob("cow", 2), Mob("pig", 1)>>, <<Mob("pig", 1), Mob("cow", 1)>>,
      <<Mob("cow", 1), Mob("cow", 2)>>, <<Named(1, 1), Named(2, 1)>>, <<Named(2, 2)>> }}

Scalars == {None, Num(1), <<"double", NaN>>, Compound([n |-> Num(1)])}

Trees == {Root(x, l) : x \in Scalars, l \in Lists}

\* A name with a dot in it, beside the entry it would be read as.
Dotted == {Compound(("x" :> Compound([n |-> Num(1)])) @@ ("x.n" :> Num(i))) : i \in {1, 2}}

Plain(v)   == <<"inline", Root(v, None)>>
World(r, m, d, o) ==
  [f \in Files |-> CASE f = Region -> r [] f = s1 -> m [] f = Dat -> d [] f = Other -> o
                     [] OTHER -> None]
Chunked(x, y) == RegionBytes([s \in Slots |-> IF s = s1 THEN x ELSE y])

Still(d) == World(Chunked(Plain(Num(1)), None), None, d, None)

TreePairs ==
  {<<Still(NbtBytes("gzip", t)), Still(NbtBytes("zlib", u))>> :
     t \in Trees \cup Dotted, u \in {v \in Trees \cup Dotted : v[2] # <<>>}}

\* Pairs that differ in a list only.
ListPairs ==
  {<<Still(NbtBytes("gzip", Root(None, l))), Still(NbtBytes("gzip", Root(None, m)))>> :
     l, m \in Lists}

Big    == Root(Text("big"), None)
Bigger == Root(Text("bigger"), None)

\* Worlds with every file in several states.
SmallWorlds ==
  {World(r, None, d, o) :
     r \in {None, Chunked(Plain(Num(1)), None), Chunked(Plain(Num(2)), Plain(Num(1)))},
     d \in {None, NbtBytes("zlib", Root(Num(1), None)), NbtBytes("gzip", Root(Num(2), None)),
            RawBytes("d1")},
     o \in {None, RawBytes("d1"), RawBytes("d2")}}

\* Worlds with spilled chunks, alone and beside others, whole, changed, missing
\* or broken, and with a chunk in the region that is broken.
Far == <<"external">>
OddWorlds ==
  { World(Chunked(x, y), m, None, None) :
      x \in {Far}, y \in {None, Plain(Num(1)), Plain(Num(2))},
      m \in {ChunkBytes(Big), ChunkBytes(Bigger), None, RawBytes("d1")} }
  \cup { World(Chunked(x, Plain(Num(1))), None, None, None) :
           x \in {None, Plain(Num(1)), <<"inline", Broken>>} }
  \cup { World(Chunked(<<"inline", Broken>>, None), None, None, None) }

WorldPairs == (SmallWorlds \X SmallWorlds) \cup (OddWorlds \X OddWorlds)
                \cup (OddWorlds \X {w \in SmallWorlds : w[Dat] = None /\ w[Other] = None})
                \cup ({w \in SmallWorlds : w[Dat] = None /\ w[Other] = None} \X OddWorlds)

AllPairs == TreePairs \cup WorldPairs

Third == { World(Chunked(Plain(Num(3)), Plain(Num(1))), None,
                 NbtBytes("gzip", Root(Num(3), List(<<Mob("pig", 1), Mob("cow", 1)>>))), RawBytes("d2")),
           World(None, None, RawBytes("d3"), None) }

\* Pairs of which two files differ and one does not; pairs with spilled chunks.
Spilled(c, n) == World(Chunked(Far, Plain(Num(n))), ChunkBytes(c), None, None)

KilledPairs ==
  {p \in WorldPairs :
     \/ /\ p \in SmallWorlds \X SmallWorlds
        /\ p[1][Dat] # None /\ p[2][Dat] # None /\ p[1][Region] # None
        /\ Cardinality({f \in Files : p[1][f] # p[2][f]}) = 2
     \/ p = <<World(Chunked(Plain(Num(1)), Plain(Num(1))), None, None, None), Spilled(Big, 1)>>
     \/ p \in {<<Spilled(Big, 1), Spilled(Big, 2)>>, <<Spilled(Big, 1), Spilled(Bigger, 1)>>}}

SpilledSet == {Big, Bigger}

=============================================================================
