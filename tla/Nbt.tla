-------------------------------- MODULE Nbt --------------------------------
(***************************************************************************)
(* NBT trees: the comparison walk (diff/comparer.rs), the path language    *)
(* (nbt/path.rs), list identity (nbt/identity.rs), patch operations        *)
(* (patch/op_sink.rs, apply_op of patch/apply.rs) and what writing a tree  *)
(* does to its lists (nbt/conv.rs).                                        *)
(*                                                                         *)
(* A value is <<tag, content>>: a compound holds a function from names to  *)
(* values, a list a sequence, anything else an atom.  The type-tagged JSON *)
(* of a patch (nbt/json.rs) is this pair.  A path is a sequence of steps;  *)
(* as text, a name that holds a dot or a bracket reads back as other       *)
(* steps, and the empty name as none: Spelled[k] is what name k reads as.  *)
(***************************************************************************)
EXTENDS Integers, Sequences, SequencesExt

CONSTANTS
  Names,       \* the names of compound entries, in the order they are walked
  Spelled,     \* Spelled[k]: the steps that name k is read back as
  IdFields,    \* <<name, tag>>: the fields that identify a list element, best first
  Default,     \* Default[tag]: what a list element of the wrong type becomes
  NaN,         \* an atom that is not equal to itself
  None

RECURSIVE HasNaN(_), compare(_, _, _), set(_, _, _), remove(_, _), written(_),
          Canon(_), get(_, _)

Compound(f) == <<"compound", f>>
List(s)     == <<"list", s>>

Children(v) == CASE v[1] = "compound" -> {v[2][k] : k \in DOMAIN v[2]}
                 [] v[1] = "list" -> ToSet(v[2])
                 [] OTHER -> {}

HasNaN(v) == v[2] = NaN \/ \E c \in Children(v) : HasNaN(c)

\* PartialEq of NbtValue and of Option<NbtValue>.
Eq(a, b) == a = b /\ (a = None \/ ~HasNaN(a))

-----------------------------------------------------------------------------
(* Identity of list elements.                                              *)

\* identity_key: the first identifying field of the right type.
identity_key(v) ==
  LET hit == SelectInSeq(IdFields, LAMBDA f : /\ v[1] = "compound"
                                              /\ f[1] \in DOMAIN v[2]
                                              /\ v[2][f[1]][1] = f[2])
  IN  IF hit = 0 THEN None ELSE <<IdFields[hit][1], v[2][IdFields[hit][1]][2]>>

\* list_keys: every element has a key and no two have the same.
Keyed(l) ==
  /\ l # <<>>
  /\ \A i \in DOMAIN l : identity_key(l[i]) # None
  /\ \A i, j \in DOMAIN l : identity_key(l[i]) = identity_key(l[j]) => i = j

\* The position of the element with this key, 0 if there is none.
Find(l, id) == SelectInSeq(l, LAMBDA v : identity_key(v) = id)

-----------------------------------------------------------------------------
(* Paths.                                                                  *)

Key(k)    == <<"key", k>>
Index(i)  == <<"index", i>>
Ident(id) == <<"ident", id>>

\* The position a step leads to in a list, 0 if none; a list starts at index 0.
Position(l, seg) == CASE seg[1] = "index" /\ seg[2] < Len(l) -> seg[2] + 1
                      [] seg[1] = "ident" -> Find(l, seg[2])
                      [] OTHER -> 0

\* step
step(v, seg) ==
  CASE v[1] = "compound" /\ seg[1] = "key" /\ seg[2] \in DOMAIN v[2] -> v[2][seg[2]]
    [] v[1] = "list" /\ seg[1] # "key" /\ Position(v[2], seg) > 0 -> v[2][Position(v[2], seg)]
    [] OTHER -> None

\* NbtPath::get
get(v, path) ==
  IF path = <<>> \/ v = None THEN v ELSE get(step(v, path[1]), Tail(path))

\* v with the child that a step leads to replaced.
Replaced(v, seg, child) ==
  IF v[1] = "compound" THEN Compound([v[2] EXCEPT ![seg[2]] = child])
  ELSE List(ReplaceAt(v[2], Position(v[2], seg), child))

WithKey(f, k, x) == [n \in DOMAIN f \cup {k} |-> IF n = k THEN x ELSE f[n]]

\* Mutant: a list is not appended to.
SetLastNoAppend(v, seg, x) ==
  CASE v[1] = "compound" /\ seg[1] = "key" -> Compound(WithKey(v[2], seg[2], x))
    [] v[1] = "list" /\ seg[1] # "key" /\ Position(v[2], seg) > 0 -> Replaced(v, seg, x)
    [] OTHER -> v

\* The last step of NbtPath::set: insert or replace a name, replace an element
\* or append one by index; an unknown identity is no place to write to.
SetLast(v, seg, x) ==
  CASE v[1] = "compound" /\ seg[1] = "key" -> Compound(WithKey(v[2], seg[2], x))
    [] v[1] = "list" /\ seg = Index(Len(v[2])) -> List(Append(v[2], x))
    [] v[1] = "list" /\ seg[1] # "key" /\ Position(v[2], seg) > 0 -> Replaced(v, seg, x)
    [] OTHER -> v

\* NbtPath::set; its answer, whether it found the place, is not looked at.
set(v, path, x) ==
  IF Len(path) = 1 THEN SetLast(v, path[1], x)
  ELSE LET child == step(v, path[1])
       IN  IF child = None THEN v ELSE Replaced(v, path[1], set(child, Tail(path), x))

RemoveLast(v, seg) ==
  CASE v[1] = "compound" /\ seg[1] = "key" ->
         Compound([n \in DOMAIN v[2] \ {seg[2]} |-> v[2][n]])
    [] v[1] = "list" /\ seg[1] # "key" /\ Position(v[2], seg) > 0 ->
         List(RemoveAt(v[2], Position(v[2], seg)))
    [] OTHER -> v

\* NbtPath::remove
remove(v, path) ==
  IF Len(path) = 1 THEN RemoveLast(v, path[1])
  ELSE LET child == step(v, path[1])
       IN  IF child = None THEN v ELSE Replaced(v, path[1], remove(child, Tail(path)))

-----------------------------------------------------------------------------
(* The comparison walk: the operations that turn a into b.                 *)

\* PatchOpSink: one operation per reported difference.
Op(path, a, b) == [path |-> path, base |-> a, value |-> b]

\* compare_compound, below path.
CompareCompound(path, f, g) ==
  LET at(k)   == path \o Spelled[k]
      kept    == SelectSeq(Names, LAMBDA k : k \in DOMAIN f)
      added   == SelectSeq(Names, LAMBDA k : k \in DOMAIN g \ DOMAIN f)
      ofKept(k) == IF k \in DOMAIN g THEN compare(at(k), f[k], g[k])
                   ELSE <<Op(at(k), f[k], None)>>
  IN  FlattenSeq([i \in DOMAIN kept |-> ofKept(kept[i])])
      \o [i \in DOMAIN added |-> Op(at(added[i]), None, g[added[i]])]

\* compare_keyed
CompareKeyed(path, l, m) ==
  LET at(v)   == Append(path, Ident(identity_key(v)))
      ofOld(v) == LET j == Find(m, identity_key(v))
                  IN  IF j > 0 THEN compare(at(v), v, m[j]) ELSE <<Op(at(v), v, None)>>
      added   == SelectSeq(m, LAMBDA v : Find(l, identity_key(v)) = 0)
  IN  FlattenSeq([i \in DOMAIN l |-> ofOld(l[i])])
      \o [i \in DOMAIN added |-> Op(at(added[i]), None, added[i])]

\* compare_list without identities: by index, then the tail of the longer one.
CompareIndexed(path, l, m) ==
  LET at(i)   == Append(path, Index(i - 1))
      common  == IF Len(l) < Len(m) THEN Len(l) ELSE Len(m)
  IN  FlattenSeq([i \in 1 .. common |-> compare(at(i), l[i], m[i])])
      \o [i \in 1 .. Len(l) - common |-> Op(at(common + i), l[common + i], None)]
      \o [i \in 1 .. Len(m) - common |-> Op(at(common + i), None, m[common + i])]

compare(path, a, b) ==
  IF a[1] # b[1] THEN <<Op(path, a, b)>>
  ELSE CASE a[1] = "compound" -> CompareCompound(path, a[2], b[2])
         [] a[1] = "list" -> IF Keyed(a[2]) /\ Keyed(b[2])
                             THEN CompareKeyed(path, a[2], b[2])
                             ELSE CompareIndexed(path, a[2], b[2])
         [] OTHER -> IF Eq(a, b) THEN <<>> ELSE <<Op(path, a, b)>>

\* walk, with either sink: node_ops of the patch, compare of the display.
node_ops(a, b) == compare(<<>>, a, b)

-----------------------------------------------------------------------------
(* Applying operations.                                                    *)

\* apply_op, to a slot that holds a root or None: [slot, clean].  An operation
\* whose path reads as no step at all is about the whole slot.
apply_op(r, op, reverse, force) ==
  LET from  == IF reverse THEN op.value ELSE op.base
      to    == IF reverse THEN op.base ELSE op.value
      fits  == Eq(get(r.slot, op.path), from) \/ force
      moved == CASE op.path = <<>> -> to
                 [] op.path # <<>> /\ to = None -> remove(r.slot, op.path)
                 [] OTHER -> set(r.slot, op.path, to)
  IN  IF op.path # <<>> /\ r.slot = None THEN [r EXCEPT !.clean = @ /\ force]
      ELSE IF fits THEN [r EXCEPT !.slot = moved]
      ELSE [r EXCEPT !.clean = FALSE]

ApplyAll(slot, ops, reverse, force) ==
  FoldLeft(LAMBDA r, op : apply_op(r, op, reverse, force), [slot |-> slot, clean |-> TRUE], ops)

\* to_value, to_list: a list is written with the type of its first element,
\* and an element of another type as the default of that type.
written(v) ==
  CASE v[1] = "compound" -> Compound([k \in DOMAIN v[2] |-> written(v[2][k])])
    [] v[1] = "list" -> List([i \in DOMAIN v[2] |->
                          IF v[2][i][1] = v[2][1][1] THEN written(v[2][i])
                          ELSE <<v[2][1][1], Default[v[2][1][1]]>>])
    [] OTHER -> v

-----------------------------------------------------------------------------
(* Reference definitions, for the properties.                              *)

\* A tree without the order of the lists whose elements have identities.
Canon(v) ==
  CASE v[1] = "compound" -> Compound([k \in DOMAIN v[2] |-> Canon(v[2][k])])
    [] v[1] = "list" /\ Keyed(v[2]) ->
         <<"keyed", {<<identity_key(x), Canon(x)>> : x \in ToSet(v[2])}>>
    [] v[1] = "list" /\ ~Keyed(v[2]) -> List([i \in DOMAIN v[2] |-> Canon(v[2][i])])
    [] OTHER -> v

=============================================================================
