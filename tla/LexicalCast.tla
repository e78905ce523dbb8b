---------------------------- MODULE LexicalCast ----------------------------
(***************************************************************************)
(* The conversions between YAML texts and values (config.h:34-238).  For a *)
(* type built from others, the templates convert the elements one by one;  *)
(* here a conversion takes the converted elements as argument.             *)
(*                                                                         *)
(* yaml-cpp is external.  A text is represented by the node it parses to,  *)
(* and writing a node gives that text back, but for null: two texts parse  *)
(* to it, "~", which is how it is written, and the empty text.  A node     *)
(* that is not there is written as the empty text.  Scalars are taken from *)
(* those that are written without quotes.                                  *)
(*                                                                         *)
(* string -> unordered_set does not compile when it is used (config.h:159  *)
(* inserts into a vector); nothing uses it.                                *)
(***************************************************************************)
EXTENDS Naturals, SequencesExt

CONSTANT Thrown  \* an exception instead of a value

-----------------------------------------------------------------------------
(* yaml-cpp.                                                               *)

Scalar(s)  == [scalar |-> s]
List(xs)   == [items |-> xs]
Pair(k, x) == [key |-> k, value |-> x]
Map(ps)    == [pairs |-> ps]
Null       == [null |-> "~"]
Empty      == [empty |-> ""]

IsScalar(x) == "scalar" \in DOMAIN x
IsList(x)   == "items" \in DOMAIN x
IsMap(x)    == "pairs" \in DOMAIN x

Load(text) == IF text = Empty THEN Null ELSE text

Size(x) == IF IsList(x) THEN Len(x.items) ELSE IF IsMap(x) THEN Len(x.pairs) ELSE 0

(* node[i] with a number, and node[name]. *)
At(x, i) == IF IsList(x) THEN x.items[i] ELSE Empty

HasKey(x, k) == \E i \in DOMAIN x.pairs : x.pairs[i].key = k
Get(x, k) == x.pairs[CHOOSE i \in DOMAIN x.pairs :
                       /\ x.pairs[i].key = k
                       /\ \A j \in 1..(i - 1) : x.pairs[j].key # k].value

-----------------------------------------------------------------------------
(* boost::lexical_cast between texts and numbers.                          *)

Numeral == <<"1", "2", "3">>

IntFrom(text) ==
  IF IsScalar(text) /\ Contains(Numeral, text.scalar)
    THEN CHOOSE i \in DOMAIN Numeral : Numeral[i] = text.scalar
    ELSE Thrown

IntTo(v) == Scalar(Numeral[v])

(* The texts of the elements of a container.  Every element is written     *)
(* into a stream that is empty again; the mutant leaves the elements       *)
(* before it there.                                                        *)
ElementsUpTo(x, i) == IF i = 1 THEN At(x, 1) ELSE Scalar("several")
Element(x, i)      == At(x, i)

Elements(text) ==
  LET node == Load(text) IN [i \in 1..Size(node) |-> Element(node, i)]

(* vector and list, from the converted elements and to their texts.  A     *)
(* node nothing was pushed to is written as the empty text.                *)
VectorFrom(vec) == IF Contains(vec, Thrown) THEN Thrown ELSE vec

VectorTo(texts) ==
  IF texts = <<>> THEN Empty ELSE List([i \in DOMAIN texts |-> Load(texts[i])])

(* set: the elements in their order, of several equal ones the first.      *)
(* "rank" numbers each element by that order, up to "last".                *)
SetFrom(vec, rank, last) ==
  IF Contains(vec, Thrown) THEN Thrown
  ELSE FlattenSeq([r \in 1..last |->
         IF Contains(rank, r) THEN <<vec[SelectInSeq(rank, LAMBDA q : q = r)]>> ELSE <<>>])

SetTo(texts) == VectorTo(texts)

(* map and unordered_map with string keys: of several members of one name  *)
(* the first.  The elements of a list have no key, and asking for it       *)
(* throws.                                                                 *)
Members(text) ==
  LET node == Load(text)
  IN  IF IsMap(node) THEN node.pairs ELSE [i \in 1..Size(node) |-> Thrown]

MapFrom(members, vec) ==
  IF Contains(members, Thrown) \/ Contains(vec, Thrown) THEN Thrown
  ELSE [k \in {members[i].key : i \in DOMAIN members} |->
          vec[SelectInSeq(members, LAMBDA m : m.key = k)]]

MapTo(keys, texts) == Map([i \in DOMAIN keys |-> Pair(keys[i], Load(texts[i]))])
=============================================================================
