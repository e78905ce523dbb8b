------------------------------ MODULE YamlFile ------------------------------
(***************************************************************************)
(* The flattening of a YAML file into the nodes that LoadFromYaml goes     *)
(* through (config.h:20-32, 342-361).                                      *)
(***************************************************************************)
EXTENDS LexicalCast

CONSTANT ValidPart  \* texts of lower-case letters, digits and underscores

(* A name is the list of its parts between dots, so the empty name is one  *)
(* empty part.  Names are put together as strings: a dot in a name of the  *)
(* file and one between two names are the same.                            *)
Nameless == <<"">>

Join(prefix, name) == IF prefix = Nameless THEN name ELSE prefix \o name

(* ListAllMember: the nodes of a file, a map before its members, each with *)
(* its path.  A member whose path has another character is left out with   *)
(* all below it.                                                           *)

RECURSIVE ListAllMember(_, _)
ListAllMember(prefix, node) ==
  IF ~(Range(prefix) \subseteq ValidPart) THEN <<>>
  ELSE <<[key |-> prefix, text |-> node]>>
         \o IF ~IsMap(node) THEN <<>>
            ELSE FlattenSeq([i \in DOMAIN node.pairs |->
                   ListAllMember(Join(prefix, node.pairs[i].key),
                                 node.pairs[i].value)])

(* What LoadFromYaml goes through: every node with a path, with its scalar *)
(* or the text it is written as.                                           *)
AllNodes(root) ==
  SelectSeq(ListAllMember(Nameless, root), LAMBDA e : e.key # Nameless)
=============================================================================
