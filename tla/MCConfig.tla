------------------------------ MODULE MCConfig ------------------------------
(* Values for the TLC runs of Config: variables of numbers and of          *)
(* containers, and two files.  The section "s" is itself a variable, and   *)
(* the first file has "s.p" twice.                                         *)
EXTENDS Config, YamlFile
CONSTANTS t1, t2

IntsFrom(text) ==
  LET xs == Elements(text) IN VectorFrom([i \in DOMAIN xs |-> IntFrom(xs[i])])
IntsTo(v) == VectorTo([i \in DOMAIN v |-> IntTo(v[i])])

MCFrom(T, text) ==
  LET xs == Elements(text)
      ms == Members(text)
      es == [i \in DOMAIN xs |-> IntFrom(xs[i])]
  IN  CASE T = "int"   -> IntFrom(text)
        [] T = "lists" -> VectorFrom([i \in DOMAIN xs |-> IntsFrom(xs[i])])
        [] T = "set"   -> SetFrom(es, es, Len(Numeral))
        [] T = "map"   -> MapFrom(ms, [i \in DOMAIN ms |-> IntsFrom(ms[i].value)])

MCTo(T, v) ==
  LET ks == SetToSeq(DOMAIN v)
  IN  CASE T = "int"   -> IntTo(v)
        [] T = "lists" -> VectorTo([i \in DOMAIN v |-> IntsTo(v[i])])
        [] T = "set"   -> SetTo([i \in DOMAIN v |-> IntTo(v[i])])
        [] T = "map"   -> MapTo(ks, [i \in DOMAIN ks |-> IntsTo(v[ks[i]])])

MCType == {"int", "lists", "set", "map"}
MCDefault ==
  [T \in MCType |-> CASE T = "int"   -> {1}
                     [] T = "lists" -> {<<>>, << <<>>, <<2>> >>}
                     [] T = "set"   -> {<<1, 3>>}
                     [] T = "map"   -> {[k \in {} |-> <<>>], [k \in {<<"p">>} |-> <<3>>]}]

MCKey == {<<"s">>, <<"s", "p">>, <<"s", "q">>}

(* s: {p: 2, q: [3, 1, 3], "Bad name": [1]} with "s.p": 3 behind it, and    *)
(* s: {q: [[1], ~], p: [[2]]}.                                             *)
MCFiles ==
  LET Ints(xs) == List([i \in DOMAIN xs |-> Scalar(xs[i])])
      Member(name, x) == Pair(<<name>>, x)
      Section(ps) == Member("s", Map(ps))
  IN  { AllNodes(Map(<<Section(<<Member("p", Scalar("2")),
                                Member("q", Ints(<<"3", "1", "3">>)),
                                Member("Bad name", Ints(<<"1">>))>>),
                       Pair(<<"s", "p">>, Scalar("3"))>>)),
        AllNodes(Map(<<Section(<<Member("q", List(<<Ints(<<"1">>), Null>>)),
                                Member("p", List(<<Ints(<<"2">>)>>))>>)>>)) }
=============================================================================
