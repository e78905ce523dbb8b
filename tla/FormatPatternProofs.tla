------------------------ MODULE FormatPatternProofs ------------------------
(***************************************************************************)
(* Machine-checked proofs about FormatPattern, for patterns of any length  *)
(* over any characters and any table of format items: the loop goes        *)
(* forward and stays inside the pattern, nothing of the pattern up to its  *)
(* last item is lost, and a formatter that reports no error has no         *)
(* replacement text.                                                       *)
(***************************************************************************)
EXTENDS FormatPattern, SequenceLemmas

(* The items init makes.                                                   *)
Items ==
  {x \in [kind : {"literal", "format", "parse_error"}, str : Seq(Chars), fmt : Seq(Chars),
          braces : BOOLEAN] :
     /\ x.kind = "literal" => x.str # <<>>
     /\ x.kind # "literal" => x.str \in Seq(Letters)}

ItemsType ==
  /\ pattern \in Seq(Chars)
  /\ i \in 1..(Len(pattern) + 1)
  /\ nstr \in Seq(Chars)
  /\ vec \in Seq(Items)
  /\ error \in BOOLEAN /\ ready \in BOOLEAN

(* An unclosed brace is reported at once, an unknown name by the look-up.  *)
Reported ==
  /\ HasUnclosed => error
  /\ ready /\ ~error => \A k \in DOMAIN vec : vec[k].kind = "format" => vec[k].str \in Known

(* The items and the pending literal are what has been read.               *)
AllRead == ~HasUnclosed => Parsed \o nstr = SubSeq(pattern, 1, i - 1)

Inv == ItemsType /\ Reported /\ AllRead

(* A pending % is the first of two, and the second is still to be read: at *)
(* the end of the pattern none is pending.                                 *)
PercentPends ==
  /\ ~HasUnclosed /\ (\E k \in DOMAIN nstr : nstr[k] = "%") =>
       i <= Len(pattern) /\ pattern[i] = "%"
  /\ ready => i > Len(pattern)

-----------------------------------------------------------------------------
(* Searching.                                                              *)

(* There is a first position outside S, and everything before it is in S.  *)
LEMMA FirstIs ==
  ASSUME pattern \in Seq(Chars), NEW k \in 1..(Len(pattern) + 1), NEW S
  PROVE  /\ FirstOutside(k, S) \in k..(Len(pattern) + 1)
         /\ FirstOutside(k, S) <= Len(pattern) => pattern[FirstOutside(k, S)] \notin S
         /\ \A m \in k..(FirstOutside(k, S) - 1) : pattern[m] \in S
  <1> DEFINE N == Len(pattern) + 1
             T == {n \in k..N : n <= Len(pattern) => pattern[n] \notin S}
             Good(n) == /\ n <= Len(pattern) => pattern[n] \notin S
                        /\ \A m \in k..(n - 1) : pattern[m] \in S
  <1>1. Len(pattern) \in Nat
    OBVIOUS
  <1>2. T \subseteq Nat /\ N \in T
    BY <1>1
  <1>3. PICK n \in T : \A m \in T : n <= m
    <2> HIDE DEF T
    <2> QED
      BY <1>2, Least
  <1>4. \A m \in k..(n - 1) : pattern[m] \in S
    <2> SUFFICES ASSUME NEW m \in k..(n - 1), pattern[m] \notin S PROVE FALSE
      OBVIOUS
    <2>1. m \in T
      BY <1>1, <1>3
    <2> QED
      BY <1>3, <2>1
  <1>5. \E q \in k..N : Good(q)
    BY <1>3, <1>4
  <1>6. FirstOutside(k, S) = CHOOSE q \in k..N : Good(q)
    BY DEF FirstOutside
  <1>7. FirstOutside(k, S) \in k..N /\ Good(FirstOutside(k, S))
    <2> HIDE DEF Good, N
    <2> QED
      BY <1>5, <1>6
  <1> QED
    BY <1>7

(* Parts of a sequence.                                                    *)
LEMMA PartType ==
  ASSUME NEW S, NEW s \in Seq(S), NEW a \in Nat, NEW b \in Int, a >= 1, b <= Len(s)
  PROVE  /\ SubSeq(s, a, b) \in Seq(S)
         /\ Len(SubSeq(s, a, b)) = IF a <= b THEN (b - a) + 1 ELSE 0
         /\ \A m \in 1..Len(SubSeq(s, a, b)) : SubSeq(s, a, b)[m] = s[a + m - 1]
  OBVIOUS

(* Sequences of one length with the same elements are equal.               *)
LEMMA SameSequence ==
  ASSUME NEW S, NEW p \in Seq(S), NEW q \in Seq(S), Len(p) = Len(q),
         \A m \in 1..Len(p) : p[m] = q[m]
  PROVE  p = q
  OBVIOUS

(* A part of a pattern whose letters are all in a set is a sequence over   *)
(* that set.                                                               *)
LEMMA PartOfLetters ==
  ASSUME NEW S, NEW T, NEW s \in Seq(S), NEW a \in Nat, NEW b \in Int, a >= 1, b <= Len(s),
         \A m \in a..b : s[m] \in T
  PROVE  SubSeq(s, a, b) \in Seq(T)
  <1> DEFINE p == SubSeq(s, a, b)
  <1>1. /\ p \in Seq(S) /\ Len(p) = IF a <= b THEN (b - a) + 1 ELSE 0
        /\ \A m \in 1..Len(p) : p[m] = s[a + m - 1]
    BY PartType
  <1> HIDE DEF p
  <1>2. \A m \in 1..Len(p) : p[m] \in T
    BY SMTT(30), <1>1
  <1>3. p \in Seq(T)
    BY <1>1, <1>2
  <1> QED
    BY <1>3 DEF p

(* Two neighbouring parts are one.                                         *)
LEMMA PartsJoin ==
  ASSUME NEW S, NEW s \in Seq(S), NEW m \in Nat, NEW n \in Nat, m <= n, n <= Len(s)
  PROVE  SubSeq(s, 1, m) \o SubSeq(s, m + 1, n) = SubSeq(s, 1, n)
  <1> DEFINE p == SubSeq(s, 1, m)
             q == SubSeq(s, m + 1, n)
             r == SubSeq(s, 1, n)
  <1>1. /\ p \in Seq(S) /\ Len(p) = m
        /\ \A k \in 1..m : p[k] = s[k]
    BY PartType
  <1>2. /\ q \in Seq(S) /\ Len(q) = n - m
        /\ \A k \in 1..(n - m) : q[k] = s[m + k]
    BY PartType
  <1>3. /\ r \in Seq(S) /\ Len(r) = n
        /\ \A k \in 1..n : r[k] = s[k]
    BY PartType
  <1> HIDE DEF p, q, r
  <1>0. /\ p \o q \in Seq(S) /\ Len(p \o q) = m + Len(q)
        /\ \A k \in 1..m : (p \o q)[k] = p[k]
        /\ \A k \in 1..Len(q) : (p \o q)[m + k] = q[k]
    <2>1. p \in Seq(S) /\ q \in Seq(S) /\ Len(p) = m
      BY <1>1, <1>2
    <2> QED
      BY <2>1
  <1>4. p \o q \in Seq(S) /\ Len(p \o q) = n
    BY <1>0, <1>2
  <1>5. ASSUME NEW k \in 1..n
        PROVE  (p \o q)[k] = r[k]
    <2>1. CASE k <= m
      BY <1>0, <1>1, <1>3, <2>1
    <2>2. CASE k > m
      <3>1. k - m \in 1..(n - m) /\ m + (k - m) = k
        BY <2>2
      <3>2. (p \o q)[k] = q[k - m]
        BY <1>0, <1>2, <3>1
      <3>3. q[k - m] = s[k]
        BY <1>2, <3>1
      <3> QED
        BY <1>3, <3>2, <3>3
    <2>3. k <= m \/ k > m
      OBVIOUS
    <2> QED
      BY <2>1, <2>2, <2>3, Zenon
  <1>6. p \o q = r
    BY <1>3, <1>4, <1>5, SameSequence
  <1> QED
    BY <1>6 DEF p, q, r

(* substr of one letter.                                                   *)
LEMMA PartOne ==
  ASSUME NEW S, NEW s \in Seq(S), NEW m \in 1..Len(s)
  PROVE  SubSeq(s, m, m) = <<s[m]>>
  <1> DEFINE p == SubSeq(s, m, m)
  <1>1. /\ p \in Seq(S) /\ Len(p) = (m - m) + 1
        /\ \A k \in 1..Len(p) : p[k] = s[m + k - 1]
    BY PartType
  <1> HIDE DEF p
  <1>2. Len(p) = 1 /\ p[1] = s[m]
    BY <1>1
  <1>3. p = <<s[m]>>
    BY <1>1, <1>2
  <1> QED
    BY <1>3 DEF p

(* Concatenation is associative.                                           *)
LEMMA Assoc ==
  ASSUME NEW S, NEW p \in Seq(S), NEW q \in Seq(S), NEW r \in Seq(S)
  PROVE  (p \o q) \o r = p \o (q \o r)
  <1> DEFINE x == (p \o q) \o r
             y == p \o (q \o r)
  <1>1. /\ x \in Seq(S) /\ Len(x) = Len(p) + Len(q) + Len(r)
        /\ y \in Seq(S) /\ Len(y) = Len(x)
    OBVIOUS
  <1>2. \A m \in 1..Len(x) : x[m] = y[m]
    OBVIOUS
  <1> HIDE DEF x, y
  <1>3. x = y
    BY <1>1, <1>2, SameSequence
  <1> QED
    BY <1>3 DEF x, y

(* The part of the pattern up to position n.                               *)
UpTo(n) == SubSeq(pattern, 1, n)

(* The pattern up to the next letter.                                      *)
LEMMA UpToNext ==
  ASSUME pattern \in Seq(Chars), NEW m \in Nat, m + 1 <= Len(pattern)
  PROVE  UpTo(m) \o <<pattern[m + 1]>> = UpTo(m + 1)
  <1>1. m + 1 \in Nat /\ m <= m + 1 /\ m + 1 \in 1..Len(pattern)
    OBVIOUS
  <1>2. SubSeq(pattern, m + 1, m + 1) = <<pattern[m + 1]>>
    BY <1>1, PartOne
  <1>3. SubSeq(pattern, 1, m) \o SubSeq(pattern, m + 1, m + 1) = SubSeq(pattern, 1, m + 1)
    BY <1>1, PartsJoin
  <1> QED
    BY <1>2, <1>3 DEF UpTo

-----------------------------------------------------------------------------
(* The text of the items.                                                  *)

Texts(v) == FlattenSeq([k \in DOMAIN v |-> Text(v[k])])

(* What an item was read from is a sequence of letters, ...                *)
LEMMA TextType ==
  ASSUME NEW x \in Items
  PROVE  Text(x) \in Seq(Chars)
  <1>1. /\ x.str \in Seq(Chars) /\ x.fmt \in Seq(Chars)
        /\ <<"%">> \in Seq(Chars) /\ <<"{">> \in Seq(Chars) /\ <<"}">> \in Seq(Chars)
        /\ <<>> \in Seq(Chars)
    <2>1. x.str \in Seq(Chars) /\ x.fmt \in Seq(Chars)
      BY DEF Items
    <2>2. "%" \in Chars /\ "{" \in Chars /\ "}" \in Chars
      BY FormatOK
    <2>3. \A c \in Chars : <<c>> \in Seq(Chars)
      OBVIOUS
    <2>4. <<>> \in Seq(Chars)
      OBVIOUS
    <2> QED
      BY <2>1, <2>2, <2>3, <2>4
  <1>2. \A p, q \in Seq(Chars) : p \o q \in Seq(Chars)
    OBVIOUS
  <1> QED
    BY <1>1, <1>2 DEF Text

(* ... for several items too, and one more item adds its own text.         *)
LEMMA TextsAppend ==
  ASSUME NEW v \in Seq(Items), NEW x \in Items
  PROVE  /\ Texts(v) \in Seq(Chars)
         /\ Texts(Append(v, x)) = Texts(v) \o Text(x)
  <1> DEFINE T(w) == [k \in DOMAIN w |-> Text(w[k])]
             w == Append(v, x)
  <1>1. \A y \in Items : Text(y) \in Seq(Chars)
    BY TextType
  <1>2. T(v) \in Seq(Seq(Chars)) /\ Len(T(v)) = Len(v)
    BY SMTT(30), <1>1
  <1>3. /\ DOMAIN w = 1..(Len(v) + 1) /\ w[Len(v) + 1] = x
        /\ \A k \in 1..Len(v) : w[k] = v[k]
    OBVIOUS
  <1>4. T(w) = Append(T(v), Text(x))
    <2> DEFINE A == T(w)
               B == Append(T(v), Text(x))
    <2> HIDE DEF w
    <2>1. /\ A = [k \in 1..(Len(v) + 1) |-> A[k]] /\ A[Len(v) + 1] = Text(x)
          /\ \A k \in 1..Len(v) : A[k] = Text(v[k])
      BY <1>3
    <2>2. \A k \in 1..Len(v) : T(v)[k] = Text(v[k])
      OBVIOUS
    <2> HIDE DEF T
    <2>3. /\ B = [k \in 1..(Len(v) + 1) |-> B[k]] /\ B[Len(v) + 1] = Text(x)
          /\ \A k \in 1..Len(v) : B[k] = T(v)[k]
      <3> DEFINE t == T(v)
                 y == Text(x)
      <3>1. t \in Seq(Seq(Chars)) /\ y \in Seq(Chars) /\ Len(t) = Len(v)
        BY <1>1, <1>2
      <3> HIDE DEF t, y
      <3>2. /\ Append(t, y) = [k \in 1..(Len(v) + 1) |-> Append(t, y)[k]]
            /\ Append(t, y)[Len(v) + 1] = y
            /\ \A k \in 1..Len(v) : Append(t, y)[k] = t[k]
        BY <3>1, AppendIs
      <3> QED
        BY <3>2 DEF t, y
    <2> HIDE DEF A, B
    <2>4. ASSUME NEW k \in 1..(Len(v) + 1)
          PROVE  A[k] = B[k]
      <3>1. k \in 1..Len(v) \/ k = Len(v) + 1
        OBVIOUS
      <3>2. CASE k \in 1..Len(v)
        BY <2>1, <2>2, <2>3, <3>2, Zenon
      <3>3. CASE k = Len(v) + 1
        BY <2>1, <2>3, <3>3, Zenon
      <3> QED
        BY <3>1, <3>2, <3>3
    <2>5. [k \in 1..(Len(v) + 1) |-> A[k]] = [k \in 1..(Len(v) + 1) |-> B[k]]
      BY <2>4
    <2>6. A = B
      BY <2>1, <2>3, <2>5, Zenon
    <2> QED
      BY <2>6 DEF A, B
  <1> HIDE DEF T, w
  <1>5. Text(x) \in Seq(Chars)
    BY <1>1
  <1>6. /\ FlattenSeq(T(v)) \in Seq(Chars)
        /\ FlattenSeq(Append(T(v), Text(x))) = FlattenSeq(T(v)) \o Text(x)
    BY <1>2, <1>5, FlattenType, FlattenAppend
  <1> QED
    BY <1>4, <1>6 DEF Texts, T, w

(* The same, of the items alone.                                           *)
LEMMA TextsTyped ==
  ASSUME NEW v \in Seq(Items)
  PROVE  Texts(v) \in Seq(Chars)
  <1> DEFINE x == [kind |-> "format", str |-> <<>>, fmt |-> <<>>, braces |-> FALSE]
  <1>1. x \in Items
    <2>1. <<>> \in Seq(Chars) /\ <<>> \in Seq(Letters)
      OBVIOUS
    <2> QED
      BY <2>1 DEF Items
  <1> QED
    BY <1>1, TextsAppend

(* The items with the pending literal have the text of both.               *)
LEMMA FlushedIs ==
  ASSUME ItemsType
  PROVE  /\ Flushed \in Seq(Items)
         /\ Texts(Flushed) = Parsed \o nstr /\ Parsed \in Seq(Chars)
         /\ ~HasUnclosed => \A k \in DOMAIN Flushed : Flushed[k].kind # "parse_error"
  <1> USE DEF ItemsType
  <1>1. Parsed = Texts(vec)
    BY DEF Parsed, Texts
  <1>3. Parsed \in Seq(Chars)
    BY <1>1, TextsTyped
  <1>4. CASE nstr = <<>>
    <2>1. Parsed \o nstr = Parsed
      BY <1>3, <1>4
    <2> QED
      BY <1>1, <1>3, <1>4, <2>1 DEF Flushed, HasUnclosed
  <1>5. CASE nstr # <<>>
    <2>1. Literal(nstr) \in Items /\ Text(Literal(nstr)) = nstr
          /\ Literal(nstr).kind # "parse_error"
      BY <1>5 DEF Items, Literal, Text
    <2>2. Flushed = Append(vec, Literal(nstr))
      BY <1>5 DEF Flushed
    <2> HIDE DEF Literal
    <2>3. Texts(Flushed) = Texts(vec) \o nstr
      BY <2>1, <2>2, TextsAppend
    <2> DEFINE x == Literal(nstr)
    <2>4. x \in Items /\ x.kind # "parse_error"
      BY <2>1
    <2> HIDE DEF x
    <2>5. /\ Append(vec, x) \in Seq(Items)
          /\ (\A k \in DOMAIN vec : vec[k].kind # "parse_error") =>
               \A k \in DOMAIN Append(vec, x) : Append(vec, x)[k].kind # "parse_error"
      BY <2>4
    <2> QED
      BY <1>1, <1>3, <2>2, <2>3, <2>5 DEF HasUnclosed, x
  <1> QED
    BY <1>4, <1>5

-----------------------------------------------------------------------------
(* The rounds of the loop.                                                 *)

(* Where a % stands, and what follows it.                                  *)
LEMMA DirectiveIs ==
  ASSUME ItemsType, Directive
  PROVE  /\ pattern[i] = "%" /\ i \in 1..Len(pattern)
         /\ AfterName \in (i + 1)..(Len(pattern) + 1)
         /\ Name \in Seq(Letters) /\ Name \in Seq(Chars)
         /\ UpTo(AfterName - 1) = (UpTo(i - 1) \o <<"%">>) \o Name
  <1> USE DEF ItemsType
  <1>1. pattern[i] = "%" /\ i \in 1..Len(pattern) /\ Len(pattern) \in Nat
    BY DEF Directive, InLoop
  <1>2. i + 1 \in 1..(Len(pattern) + 1)
    BY <1>1
  <1>3. /\ AfterName \in (i + 1)..(Len(pattern) + 1)
        /\ \A m \in (i + 1)..(AfterName - 1) : pattern[m] \in Letters
    BY <1>2, FirstIs DEF AfterName
  <1> HIDE DEF AfterName
  <1>4. /\ i + 1 \in Nat /\ i + 1 >= 1
        /\ AfterName - 1 \in Int /\ AfterName - 1 <= Len(pattern)
    BY <1>1, <1>3
  <1>5. Name \in Seq(Letters)
    BY <1>3, <1>4, PartOfLetters DEF Name
  <1>6. Name \in Seq(Chars)
    BY <1>4, PartType DEF Name
  <1>7. UpTo(i - 1) \o <<"%">> = UpTo(i)
    <2>1. i - 1 \in Nat /\ (i - 1) + 1 = i /\ (i - 1) + 1 <= Len(pattern)
      BY <1>1
    <2>2. UpTo(i - 1) \o <<pattern[(i - 1) + 1]>> = UpTo((i - 1) + 1)
      BY <2>1, UpToNext
    <2> QED
      BY <1>1, <2>1, <2>2
  <1>8. UpTo(i) \o Name = UpTo(AfterName - 1)
    <2>1. i \in Nat /\ AfterName - 1 \in Nat /\ i <= AfterName - 1
      BY <1>1, <1>3
    <2> QED
      BY <1>4, <2>1, PartsJoin DEF UpTo, Name
  <1> QED
    BY <1>1, <1>3, <1>5, <1>6, <1>7, <1>8

(* The text in the braces.                                                 *)
LEMMA BraceIs ==
  ASSUME ItemsType, Directive, HasBrace
  PROVE  /\ AfterName \in (i + 1)..Len(pattern)
         /\ AfterBrace \in (AfterName + 1)..(Len(pattern) + 1)
         /\ AfterBrace <= Len(pattern) =>
              LET f == SubSeq(pattern, AfterName + 1, AfterBrace - 1)
              IN  /\ f \in Seq(Chars)
                  /\ UpTo(AfterBrace) = ((UpTo(AfterName - 1) \o <<"{">>) \o f) \o <<"}">>
  <1>0. pattern[AfterName] = "{"
    BY DEF HasBrace
  <1>1. /\ AfterName \in (i + 1)..Len(pattern)
        /\ i \in Nat /\ Len(pattern) \in Nat /\ pattern \in Seq(Chars)
    <2>1. AfterName <= Len(pattern)
      BY DEF HasBrace
    <2>2. AfterName \in (i + 1)..(Len(pattern) + 1)
      BY DirectiveIs
    <2>3. i \in Nat /\ Len(pattern) \in Nat /\ pattern \in Seq(Chars)
      BY DEF ItemsType
    <2> HIDE DEF AfterName
    <2> QED
      BY <2>1, <2>2, <2>3
  <1> HIDE DEF AfterName
  <1>2. AfterName + 1 \in 1..(Len(pattern) + 1)
    BY <1>1
  <1>3. AfterBrace \in (AfterName + 1)..(Len(pattern) + 1)
    BY <1>1, <1>2, FirstIs DEF AfterBrace
  <1>5. AfterBrace <= Len(pattern) => pattern[AfterBrace] \notin Chars \ {"}"}
    BY <1>1, <1>2, FirstIs DEF AfterBrace
  <1> HIDE DEF AfterBrace
  <1>4. ASSUME AfterBrace <= Len(pattern)
        PROVE  LET f == SubSeq(pattern, AfterName + 1, AfterBrace - 1)
               IN  /\ f \in Seq(Chars)
                   /\ UpTo(AfterBrace) = ((UpTo(AfterName - 1) \o <<"{">>) \o f) \o <<"}">>
    <2> DEFINE f == SubSeq(pattern, AfterName + 1, AfterBrace - 1)
    <2>1. AfterBrace \in 1..Len(pattern)
      BY <1>1, <1>3, <1>4
    <2>2. pattern[AfterBrace] = "}"
      <3>1. pattern[AfterBrace] \in Chars
        BY <1>1, <2>1
      <3> QED
        BY <1>4, <1>5, <3>1
    <2>3. f \in Seq(Chars)
      <3>1. AfterName + 1 \in Nat /\ AfterName + 1 >= 1 /\ AfterBrace - 1 \in Int
            /\ AfterBrace - 1 <= Len(pattern)
        BY <1>1, <2>1
      <3> QED
        BY <1>1, <3>1, PartType
    <2>4. UpTo(AfterName - 1) \o <<"{">> = UpTo(AfterName)
      <3>1. AfterName - 1 \in Nat /\ (AfterName - 1) + 1 = AfterName
            /\ (AfterName - 1) + 1 <= Len(pattern)
        BY <1>1
      <3>2. UpTo(AfterName - 1) \o <<pattern[(AfterName - 1) + 1]>> = UpTo((AfterName - 1) + 1)
        BY <1>1, <3>1, UpToNext
      <3> QED
        BY <1>0, <3>1, <3>2
    <2>5. UpTo(AfterName) \o f = UpTo(AfterBrace - 1)
      <3>1. /\ AfterName \in Nat /\ AfterBrace - 1 \in Nat /\ AfterName <= AfterBrace - 1
            /\ AfterBrace - 1 <= Len(pattern)
        BY <1>1, <1>3, <2>1
      <3> QED
        BY <1>1, <3>1, PartsJoin DEF UpTo
    <2>6. UpTo(AfterBrace - 1) \o <<"}">> = UpTo(AfterBrace)
      <3>1. AfterBrace - 1 \in Nat /\ (AfterBrace - 1) + 1 = AfterBrace
            /\ (AfterBrace - 1) + 1 <= Len(pattern)
        BY <2>1
      <3>2. UpTo(AfterBrace - 1) \o <<pattern[(AfterBrace - 1) + 1]>>
              = UpTo((AfterBrace - 1) + 1)
        BY <1>1, <3>1, UpToNext
      <3> QED
        BY <2>2, <3>1, <3>2
    <2> QED
      BY <2>3, <2>4, <2>5, <2>6
  <1> QED
    BY <1>1, <1>3, <1>4

(* The part of the pattern that init() has read is a sequence of letters.  *)
LEMMA UpToType ==
  ASSUME ItemsType, NEW m \in Nat, m <= Len(pattern)
  PROVE  UpTo(m) \in Seq(Chars)
  BY PartType DEF ItemsType, UpTo

(* A character that is no directive.                                       *)
LEMMA ReadChar ==
  ASSUME Inv, Plain \/ Percent
  PROVE  Inv'
  <1> USE DEF Inv, ItemsType
  <1>1. /\ i \in 1..Len(pattern) /\ nstr' = Append(nstr, pattern[i]) /\ i' = i + 1
        /\ UNCHANGED <<pattern, vec, error, ready>> /\ ~ready
    BY DEF Plain, Percent, InLoop
  <1>2. ItemsType'
    BY <1>1
  <1>3. Reported'
    BY <1>1 DEF Reported, HasUnclosed
  <1>4. ASSUME ~HasUnclosed'
        PROVE  (Parsed \o nstr = SubSeq(pattern, 1, i - 1))'
    <2> DEFINE c == pattern[i]
    <2>1. Parsed' = Parsed /\ Parsed \in Seq(Chars)
      BY <1>1, FlushedIs DEF Parsed
    <2>2. Parsed \o nstr = UpTo(i - 1)
      BY <1>1, <1>4 DEF AllRead, HasUnclosed, UpTo
    <2>3. UpTo(i - 1) \o <<c>> = UpTo(i)
      <3>1. i - 1 \in Nat /\ (i - 1) + 1 = i /\ (i - 1) + 1 <= Len(pattern)
        BY <1>1
      <3>2. UpTo(i - 1) \o <<pattern[(i - 1) + 1]>> = UpTo((i - 1) + 1)
        BY <3>1, UpToNext
      <3> QED
        BY <3>1, <3>2
    <2>4. c \in Chars /\ nstr \in Seq(Chars)
      BY <1>1
    <2> HIDE DEF c
    <2>5. nstr \o <<c>> = Append(nstr, c) /\ <<c>> \in Seq(Chars)
      BY <2>4
    <2>6. (Parsed \o nstr) \o <<c>> = Parsed \o (nstr \o <<c>>)
      BY SMTT(30), <2>1, <2>4, <2>5, Assoc
    <2>7. Parsed \o Append(nstr, c) = UpTo(i)
      BY <2>2, <2>3, <2>5, <2>6
    <2>8. i' - 1 = i
      BY <1>1
    <2> QED
      BY <1>1, <2>1, <2>7, <2>8 DEF UpTo, c
  <1>5. AllRead'
    BY <1>4 DEF AllRead
  <1> QED
    BY <1>2, <1>3, <1>5

(* One item more, behind the pending literal.                              *)
LEMMA AddItem ==
  ASSUME ItemsType, NEW x \in Items, x.kind # "parse_error"
  PROVE  /\ Append(Flushed, x) \in Seq(Items)
         /\ Texts(Append(Flushed, x)) = (Parsed \o nstr) \o Text(x)
         /\ ~HasUnclosed =>
              \A k \in DOMAIN Append(Flushed, x) : Append(Flushed, x)[k].kind # "parse_error"
  <1> DEFINE v == Flushed
  <1>1. /\ v \in Seq(Items) /\ Texts(v) = Parsed \o nstr
        /\ ~HasUnclosed => \A k \in DOMAIN v : v[k].kind # "parse_error"
    BY FlushedIs
  <1> HIDE DEF v
  <1>2. /\ Append(v, x) \in Seq(Items)
        /\ (\A k \in DOMAIN v : v[k].kind # "parse_error") =>
             \A k \in DOMAIN Append(v, x) : Append(v, x)[k].kind # "parse_error"
    BY <1>1
  <1>3. Texts(Append(v, x)) = Texts(v) \o Text(x)
    BY <1>1, TextsAppend
  <1> QED
    BY <1>1, <1>2, <1>3 DEF v

(* The two ways a directive can end.                                       *)
LEMMA ReadItem ==
  ASSUME Inv, Directive, NEW x \in Items, x.kind # "parse_error",
         NEW n \in Nat, n <= Len(pattern), i <= n,
         UpTo(i - 1) \o Text(x) = UpTo(n),
         vec' = Append(Flushed, x), nstr' = <<>>, i' = n + 1,
         UNCHANGED <<pattern, error, ready>>
  PROVE  Inv'
  <1>1. /\ Append(Flushed, x) \in Seq(Items)
        /\ Texts(Append(Flushed, x)) = (Parsed \o nstr) \o Text(x)
        /\ ~HasUnclosed =>
             \A k \in DOMAIN Append(Flushed, x) : Append(Flushed, x)[k].kind # "parse_error"
    BY AddItem DEF Inv
  <1>2. vec' \in Seq(Items) /\ nstr' \in Seq(Chars) /\ i' \in 1..(Len(pattern) + 1)
    <2>1. <<>> \in Seq(Chars) /\ n + 1 \in 1..(Len(pattern) + 1)
      BY DEF Inv, ItemsType
    <2> QED
      BY <1>1, <2>1
  <1>3. ItemsType'
    BY <1>2 DEF Inv, ItemsType
  <1>4. HasUnclosed' => HasUnclosed
    BY <1>1 DEF HasUnclosed
  <1>5. Reported'
    BY <1>4 DEF Inv, Reported, Directive, InLoop
  <1>6. ASSUME ~HasUnclosed'
        PROVE  (Parsed \o nstr = SubSeq(pattern, 1, i - 1))'
    <2>1. ~HasUnclosed
      <3>1. HasUnclosed => HasUnclosed'
        <4> SUFFICES ASSUME NEW k \in DOMAIN vec, vec[k].kind = "parse_error"
                     PROVE  HasUnclosed'
          BY DEF HasUnclosed
        <4>1. k \in DOMAIN Flushed /\ Flushed[k] = vec[k]
          <5>1. \A T : \A q \in Seq(T), y \in T : \A m \in DOMAIN q :
                  m \in DOMAIN Append(q, y) /\ Append(q, y)[m] = q[m]
            OBVIOUS
          <5>2. vec \in Seq(Items) /\ (nstr # <<>> => Literal(nstr) \in Items)
            BY DEF Inv, ItemsType, Literal, Items
          <5> QED
            BY <5>1, <5>2 DEF Flushed
        <4>2. k \in DOMAIN Append(Flushed, x) /\ Append(Flushed, x)[k] = Flushed[k]
          <5> DEFINE v == Flushed
          <5>1. v \in Seq(Items) /\ k \in DOMAIN v
            BY <4>1, FlushedIs DEF Inv
          <5> HIDE DEF v
          <5>2. k \in DOMAIN Append(v, x) /\ Append(v, x)[k] = v[k]
            BY <5>1
          <5> QED
            BY <5>2 DEF v
        <4> QED
          BY <4>1, <4>2 DEF HasUnclosed
      <3> QED
        BY <1>6, <3>1
    <2>2. Parsed \o nstr = UpTo(i - 1)
      BY <2>1 DEF Inv, AllRead, UpTo
    <2>3. Parsed' = Texts(Append(Flushed, x))
      BY DEF Parsed, Texts
    <2>4. Parsed' = UpTo(n)
      BY <1>1, <2>2, <2>3
    <2>5. UpTo(n) \in Seq(Chars)
      BY UpToType DEF Inv
    <2>6. UpTo(n) \o <<>> = UpTo(n)
      BY <2>5
    <2>7. i' - 1 = n
      OBVIOUS
    <2> QED
      BY <2>4, <2>6, <2>7 DEF UpTo
  <1>7. AllRead'
    BY <1>6 DEF AllRead
  <1> QED
    BY <1>3, <1>5, <1>7 DEF Inv

(* The signs an escape is written with are letters.                        *)
LEMMA Signs ==
  <<"%">> \in Seq(Chars) /\ <<"{">> \in Seq(Chars) /\ <<"}">> \in Seq(Chars)
  <1>1. "%" \in Chars /\ "{" \in Chars /\ "}" \in Chars
    BY FormatOK
  <1>2. \A y \in Chars : <<y>> \in Seq(Chars)
    OBVIOUS
  <1> QED
    BY <1>1, <1>2

(* An escape without braces preserves the invariant, ...                   *)
LEMMA ReadSimple ==
  ASSUME Inv, Simple
  PROVE  Inv'
  <1> DEFINE x == Format(Name, <<>>, FALSE)
             n == AfterName - 1
  <1>1. /\ Directive /\ vec' = Append(Flushed, x) /\ nstr' = <<>> /\ i' = AfterName
        /\ UNCHANGED <<pattern, error, ready>>
    BY DEF Simple
  <1>2. /\ AfterName \in (i + 1)..(Len(pattern) + 1)
        /\ Name \in Seq(Letters) /\ Name \in Seq(Chars)
        /\ UpTo(AfterName - 1) = (UpTo(i - 1) \o <<"%">>) \o Name
        /\ i \in 1..Len(pattern) /\ Len(pattern) \in Nat
    <2>1. ItemsType /\ Len(pattern) \in Nat
      BY DEF Inv, ItemsType
    <2> QED
      BY <1>1, <2>1, DirectiveIs
  <1>3. x \in Items /\ x.kind # "parse_error"
    <2>1. <<>> \in Seq(Chars)
      OBVIOUS
    <2> QED
      BY <1>2, <2>1 DEF Items, Format
  <1>4. Text(x) = <<"%">> \o Name
    <2>1. x.kind = "format" /\ x.str = Name /\ x.braces = FALSE
      BY DEF Format
    <2>2. Text(x) = (<<"%">> \o Name) \o <<>>
      <3> HIDE DEF x
      <3> QED
        BY <2>1 DEF Text
    <2> DEFINE p == <<"%">> \o Name
    <2>3. p \in Seq(Chars)
      <3>1. \A q, r \in Seq(Chars) : q \o r \in Seq(Chars)
        OBVIOUS
      <3> QED
        BY <1>2, <3>1, Signs
    <2> HIDE DEF p, x
    <2>4. p \o <<>> = p
      BY <2>3
    <2> QED
      BY <2>2, <2>4 DEF p
  <1>5. n \in Nat /\ n <= Len(pattern) /\ i <= n /\ i' = n + 1
    BY <1>1, <1>2
  <1>6. UpTo(i - 1) \o Text(x) = UpTo(n)
    <2> DEFINE u == UpTo(i - 1)
               a == <<"%">>
               m == Name
    <2>1. i - 1 \in Nat /\ i - 1 <= Len(pattern)
      BY <1>2
    <2>2. u \in Seq(Chars) /\ a \in Seq(Chars) /\ m \in Seq(Chars)
      BY <1>2, <2>1, Signs, UpToType DEF Inv
    <2>3. UpTo(n) = (u \o a) \o m /\ Text(x) = a \o m
      BY <1>2, <1>4
    <2> HIDE DEF u, a, m, x, n
    <2>4. (u \o a) \o m = u \o (a \o m)
      BY <2>2, Assoc
    <2> QED
      BY <2>3, <2>4 DEF u
  <1> HIDE DEF x, n
  <1> QED
    BY <1>1, <1>3, <1>5, <1>6, ReadItem

(* ... so does one with braces, closed or not, ...                         *)
LEMMA ReadBraced ==
  ASSUME Inv, Braced
  PROVE  Inv'
  <1> DEFINE f == SubSeq(pattern, AfterName + 1, AfterBrace - 1)
             x == Format(Name, f, TRUE)
             n == AfterBrace
  <1>1. /\ Directive /\ HasBrace /\ AfterBrace <= Len(pattern)
        /\ vec' = Append(Flushed, x) /\ nstr' = <<>> /\ i' = n + 1
        /\ UNCHANGED <<pattern, error, ready>>
    BY DEF Braced
  <1>2. /\ AfterName \in (i + 1)..Len(pattern)
        /\ Name \in Seq(Letters) /\ Name \in Seq(Chars)
        /\ UpTo(AfterName - 1) = (UpTo(i - 1) \o <<"%">>) \o Name
        /\ i \in 1..Len(pattern) /\ Len(pattern) \in Nat
    <2>1. ItemsType /\ Len(pattern) \in Nat
      BY DEF Inv, ItemsType
    <2> QED
      BY <1>1, <2>1, DirectiveIs, BraceIs
  <1>3. /\ n \in (AfterName + 1)..(Len(pattern) + 1) /\ f \in Seq(Chars)
        /\ UpTo(n) = ((UpTo(AfterName - 1) \o <<"{">>) \o f) \o <<"}">>
    BY <1>1, BraceIs DEF Inv
  <1>6. n \in Nat /\ n <= Len(pattern) /\ i <= n
    <2> HIDE DEF n
    <2>1. n <= Len(pattern)
      BY <1>1 DEF n
    <2>2. n \in (AfterName + 1)..(Len(pattern) + 1)
      BY <1>3
    <2> QED
      BY <1>2, <2>1, <2>2
  <1> HIDE DEF f, n
  <1>4. x \in Items /\ x.kind # "parse_error"
    BY <1>2, <1>3 DEF Items, Format
  <1>5. Text(x) = (<<"%">> \o Name) \o ((<<"{">> \o f) \o <<"}">>)
    <2>1. x.kind = "format" /\ x.str = Name /\ x.braces = TRUE /\ x.fmt = f
      BY DEF Format
    <2> HIDE DEF x
    <2> QED
      BY <2>1 DEF Text
  <1>7. UpTo(i - 1) \o Text(x) = UpTo(n)
    <2> DEFINE u == UpTo(i - 1)
               a == <<"%">>
               b == <<"{">>
               c == <<"}">>
               m == Name
    <2>1. u \in Seq(Chars) /\ a \in Seq(Chars) /\ b \in Seq(Chars) /\ c \in Seq(Chars)
          /\ m \in Seq(Chars) /\ f \in Seq(Chars)
      <3>1. i - 1 \in Nat /\ i - 1 <= Len(pattern)
        BY <1>2
      <3>2. u \in Seq(Chars)
        BY <3>1, UpToType DEF Inv
      <3> QED
        BY <1>2, <1>3, <3>2, Signs
    <2>2. UpTo(n) = (((((u \o a) \o m) \o b) \o f) \o c)
      BY <1>2, <1>3
    <2>3. Text(x) = (a \o m) \o ((b \o f) \o c)
      BY <1>5
    <2> HIDE DEF u, a, b, c, m, x
    <2>4. \A p, q \in Seq(Chars) : p \o q \in Seq(Chars)
      OBVIOUS
    <2> DEFINE am == a \o m
               bf == b \o f
               bfc == bf \o c
               ua == u \o a
               w == ua \o m
               wb == w \o b
    <2>5. /\ am \in Seq(Chars) /\ bf \in Seq(Chars) /\ bfc \in Seq(Chars)
          /\ ua \in Seq(Chars) /\ w \in Seq(Chars) /\ wb \in Seq(Chars)
      BY <2>1, <2>4
    <2>6. w = u \o am
      BY SMTT(30), <2>1, Assoc
    <2>7. wb \o f = w \o bf
      <3> HIDE DEF w
      <3>1. w \in Seq(Chars) /\ b \in Seq(Chars) /\ f \in Seq(Chars)
        BY <2>1, <2>5
      <3> QED
        BY <3>1, Assoc
    <2> HIDE DEF am, bf, w
    <2>8. (w \o bf) \o c = w \o bfc
      <3>1. w \in Seq(Chars) /\ bf \in Seq(Chars) /\ c \in Seq(Chars)
        BY <2>1, <2>5
      <3> QED
        BY <3>1, Assoc
    <2> HIDE DEF bfc
    <2>9. (u \o am) \o bfc = u \o (am \o bfc)
      <3>1. u \in Seq(Chars) /\ am \in Seq(Chars) /\ bfc \in Seq(Chars)
        BY <2>1, <2>5
      <3> QED
        BY <3>1, Assoc
    <2> QED
      BY <2>2, <2>3, <2>6, <2>7, <2>8, <2>9 DEF w, am, bf, bfc, u
  <1> HIDE DEF x
  <1> QED
    BY <1>1, <1>4, <1>6, <1>7, ReadItem

(* A brace that is not closed.                                             *)
LEMMA ReadUnclosed ==
  ASSUME Inv, Unclosed
  PROVE  Inv'
  <1>1. /\ i \in 1..Len(pattern) /\ i' = i + 1 /\ error' = TRUE
        /\ UNCHANGED <<pattern, nstr, ready>> /\ ~ready
        /\ vec' = IF nstr = <<>> THEN Append(vec, ParseError)
                  ELSE vec \o <<ParseError, Literal(nstr)>>
    BY DEF Unclosed, Directive, InLoop, Inv, ItemsType
  <1> DEFINE e == ParseError
             l == Literal(nstr)
  <1>2. e \in Items /\ e.kind = "parse_error"
    <2> DEFINE R == [kind : {"literal", "format", "parse_error"}, str : Seq(Chars),
                     fmt : Seq(Chars), braces : BOOLEAN]
               x == Literal(<<>>)
    <2>1. <<>> \in Seq(Chars) /\ <<>> \in Seq(Letters)
      OBVIOUS
    <2>2. x \in R /\ x.str = <<>>
      BY <2>1 DEF Literal
    <2>3. e = [x EXCEPT !.kind = "parse_error"]
      BY DEF ParseError, e
    <2> HIDE DEF x
    <2>4. e \in R /\ e.kind = "parse_error" /\ e.str = <<>>
      BY <2>2, <2>3
    <2> QED
      BY <2>1, <2>4 DEF Items
  <1>3. nstr # <<>> => l \in Items
    BY DEF Inv, ItemsType, Literal, Items
  <1>4. vec \in Seq(Items)
    BY DEF Inv, ItemsType
  <1> HIDE DEF e, l
  <1>5. /\ Append(vec, e) \in Seq(Items) /\ Append(vec, e)[Len(vec) + 1] = e
        /\ Len(vec) + 1 \in DOMAIN Append(vec, e)
    BY <1>2, <1>4
  <1>6. nstr # <<>> =>
          /\ vec \o <<e, l>> \in Seq(Items) /\ (vec \o <<e, l>>)[Len(vec) + 1] = e
          /\ Len(vec) + 1 \in DOMAIN (vec \o <<e, l>>)
    BY <1>2, <1>3, <1>4
  <1>7. vec' = IF nstr = <<>> THEN Append(vec, e) ELSE vec \o <<e, l>>
    BY <1>1 DEF e, l
  <1>8. vec' \in Seq(Items) /\ vec'[Len(vec) + 1] = e /\ Len(vec) + 1 \in DOMAIN vec'
    BY <1>5, <1>6, <1>7
  <1>9. HasUnclosed'
    BY <1>2, <1>8 DEF HasUnclosed
  <1>10. ItemsType'
    BY <1>1, <1>8 DEF Inv, ItemsType
  <1> QED
    BY <1>1, <1>9, <1>10 DEF Inv, Reported, AllRead

(* ... and the table of the item classes, which may report an error.       *)
LEMMA Looked ==
  ASSUME Inv, LookUp
  PROVE  Inv'
  <1>1. /\ UNCHANGED <<pattern, i, nstr, vec>> /\ ready' = TRUE
        /\ error' = (error \/ \E k \in DOMAIN vec :
                                vec[k].kind = "format" /\ vec[k].str \notin Known)
    BY DEF LookUp
  <1>2. /\ (error' <=> (error \/ \E k \in DOMAIN vec :
                                vec[k].kind = "format" /\ vec[k].str \notin Known))
        /\ error' \in BOOLEAN
    BY <1>1
  <1>3. ItemsType'
    BY <1>1, <1>2 DEF Inv, ItemsType
  <1>4. Reported'
    BY <1>1, <1>2 DEF Inv, Reported, HasUnclosed
  <1>5. AllRead'
    BY <1>1 DEF Inv, AllRead, HasUnclosed, Parsed
  <1> QED
    BY <1>3, <1>4, <1>5 DEF Inv

(* Before the loop nothing is read.                                        *)
LEMMA InitInv == Init => Inv
  <1> SUFFICES ASSUME Init PROVE Inv
    OBVIOUS
  <1>1. pattern \in Seq(Chars)
    <2>1. PICK m \in 0..MaxSize : pattern \in [1..m -> Chars]
      BY DEF Init, SeqOf
    <2>2. MaxSize \in Nat
      BY FormatOK
    <2>3. m \in Nat
      BY <2>2
    <2> QED
      BY <2>1, <2>3
  <1>2. Len(pattern) \in Nat
    BY <1>1
  <1>3. ItemsType
    <2>1. <<>> \in Seq(Chars) /\ <<>> \in Seq(Items) /\ 1 \in 1..(Len(pattern) + 1)
      BY <1>2
    <2> QED
      BY <1>1, <2>1 DEF Init, ItemsType
  <1>4. Reported
    BY DEF Init, Reported, HasUnclosed
  <1>5. Parsed \o nstr = SubSeq(pattern, 1, i - 1)
    <2>1. vec = <<>> /\ nstr = <<>> /\ i - 1 = 0
      BY DEF Init
    <2>2. Parsed = <<>>
      <3>1. [k \in DOMAIN vec |-> Text(vec[k])] = <<>>
        BY <2>1
      <3> QED
        BY <3>1, FlattenEmpty, Zenon DEF Parsed
    <2>3. SubSeq(pattern, 1, 0) = <<>>
      BY <1>1
    <2>4. <<>> \o <<>> = <<>>
      OBVIOUS
    <2> QED
      BY <2>1, <2>2, <2>3, <2>4
  <1> QED
    BY <1>3, <1>4, <1>5 DEF Inv, AllRead

(* Every step of init() preserves the invariant.                           *)
LEMMA NextInv == Inv /\ [Next]_vars => Inv'
  <1> SUFFICES ASSUME Inv, [Next]_vars PROVE Inv'
    OBVIOUS
  <1>1. CASE UNCHANGED vars
    BY <1>1 DEF vars, Inv, ItemsType, Reported, HasUnclosed, AllRead, Parsed
  <1> QED
    BY <1>1, ReadChar, ReadSimple, ReadBraced, ReadUnclosed, Looked DEF Next

(* Types, the report of every error, and the text read so far.             *)
THEOREM PatternInductive == Spec => []Inv
  BY InitInv, NextInv, PTL DEF Spec

(* The index stays inside the pattern or just behind it, literals are not  *)
(* empty and names have letters only (log.cc:336-404).                     *)
THEOREM PatternTyped == Spec => []TypeOK
  <1>1. Inv => TypeOK
    <2> SUFFICES ASSUME Inv PROVE TypeOK
      OBVIOUS
    <2>1. ASSUME NEW k \in DOMAIN vec
          PROVE  /\ vec[k].kind = "literal" => vec[k].str # <<>>
                 /\ vec[k].str \in Seq(IF vec[k].kind = "literal" THEN Chars ELSE Letters)
      <3>1. vec[k] \in Items
        BY DEF Inv, ItemsType
      <3>2. /\ vec[k].kind = "literal" => vec[k].str # <<>>
            /\ vec[k].kind # "literal" => vec[k].str \in Seq(Letters)
            /\ vec[k].str \in Seq(Chars)
        BY <3>1 DEF Items
      <3> QED
        BY <3>2
    <2> QED
      BY <2>1 DEF Inv, ItemsType, TypeOK
  <1> QED
    BY <1>1, PatternInductive, PTL

(* A pending % waits for its second one in every round.                    *)
LEMMA StepPercent ==
  ASSUME Inv, PercentPends, Next
  PROVE  PercentPends'
  <1> USE DEF Inv, ItemsType, PercentPends
  <1>1. CASE Plain
    <2>1. /\ nstr' = Append(nstr, pattern[i]) /\ pattern[i] # "%" /\ ~ready
          /\ UNCHANGED <<vec, ready>>
      BY <1>1 DEF Plain, InLoop
    <2>2. ~HasUnclosed => \A k \in DOMAIN nstr : nstr[k] # "%"
      BY <2>1
    <2>3. /\ DOMAIN nstr' = 1..(Len(nstr) + 1) /\ nstr'[Len(nstr) + 1] = pattern[i]
          /\ \A k \in 1..Len(nstr) : nstr'[k] = nstr[k]
      BY <2>1
    <2>4. ~HasUnclosed => \A k \in DOMAIN nstr' : nstr'[k] # "%"
      BY <2>1, <2>2, <2>3
    <2> QED
      BY <2>1, <2>4 DEF HasUnclosed
  <1>2. CASE Percent
    BY <1>2 DEF Percent, InLoop
  <1>3. CASE Simple \/ Braced
    <2>1. nstr' = <<>> /\ ~ready /\ ready' = ready
      BY <1>3 DEF Simple, Braced, Directive, InLoop
    <2>2. DOMAIN nstr' = {}
      BY <2>1
    <2> QED
      BY <2>1, <2>2
  <1>4. CASE Unclosed
    <2>1. /\ vec' = IF nstr = <<>> THEN Append(vec, ParseError)
                    ELSE vec \o <<ParseError, Literal(nstr)>>
          /\ ~ready /\ ready' = ready
      BY <1>4 DEF Unclosed, Directive, InLoop
    <2>2. ParseError.kind = "parse_error"
      BY DEF ParseError, Literal
    <2> HIDE DEF ParseError, Literal
    <2>3. Len(vec) + 1 \in DOMAIN vec' /\ vec'[Len(vec) + 1] = ParseError
      BY <2>1
    <2>4. HasUnclosed'
      BY <2>2, <2>3 DEF HasUnclosed
    <2> QED
      BY <2>1, <2>4
  <1>5. CASE LookUp
    BY <1>5 DEF LookUp, HasUnclosed
  <1> QED
    BY <1>1, <1>2, <1>3, <1>4, <1>5 DEF Next

(* What has been read, at the end: the items are the pattern up to where   *)
(* the pending literal begins, and that has no %.                          *)
LEMMA ReadAtEnd ==
  ASSUME Inv, PercentPends, ready, ~HasUnclosed
  PROVE  \E n \in 0..Len(pattern) :
           /\ Parsed = SubSeq(pattern, 1, n)
           /\ \A m \in (n + 1)..Len(pattern) : pattern[m] # "%"
  <1> DEFINE p == Parsed
             n == Len(p)
  <1>1. p \in Seq(Chars) /\ nstr \in Seq(Chars) /\ pattern \in Seq(Chars)
    BY FlushedIs DEF Inv, ItemsType
  <1>2. i - 1 = Len(pattern)
    BY <1>1 DEF Inv, ItemsType, PercentPends
  <1>3. p \o nstr = pattern
    <2>1. SubSeq(pattern, 1, Len(pattern)) = pattern
      BY <1>1
    <2> QED
      BY <1>2, <2>1 DEF Inv, AllRead
  <1>4. \A k \in DOMAIN nstr : nstr[k] # "%"
    BY <1>1, <1>2 DEF PercentPends, Inv, ItemsType
  <1> HIDE DEF p
  <1>5. /\ n \in 0..Len(pattern) /\ Len(pattern) = n + Len(nstr)
        /\ \A k \in 1..n : pattern[k] = p[k]
        /\ \A k \in 1..Len(nstr) : pattern[n + k] = nstr[k]
    <2>1. /\ Len(p \o nstr) = Len(p) + Len(nstr)
          /\ \A k \in 1..Len(p) : (p \o nstr)[k] = p[k]
          /\ \A k \in 1..Len(nstr) : (p \o nstr)[Len(p) + k] = nstr[k]
      BY <1>1
    <2> QED
      BY <1>1, <1>3, <2>1
  <1>6. p = SubSeq(pattern, 1, n)
    <2> DEFINE q == SubSeq(pattern, 1, n)
    <2>1. q \in Seq(Chars) /\ Len(q) = n /\ \A k \in 1..n : q[k] = pattern[k]
      BY <1>1, <1>5, PartType
    <2> HIDE DEF q
    <2>2. p = q
      BY <1>1, <1>5, <2>1, SameSequence
    <2> QED
      BY <2>2 DEF q
  <1>7. ASSUME NEW m \in (n + 1)..Len(pattern)
        PROVE  pattern[m] # "%"
    <2>1. PICK k \in 1..Len(nstr) : m = n + k
      <3>1. m - n \in 1..Len(nstr) /\ m = n + (m - n)
        BY <1>1, <1>5, <1>7
      <3> QED
        BY <3>1
    <2>2. pattern[m] = nstr[k] /\ k \in DOMAIN nstr
      BY <1>1, <1>5, <2>1
    <2> QED
      BY <1>4, <2>2
  <1> QED
    BY <1>5, <1>6, <1>7 DEF p

(* As long as all braces are closed, the items and the pending literal are *)
(* the part of the pattern read so far; when init has returned, the items  *)
(* are the pattern up to where no more % follows: nothing up to the last   *)
(* item is lost, repeated or reordered (log.cc:336-404).                   *)
THEOREM NothingLost == Spec => []RoundTrip
  <1>1. Init => PercentPends
    BY DEF Init, PercentPends
  <1>2. Inv /\ PercentPends /\ [Next]_vars => PercentPends'
    <2>1. CASE UNCHANGED vars
      BY <2>1 DEF vars, PercentPends, HasUnclosed
    <2> QED
      BY <2>1, StepPercent
  <1>3. Inv /\ PercentPends => RoundTrip
    BY ReadAtEnd DEF Inv, AllRead, RoundTrip
  <1> QED
    BY <1>1, <1>2, <1>3, PatternInductive, PTL DEF Spec

(* A formatter without an error has no replacement text                    *)
(* (log.cc:396, 428).                                                      *)
THEOREM AcceptedHasNoError == Spec => []AcceptedIsClean
  <1>1. Inv => AcceptedIsClean
    BY DEF Inv, Reported, AcceptedIsClean
  <1> QED
    BY <1>1, PatternInductive, PTL

(* Every round moves the index forward (log.cc:336-404): with the bound of *)
(* the type invariant, the loop ends.                                      *)
THEOREM LoopGoesForward == Spec => Progress
  <1>1. Inv /\ [Next]_vars => [i' > i \/ ready']_vars
    <2> SUFFICES ASSUME Inv, Next PROVE i' > i \/ ready'
      OBVIOUS
    <2>1. i \in Nat /\ ItemsType
      BY DEF Inv, ItemsType
    <2>2. CASE Plain \/ Percent \/ Unclosed
      BY <2>1, <2>2 DEF Plain, Percent, Unclosed
    <2>3. CASE Simple
      <3>1. AfterName \in (i + 1)..(Len(pattern) + 1) /\ i' = AfterName
        BY <2>1, <2>3, DirectiveIs DEF Simple
      <3> HIDE DEF AfterName
      <3> QED
        BY <2>1, <3>1 DEF ItemsType
    <2>4. CASE Braced
      <3>1. /\ AfterName \in (i + 1)..Len(pattern)
            /\ AfterBrace \in (AfterName + 1)..(Len(pattern) + 1) /\ i' = AfterBrace + 1
        BY <2>1, <2>4, BraceIs DEF Braced
      <3> HIDE DEF AfterName, AfterBrace
      <3> QED
        BY <2>1, <3>1 DEF ItemsType
    <2>5. CASE LookUp
      BY <2>5 DEF LookUp
    <2> QED
      BY <2>2, <2>3, <2>4, <2>5 DEF Next
  <1> QED
    BY <1>1, PatternInductive, PTL DEF Spec, Progress
=============================================================================
