-------------------------- MODULE SequenceLemmas ---------------------------
(***************************************************************************)
(* Lemmas about sequences, above all about FlattenSeq, with which          *)
(* LogReload writes the calls of its listener and FormatPattern the text   *)
(* of a list of items.                                                     *)
(***************************************************************************)
EXTENDS Naturals, SequencesExt, FiniteSetTheorems, TLAPS

(* Every set of natural numbers has a least one: the initial segments are  *)
(* finite sets, and proper inclusion of finite sets is well-founded.       *)
LEMMA Least ==
  ASSUME NEW T, T \subseteq Nat, T # {}
  PROVE  \E m \in T : \A n \in T : m <= n
  <1> DEFINE U == {1..n : n \in T}
  <1>1. U \subseteq FiniteSubsetsOf(Nat)
    <2>1. \A n \in T : 1..n \subseteq Nat
      OBVIOUS
    <2>2. \A n \in T : IsFiniteSet(1..n)
      BY FS_Interval
    <2> QED
      BY <2>1, <2>2 DEF FiniteSubsetsOf
  <1>2. \E x \in U : \A y \in U : ~(<<y, x>> \in StrictSubsetOrdering(Nat))
    <2>1. U # {}
      OBVIOUS
    <2> QED
      BY <1>1, <2>1, FS_StrictSubsetOrderingWellFounded, WFMin
  <1>3. PICK m \in T : \A n \in T : ~(<<1..n, 1..m>> \in StrictSubsetOrdering(Nat))
    BY <1>2
  <1>4. ASSUME NEW n \in T, n < m
        PROVE  FALSE
    <2>1. 1..n \in FiniteSubsetsOf(Nat) /\ 1..m \in FiniteSubsetsOf(Nat)
      BY <1>1
    <2>2. 1..n \subseteq 1..m /\ m \in 1..m /\ m \notin 1..n
      BY <1>4
    <2>3. <<1..n, 1..m>> \in StrictSubsetOrdering(Nat)
      BY <2>1, <2>2 DEF StrictSubsetOrdering, FiniteSubsetsOf
    <2> QED
      BY <1>3, <2>3
  <1> QED
    BY <1>4

(* Induction, for a set instead of a predicate.                            *)
LEMMA SetInduction ==
  ASSUME NEW P, 0 \in P, \A n \in Nat : n \in P => n + 1 \in P
  PROVE  Nat \subseteq P
  <1> SUFFICES ASSUME Nat \ P # {} PROVE FALSE
    OBVIOUS
  <1>1. PICK m \in Nat \ P : \A n \in Nat \ P : m <= n
    BY Least
  <1>2. m # 0 /\ m - 1 \in Nat
    BY <1>1
  <1>3. m - 1 \in P
    BY <1>1, <1>2
  <1> QED
    BY <1>1, <1>2, <1>3

-----------------------------------------------------------------------------
(* f[i] is the concatenation of the first i sequences of s.                *)
Flattens(f, s) ==
  f = [i \in 1..Len(s) |-> IF i = 1 THEN s[i] ELSE f[i - 1] \o s[i]]

(* The next of these concatenations, ...                                   *)
LEMMA FlattensValue ==
  ASSUME NEW s, NEW f, Flattens(f, s), NEW n \in Nat, n # 0, n + 1 \in 1..Len(s)
  PROVE  f[n + 1] = f[n] \o s[n + 1]
  <1>1. \A i \in 1..Len(s) : f[i] = IF i = 1 THEN s[i] ELSE f[i - 1] \o s[i]
    BY DEF Flattens
  <1>2. n + 1 # 1 /\ (n + 1) - 1 = n
    OBVIOUS
  <1>3. f[n + 1] = f[(n + 1) - 1] \o s[n + 1]
    BY <1>1, <1>2
  <1> QED
    BY <1>2, <1>3

(* ... their type, ...                                                     *)
LEMMA FlattensType ==
  ASSUME NEW S, NEW s \in Seq(Seq(S)), NEW f, Flattens(f, s)
  PROVE  f \in [1..Len(s) -> Seq(S)]
  <1> DEFINE P == {n \in Nat : n \in 1..Len(s) => f[n] \in Seq(S)}
  <1>1. ASSUME NEW n \in Nat, n \in P
        PROVE  n + 1 \in P
    <2> SUFFICES ASSUME n + 1 \in 1..Len(s) PROVE f[n + 1] \in Seq(S)
      OBVIOUS
    <2>1. s[n + 1] \in Seq(S)
      OBVIOUS
    <2>2. CASE n = 0
      BY <2>1, <2>2 DEF Flattens
    <2>3. CASE n # 0
      <3>1. f[n] \in Seq(S)
        BY <1>1, <2>3
      <3>2. f[n + 1] = f[n] \o s[n + 1]
        BY <2>3, FlattensValue
      <3> QED
        BY <2>1, <3>1, <3>2
    <2> QED
      BY <2>2, <2>3
  <1>2. 0 \in P
    OBVIOUS
  <1>3. Nat \subseteq P
    <2> HIDE DEF P
    <2> QED
      BY <1>1, <1>2, SetInduction
  <1>4. \A n \in 1..Len(s) : f[n] \in Seq(S)
    BY <1>3
  <1>5. f = [i \in 1..Len(s) |-> f[i]]
    BY DEF Flattens
  <1> QED
    BY <1>4, <1>5

(* ... that they are determined by s, by induction on the index, ...       *)
LEMMA FlattensUnique ==
  ASSUME NEW S, NEW s \in Seq(Seq(S)), NEW f, NEW g, Flattens(f, s), Flattens(g, s)
  PROVE  f = g
  <1> DEFINE P == {n \in Nat : n \in 1..Len(s) => f[n] = g[n]}
  <1>1. ASSUME NEW n \in Nat, n \in P
        PROVE  n + 1 \in P
    <2> SUFFICES ASSUME n + 1 \in 1..Len(s) PROVE f[n + 1] = g[n + 1]
      OBVIOUS
    <2>1. CASE n = 0
      BY <2>1 DEF Flattens
    <2>2. CASE n # 0
      <3>1. f[n] = g[n]
        BY <1>1, <2>2
      <3>2. f[n + 1] = f[n] \o s[n + 1] /\ g[n + 1] = g[n] \o s[n + 1]
        BY <2>2, FlattensValue
      <3> QED
        BY <3>1, <3>2
    <2> QED
      BY <2>1, <2>2
  <1>2. 0 \in P
    OBVIOUS
  <1>3. Nat \subseteq P
    <2> HIDE DEF P
    <2> QED
      BY <1>1, <1>2, SetInduction
  <1>4. \A n \in 1..Len(s) : f[n] = g[n]
    BY <1>3
  <1>5. f = [i \in 1..Len(s) |-> f[i]] /\ g = [i \in 1..Len(s) |-> g[i]]
    BY DEF Flattens
  <1> QED
    BY <1>4, <1>5

(* One sequence more.                                                      *)
LEMMA FlattensAppend ==
  ASSUME NEW S, NEW s \in Seq(Seq(S)), NEW f, Flattens(f, s), NEW e \in Seq(S)
  PROVE  LET all == IF s = <<>> THEN e ELSE f[Len(s)] \o e
         IN  Flattens([i \in 1..(Len(s) + 1) |-> IF i = Len(s) + 1 THEN all ELSE f[i]],
                      Append(s, e))
  <1> DEFINE n == Len(s)
             all == IF s = <<>> THEN e ELSE f[n] \o e
             g == [i \in 1..(n + 1) |-> IF i = n + 1 THEN all ELSE f[i]]
             r == Append(s, e)
  <1>1. n \in Nat /\ Len(r) = n + 1 /\ r[n + 1] = e /\ \A i \in 1..n : r[i] = s[i]
    OBVIOUS
  <1>2. ASSUME NEW i \in 1..(n + 1)
        PROVE  g[i] = IF i = 1 THEN r[i] ELSE g[i - 1] \o r[i]
    <2>1. CASE i = n + 1
      <3>1. CASE n = 0
        BY <2>1, <3>1
      <3>2. CASE n # 0
        <4>1. g[i] = f[n] \o e /\ r[i] = e /\ i # 1 /\ i - 1 = n
          BY <1>1, <2>1, <3>2
        <4>2. g[n] = f[n]
          BY <1>1, <3>2
        <4> HIDE DEF g, r
        <4> QED
          BY <4>1, <4>2
      <3> QED
        BY <3>1, <3>2
    <2>2. CASE i # n + 1
      <3>1. i \in 1..n /\ g[i] = f[i] /\ r[i] = s[i]
        BY <1>1, <2>2
      <3>2. f[i] = IF i = 1 THEN s[i] ELSE f[i - 1] \o s[i]
        BY <3>1 DEF Flattens
      <3>3. i # 1 => g[i - 1] = f[i - 1]
        BY <1>1, <3>1
      <3> QED
        BY <3>1, <3>2, <3>3
    <2> QED
      BY <2>1, <2>2
  <1>3. g = [i \in 1..Len(r) |-> g[i]]
    BY <1>1
  <1> HIDE DEF g
  <1>4. g = [i \in 1..Len(r) |-> IF i = 1 THEN r[i] ELSE g[i - 1] \o r[i]]
    BY <1>1, <1>2, <1>3
  <1>5. Flattens(g, r)
    BY <1>4 DEF Flattens
  <1> QED
    BY <1>5 DEF g

(* A sequence that is not empty is its front and its last element.         *)
LEMMA FrontAndLast ==
  ASSUME NEW S, NEW s \in Seq(S), NEW n \in Nat, Len(s) = n + 1
  PROVE  /\ SubSeq(s, 1, n) \in Seq(S) /\ Len(SubSeq(s, 1, n)) = n
         /\ s[n + 1] \in S
         /\ s = Append(SubSeq(s, 1, n), s[n + 1])
  <1>1. SubSeq(s, 1, n) \in Seq(S) /\ Len(SubSeq(s, 1, n)) = n /\ s[n + 1] \in S
    OBVIOUS
  <1>2. \A i \in 1..(n + 1) : s[i] = Append(SubSeq(s, 1, n), s[n + 1])[i]
    BY <1>1
  <1>3. Len(Append(SubSeq(s, 1, n), s[n + 1])) = n + 1
    BY <1>1
  <1> QED
    BY <1>1, <1>2, <1>3

(* ... and that there are such, by induction on the length.                *)
LEMMA FlattensExists ==
  ASSUME NEW S
  PROVE  \A s \in Seq(Seq(S)) : \E f : Flattens(f, s)
  <1> DEFINE P == {n \in Nat : \A s \in Seq(Seq(S)) : Len(s) = n => \E f : Flattens(f, s)}
  <1>1. 0 \in P
    <2> SUFFICES ASSUME NEW s \in Seq(Seq(S)), Len(s) = 0
                 PROVE  \E f : Flattens(f, s)
      OBVIOUS
    <2>1. Flattens([i \in {} |-> 0], s)
      BY DEF Flattens
    <2> QED
      BY <2>1
  <1>2. ASSUME NEW n \in Nat, n \in P
        PROVE  n + 1 \in P
    <2> SUFFICES ASSUME NEW s \in Seq(Seq(S)), Len(s) = n + 1
                 PROVE  \E f : Flattens(f, s)
      OBVIOUS
    <2> DEFINE r == SubSeq(s, 1, n)
    <2>1. r \in Seq(Seq(S)) /\ Len(r) = n /\ s[n + 1] \in Seq(S)
          /\ s = Append(r, s[n + 1])
      BY FrontAndLast
    <2> HIDE DEF r
    <2>2. PICK f : Flattens(f, r)
      BY <1>2, <2>1
    <2> QED
      BY <2>1, <2>2, FlattensAppend
  <1>3. Nat \subseteq P
    <2> HIDE DEF P
    <2> QED
      BY <1>1, <1>2, SetInduction
  <1> QED
    BY <1>3

-----------------------------------------------------------------------------
(* FlattenSeq is what the function ends with.                              *)
LEMMA FlattenIs ==
  ASSUME NEW S, NEW s \in Seq(Seq(S)), NEW f, Flattens(f, s)
  PROVE  FlattenSeq(s) = IF s = <<>> THEN <<>> ELSE f[Len(s)]
  <1>1. CASE Len(s) = 0
    <2>1. FlattenSeq(s) = s
      BY <1>1 DEF FlattenSeq
    <2> QED
      BY <1>1, <2>1
  <1>2. CASE Len(s) # 0
    <2>1. FlattenSeq(s) =
            (CHOOSE g : g = [i \in 1..Len(s) |->
                               IF i = 1 THEN s[i] ELSE g[i - 1] \o s[i]])[Len(s)]
      BY <1>2 DEF FlattenSeq
    <2>2. FlattenSeq(s) = (CHOOSE g : Flattens(g, s))[Len(s)]
      BY <2>1 DEF Flattens
    <2>3. Flattens((CHOOSE g : Flattens(g, s)), s)
      OBVIOUS
    <2>4. (CHOOSE g : Flattens(g, s)) = f
      BY <2>3, FlattensUnique
    <2>5. s # <<>>
      BY <1>2
    <2>6. FlattenSeq(s) = f[Len(s)]
      BY <2>2, <2>4, Zenon
    <2> QED
      BY <2>5, <2>6
  <1> QED
    BY <1>1, <1>2

(* FlattenSeq of no sequences.                                             *)
THEOREM FlattenEmpty == FlattenSeq(<<>>) = <<>>
  BY DEF FlattenSeq

(* FlattenSeq of sequences over a set is a sequence over it.               *)
THEOREM FlattenType ==
  ASSUME NEW S, NEW s \in Seq(Seq(S))
  PROVE  FlattenSeq(s) \in Seq(S)
  <1>1. PICK f : Flattens(f, s)
    BY FlattensExists
  <1>2. f \in [1..Len(s) -> Seq(S)]
    BY <1>1, FlattensType
  <1>3. CASE s = <<>>
    <2>1. <<>> \in Seq(S)
      OBVIOUS
    <2> QED
      BY <1>3, <2>1, FlattenEmpty, Zenon
  <1>4. CASE s # <<>>
    <2>1. Len(s) \in 1..Len(s)
      BY <1>4
    <2>2. FlattenSeq(s) = f[Len(s)]
      BY <1>1, <1>4, FlattenIs
    <2> QED
      BY <1>2, <2>1, <2>2
  <1> QED
    BY <1>3, <1>4

(* FlattenSeq of one sequence more.                                        *)
THEOREM FlattenAppend ==
  ASSUME NEW S, NEW s \in Seq(Seq(S)), NEW e \in Seq(S)
  PROVE  FlattenSeq(Append(s, e)) = FlattenSeq(s) \o e
  <1>1. PICK f : Flattens(f, s)
    BY FlattensExists
  <1> DEFINE all == IF s = <<>> THEN e ELSE f[Len(s)] \o e
             g == [i \in 1..(Len(s) + 1) |-> IF i = Len(s) + 1 THEN all ELSE f[i]]
  <1>2. Flattens(g, Append(s, e))
    BY <1>1, FlattensAppend
  <1>3. Append(s, e) \in Seq(Seq(S)) /\ Append(s, e) # <<>>
        /\ Len(Append(s, e)) = Len(s) + 1
    <2>1. \A T : \A q \in Seq(T), x \in T :
            /\ Append(q, x) \in Seq(T) /\ Append(q, x) # <<>>
            /\ Len(Append(q, x)) = Len(q) + 1
      OBVIOUS
    <2> QED
      BY <2>1
  <1>4. g[Len(s) + 1] = all
    OBVIOUS
  <1> HIDE DEF g
  <1>5. FlattenSeq(Append(s, e)) = g[Len(s) + 1]
    BY <1>2, <1>3, FlattenIs
  <1>6. FlattenSeq(s) = IF s = <<>> THEN <<>> ELSE f[Len(s)]
    BY <1>1, FlattenIs
  <1>7. <<>> \o e = e
    OBVIOUS
  <1> QED
    BY <1>4, <1>5, <1>6, <1>7

-----------------------------------------------------------------------------
(* Induction over sequences, for a set instead of a predicate.             *)
LEMMA SeqInduction ==
  ASSUME NEW T, NEW P, <<>> \in P,
         \A s \in Seq(T), x \in T : s \in P => Append(s, x) \in P
  PROVE  Seq(T) \subseteq P
  <1> DEFINE Q == {n \in Nat : \A s \in Seq(T) : Len(s) = n => s \in P}
  <1>1. 0 \in Q
    <2> SUFFICES ASSUME NEW s \in Seq(T), Len(s) = 0 PROVE s \in P
      OBVIOUS
    <2>1. s = <<>>
      OBVIOUS
    <2> QED
      BY <2>1
  <1>2. ASSUME NEW n \in Nat, n \in Q
        PROVE  n + 1 \in Q
    <2> SUFFICES ASSUME NEW s \in Seq(T), Len(s) = n + 1 PROVE s \in P
      OBVIOUS
    <2> DEFINE r == SubSeq(s, 1, n)
    <2>1. r \in Seq(T) /\ Len(r) = n /\ s[n + 1] \in T /\ s = Append(r, s[n + 1])
      BY FrontAndLast
    <2> HIDE DEF r
    <2>2. r \in P
      BY <1>2, <2>1
    <2>3. Append(r, s[n + 1]) \in P
      BY <2>1, <2>2
    <2> QED
      BY <2>1, <2>3
  <1>3. Nat \subseteq Q
    <2> HIDE DEF Q
    <2> QED
      BY <1>1, <1>2, SetInduction
  <1> QED
    BY <1>3

(* The elements of the result are those of the sequences.                  *)
Among(x, s) == \E n \in 1..Len(s) : \E j \in 1..Len(s[n]) : x = s[n][j]

(* Every element of a concatenation is one of its parts'.                  *)
THEOREM FlattenElements ==
  ASSUME NEW S, NEW s \in Seq(Seq(S))
  PROVE  \A k \in 1..Len(FlattenSeq(s)) : Among(FlattenSeq(s)[k], s)
  <1> DEFINE P == {q \in Seq(Seq(S)) :
                     \A k \in 1..Len(FlattenSeq(q)) : Among(FlattenSeq(q)[k], q)}
  <1>1. <<>> \in P
    <2>1. <<>> \in Seq(Seq(S)) /\ Len(FlattenSeq(<<>>)) = 0
      BY FlattenEmpty
    <2> QED
      BY <2>1
  <1>2. ASSUME NEW q \in Seq(Seq(S)), NEW e \in Seq(S), q \in P
        PROVE  Append(q, e) \in P
    <2> DEFINE r == Append(q, e)
    <2>1. /\ r \in Seq(Seq(S)) /\ Len(r) = Len(q) + 1 /\ r[Len(q) + 1] = e
          /\ \A n \in 1..Len(q) : r[n] = q[n]
      OBVIOUS
    <2>2. FlattenSeq(r) = FlattenSeq(q) \o e /\ FlattenSeq(q) \in Seq(S)
      BY FlattenAppend, FlattenType
    <2>3. ASSUME NEW k \in 1..Len(FlattenSeq(r))
          PROVE  Among(FlattenSeq(r)[k], r)
      <3>1. CASE k <= Len(FlattenSeq(q))
        <4>1. k \in 1..Len(FlattenSeq(q)) /\ FlattenSeq(r)[k] = FlattenSeq(q)[k]
          BY <2>2, <3>1
        <4>2. Among(FlattenSeq(q)[k], q)
          BY <1>2, <4>1
        <4>3. \A n \in 1..Len(q) : n \in 1..Len(r) /\ r[n] = q[n]
          BY <2>1
        <4> HIDE DEF r
        <4> QED
          BY <4>1, <4>2, <4>3 DEF Among
      <3>2. CASE k > Len(FlattenSeq(q))
        <4> DEFINE j == k - Len(FlattenSeq(q))
        <4>1. j \in 1..Len(e) /\ FlattenSeq(r)[k] = e[j]
          BY <2>2, <3>2
        <4>2. Len(q) + 1 \in 1..Len(r)
          BY <2>1
        <4> HIDE DEF r, j
        <4> QED
          BY <2>1, <4>1, <4>2 DEF Among
      <3> QED
        BY <2>2, <3>1, <3>2
    <2> HIDE DEF r
    <2>4. r \in P
      BY <2>1, <2>3
    <2> QED
      BY <2>4 DEF r
  <1>3. Seq(Seq(S)) \subseteq P
    <2> HIDE DEF P
    <2> QED
      BY <1>1, <1>2, SeqInduction
  <1> QED
    BY <1>3

(* Sequence n is at positions b + 1 to b + Len(s[n]) of the result, and at *)
(* the other positions are elements of the other sequences.                *)
Block(s, n, b) ==
  /\ b + Len(s[n]) <= Len(FlattenSeq(s))
  /\ \A j \in 1..Len(s[n]) : FlattenSeq(s)[b + j] = s[n][j]
  /\ \A k \in 1..Len(FlattenSeq(s)) :
       \/ k \in (b + 1)..(b + Len(s[n]))
       \/ \E m \in 1..Len(s) : m # n /\ \E j \in 1..Len(s[m]) : FlattenSeq(s)[k] = s[m][j]

(* Every part is a block of the concatenation, and what is outside the     *)
(* block comes from the other parts.                                       *)
THEOREM FlattenBlock ==
  ASSUME NEW S, NEW s \in Seq(Seq(S))
  PROVE  \A n \in 1..Len(s) : \E b \in Nat : Block(s, n, b)
  <1> DEFINE P == {q \in Seq(Seq(S)) : \A n \in 1..Len(q) : \E b \in Nat : Block(q, n, b)}
  <1>1. <<>> \in P
    OBVIOUS
  <1>2. ASSUME NEW q \in Seq(Seq(S)), NEW e \in Seq(S), q \in P
        PROVE  Append(q, e) \in P
    <2> DEFINE r == Append(q, e)
               F == FlattenSeq(q)
               G == FlattenSeq(r)
    <2>1. /\ r \in Seq(Seq(S)) /\ Len(r) = Len(q) + 1 /\ r[Len(q) + 1] = e
          /\ \A n \in 1..Len(q) : r[n] = q[n] /\ q[n] \in Seq(S)
      OBVIOUS
    <2>2. G = F \o e /\ F \in Seq(S)
      BY FlattenAppend, FlattenType
    <2>3. /\ Len(G) = Len(F) + Len(e) /\ Len(F) \in Nat /\ Len(e) \in Nat
          /\ \A k \in 1..Len(F) : G[k] = F[k]
          /\ \A j \in 1..Len(e) : G[Len(F) + j] = e[j]
      <3> HIDE DEF F, G
      <3> QED
        BY <2>2
    <2> HIDE DEF r, F, G
    <2>4. ASSUME NEW n \in 1..Len(q)
          PROVE  \E b \in Nat : Block(r, n, b)
      <3>1. PICK b \in Nat : Block(q, n, b)
        BY <1>2
      <3>2. b + Len(q[n]) <= Len(F) /\ Len(q[n]) \in Nat /\ r[n] = q[n]
        BY <2>1, <3>1 DEF Block, F
      <3>3. b + Len(r[n]) <= Len(G)
        BY <2>3, <3>2
      <3>4. ASSUME NEW j \in 1..Len(r[n])
            PROVE  G[b + j] = r[n][j]
        <4>1. b + j \in 1..Len(F)
          BY <2>3, <3>2
        <4> QED
          BY <2>3, <3>1, <3>2, <4>1 DEF Block, F
      <3>5. ASSUME NEW k \in 1..Len(G), k \notin (b + 1)..(b + Len(r[n]))
            PROVE  \E m \in 1..Len(r) : m # n /\ \E j \in 1..Len(r[m]) : G[k] = r[m][j]
        <4>1. CASE k \in 1..Len(F)
          <5>1. PICK m \in 1..Len(q) : m # n /\ \E j \in 1..Len(q[m]) : F[k] = q[m][j]
            BY <3>1, <3>2, <3>5, <4>1 DEF Block, F
          <5>2. m \in 1..Len(r) /\ r[m] = q[m] /\ G[k] = F[k]
            BY SMTT(30), <2>1, <2>3, <4>1
          <5> QED
            BY <5>1, <5>2
        <4>2. CASE k \notin 1..Len(F)
          <5> DEFINE j == k - Len(F)
          <5>1. j \in 1..Len(e) /\ k = Len(F) + j
            BY <2>3, <4>2
          <5> HIDE DEF j
          <5>2. G[k] = e[j] /\ Len(q) + 1 \in 1..Len(r) /\ Len(q) + 1 # n
            BY SMTT(30), <2>1, <2>3, <5>1
          <5> QED
            BY <2>1, <5>1, <5>2
        <4> QED
          BY <4>1, <4>2
      <3> QED
        BY <3>3, <3>4, <3>5 DEF Block, G
    <2>5. Block(r, Len(q) + 1, Len(F))
      <3>1. ASSUME NEW k \in 1..Len(G), k \notin (Len(F) + 1)..(Len(F) + Len(e))
            PROVE  \E m \in 1..Len(r) : /\ m # Len(q) + 1
                                       /\ \E j \in 1..Len(r[m]) : G[k] = r[m][j]
        <4>1. k \in 1..Len(F) /\ G[k] = F[k]
          BY <2>3, <3>1
        <4>2. PICK m \in 1..Len(q) : \E j \in 1..Len(q[m]) : F[k] = q[m][j]
          BY <4>1, FlattenElements DEF Among, F
        <4>3. m \in 1..Len(r) /\ r[m] = q[m] /\ m # Len(q) + 1
          BY <2>1
        <4> QED
          BY <4>1, <4>2, <4>3
      <3> QED
        BY <2>1, <2>3, <3>1 DEF Block, G
    <2>6. r \in P
      <3>1. ASSUME NEW n \in 1..Len(r)
            PROVE  \E b \in Nat : Block(r, n, b)
        <4>1. n \in 1..Len(q) \/ n = Len(q) + 1
          BY <2>1
        <4> QED
          BY <2>3, <2>4, <2>5, <4>1
      <3> QED
        BY <2>1, <3>1
    <2> QED
      BY <2>6 DEF r
  <1>3. Seq(Seq(S)) \subseteq P
    <2> HIDE DEF P
    <2> QED
      BY <1>1, <1>2, SeqInduction
  <1> QED
    BY <1>3

(* Sequences of one element each.                                          *)
THEOREM FlattenSingles ==
  ASSUME NEW S, NEW s \in Seq(S)
  PROVE  FlattenSeq([i \in 1..Len(s) |-> <<s[i]>>]) = s
  <1> DEFINE Ones(q) == [i \in 1..Len(q) |-> <<q[i]>>]
             P == {q \in Seq(S) : FlattenSeq(Ones(q)) = q}
  <1>1. <<>> \in P
    <2>1. Ones(<<>>) = <<>> /\ <<>> \in Seq(S)
      OBVIOUS
    <2> QED
      BY <2>1, FlattenEmpty
  <1>2. ASSUME NEW q \in Seq(S), NEW x \in S, q \in P
        PROVE  Append(q, x) \in P
    <2>1. /\ Ones(q) \in Seq(Seq(S)) /\ Len(Ones(q)) = Len(q)
          /\ \A i \in 1..Len(q) : Ones(q)[i] = <<q[i]>>
      OBVIOUS
    <2>2. /\ Append(q, x) \in Seq(S) /\ Len(Append(q, x)) = Len(q) + 1
          /\ Append(q, x)[Len(q) + 1] = x /\ <<x>> \in Seq(S)
          /\ \A i \in 1..Len(q) : Append(q, x)[i] = q[i]
      OBVIOUS
    <2>3. Ones(Append(q, x)) = Append(Ones(q), <<x>>)
      <3> DEFINE A == Ones(Append(q, x))
                 B == Append(Ones(q), <<x>>)
      <3>1. /\ Len(A) = Len(q) + 1 /\ A = [i \in 1..(Len(q) + 1) |-> A[i]]
            /\ A[Len(q) + 1] = <<x>> /\ \A i \in 1..Len(q) : A[i] = <<q[i]>>
        BY <2>2
      <3> HIDE DEF Ones
      <3>2. /\ Len(B) = Len(q) + 1 /\ B = [i \in 1..(Len(q) + 1) |-> B[i]]
            /\ B[Len(q) + 1] = <<x>> /\ \A i \in 1..Len(q) : B[i] = <<q[i]>>
        BY <2>1, <2>2
      <3> HIDE DEF A, B
      <3>3. ASSUME NEW i \in 1..(Len(q) + 1)
            PROVE  A[i] = B[i]
        <4>1. i \in 1..Len(q) \/ i = Len(q) + 1
          OBVIOUS
        <4>2. CASE i \in 1..Len(q)
          <5>1. A[i] = <<q[i]>>
            BY <3>1, <4>2
          <5>2. B[i] = <<q[i]>>
            BY <3>2, <4>2
          <5> QED
            BY <5>1, <5>2
        <4>3. CASE i = Len(q) + 1
          BY <3>1, <3>2, <4>3, Zenon
        <4> QED
          BY <4>1, <4>2, <4>3
      <3>4. A = B
        <4>1. [i \in 1..(Len(q) + 1) |-> A[i]] = [i \in 1..(Len(q) + 1) |-> B[i]]
          BY <3>3
        <4> QED
          BY <3>1, <3>2, <4>1, Zenon
      <3> QED
        BY <3>4 DEF A, B
    <2> HIDE DEF Ones
    <2>4. FlattenSeq(Append(Ones(q), <<x>>)) = FlattenSeq(Ones(q)) \o <<x>>
      BY <2>1, <2>2, FlattenAppend
    <2>5. q \o <<x>> = Append(q, x)
      OBVIOUS
    <2> QED
      BY <1>2, <2>2, <2>3, <2>4, <2>5
  <1>3. Seq(S) \subseteq P
    <2> HIDE DEF P
    <2> QED
      BY <1>1, <1>2, SeqInduction
  <1> QED
    BY <1>3

-----------------------------------------------------------------------------
(* What is in a concatenation, by position.                                *)
LEMMA Behind ==
  ASSUME NEW S, NEW q \in Seq(S), NEW A \in Seq(S), NEW k \in Nat, Len(q) = k
  PROVE  /\ q \o A \in Seq(S) /\ Len(q \o A) = k + Len(A)
         /\ \A i \in 1..k : (q \o A)[i] = q[i]
         /\ \A i \in 1..Len(A) : (q \o A)[k + i] = A[i]
  OBVIOUS

(* Append, element by element.                                             *)
LEMMA AppendIs ==
  ASSUME NEW S, NEW q \in Seq(S), NEW e \in S, NEW k \in Nat, Len(q) = k
  PROVE  /\ Append(q, e) = [i \in 1..(k + 1) |-> Append(q, e)[i]]
         /\ Append(q, e)[k + 1] = e
         /\ \A i \in 1..k : Append(q, e)[i] = q[i]
  <1>1. Append(q, e) \in Seq(S) /\ Len(Append(q, e)) = k + 1
    OBVIOUS
  <1>4. Append(q, e) = [i \in 1..(k + 1) |-> Append(q, e)[i]]
    <2> DEFINE r == Append(q, e)
    <2>1. r \in Seq(S) /\ Len(r) = k + 1
      BY <1>1
    <2> HIDE DEF r
    <2>2. r \in [1..(k + 1) -> S]
      BY <2>1
    <2>3. r = [i \in 1..(k + 1) |-> r[i]]
      BY <2>2
    <2> QED
      BY <2>3 DEF r
  <1>5. Append(q, e)[k + 1] = e /\ \A i \in 1..k : Append(q, e)[i] = q[i]
    OBVIOUS
  <1> QED
    BY <1>4, <1>5, Zenon

(* A sequence behind three elements, or behind two.                        *)
LEMMA ThreeThen ==
  ASSUME NEW S, NEW x \in S, NEW y \in S, NEW z \in S, NEW A \in Seq(S)
  PROVE  LET r == <<x>> \o <<y>> \o <<z>> \o A
         IN  /\ r \in Seq(S) /\ Len(r) = 3 + Len(A)
             /\ r[1] = x /\ r[2] = y /\ r[3] = z
             /\ \A i \in 1..Len(A) : r[3 + i] = A[i]
  <1> DEFINE q == <<x>> \o <<y>> \o <<z>>
             k == 3
  <1>1. q \in Seq(S) /\ Len(q) = 3 /\ q[1] = x /\ q[2] = y /\ q[3] = z
    OBVIOUS
  <1>2. k \in Nat /\ Len(q) = k /\ 1 \in 1..k /\ 2 \in 1..k /\ 3 \in 1..k
    BY <1>1
  <1> HIDE DEF k, q
  <1>3. /\ q \o A \in Seq(S) /\ Len(q \o A) = k + Len(A)
        /\ \A i \in 1..k : (q \o A)[i] = q[i]
        /\ \A i \in 1..Len(A) : (q \o A)[k + i] = A[i]
    BY <1>1, <1>2, Behind
  <1>4. /\ (q \o A)[1] = q[1] /\ (q \o A)[2] = q[2] /\ (q \o A)[3] = q[3]
    BY <1>2, <1>3
  <1> QED
    BY <1>1, <1>3, <1>4 DEF q, k

(* Two elements, then a sequence.                                          *)
LEMMA TwoThen ==
  ASSUME NEW S, NEW x \in S, NEW z \in S, NEW A \in Seq(S)
  PROVE  LET r == <<x>> \o <<>> \o <<z>> \o A
         IN  /\ r \in Seq(S) /\ Len(r) = 2 + Len(A)
             /\ r[1] = x /\ r[2] = z
             /\ \A i \in 1..Len(A) : r[2 + i] = A[i]
  <1> DEFINE q == <<x>> \o <<>> \o <<z>>
             k == 2
  <1>1. q \in Seq(S) /\ Len(q) = 2 /\ q[1] = x /\ q[2] = z
    OBVIOUS
  <1>2. k \in Nat /\ Len(q) = k /\ 1 \in 1..k /\ 2 \in 1..k
    BY <1>1
  <1> HIDE DEF k, q
  <1>3. /\ q \o A \in Seq(S) /\ Len(q \o A) = k + Len(A)
        /\ \A i \in 1..k : (q \o A)[i] = q[i]
        /\ \A i \in 1..Len(A) : (q \o A)[k + i] = A[i]
    BY <1>1, <1>2, Behind
  <1>4. /\ (q \o A)[1] = q[1] /\ (q \o A)[2] = q[2]
    BY <1>2, <1>3
  <1> QED
    BY <1>1, <1>3, <1>4 DEF q, k

-----------------------------------------------------------------------------
(* A function of every element of a sequence.                              *)
Each(f, q) == [i \in 1..Len(q) |-> f[q[i]]]

ValuesOn(f, A) == {f[a] : a \in A}

(* The values it has there.                                                *)
LEMMA EachType ==
  ASSUME NEW A, NEW f, NEW p \in Seq(A)
  PROVE  Each(f, p) \in Seq(ValuesOn(f, A))
  <1>1. \A a \in A : f[a] \in ValuesOn(f, A)
    BY DEF ValuesOn
  <1> QED
    BY <1>1 DEF Each

(* A concatenation of two, by position.                                    *)
LEMMA Joined ==
  ASSUME NEW S, NEW x \in Seq(S), NEW y \in Seq(S)
  PROVE  /\ x \o y \in Seq(S) /\ Len(x \o y) = Len(x) + Len(y)
         /\ \A i \in 1..Len(x) : (x \o y)[i] = x[i]
         /\ \A j \in 1..Len(y) : (x \o y)[Len(x) + j] = y[j]
  OBVIOUS

(* It is applied to the parts of a concatenation.                          *)
LEMMA EachJoined ==
  ASSUME NEW A, NEW f, NEW p \in Seq(A), NEW q \in Seq(A),
         NEW B, NEW x \in Seq(B), NEW y \in Seq(B), x = Each(f, p), y = Each(f, q)
  PROVE  Each(f, p \o q) = x \o y
  <1> DEFINE E == Each(f, p \o q)
             F == x \o y
             n == Len(p)
             m == Len(q)
  <1>1. /\ p \o q \in Seq(A) /\ Len(p \o q) = n + m /\ n \in Nat /\ m \in Nat
        /\ \A i \in 1..n : (p \o q)[i] = p[i]
        /\ \A j \in 1..m : (p \o q)[n + j] = q[j]
    OBVIOUS
  <1>2. /\ Len(x) = n /\ \A i \in 1..n : x[i] = f[p[i]]
        /\ Len(y) = m /\ \A j \in 1..m : y[j] = f[q[j]]
    BY <1>1 DEF Each
  <1>3. E = [i \in 1..(n + m) |-> E[i]] /\ \A i \in 1..(n + m) : E[i] = f[(p \o q)[i]]
    BY <1>1 DEF Each
  <1>4. /\ F \in Seq(B) /\ Len(F) = n + m
        /\ \A i \in 1..n : F[i] = x[i]
        /\ \A j \in 1..m : F[n + j] = y[j]
    <2> HIDE DEF n, m, E, F
    <2>1. /\ F \in Seq(B) /\ Len(F) = Len(x) + Len(y)
          /\ \A i \in 1..Len(x) : F[i] = x[i]
          /\ \A j \in 1..Len(y) : F[Len(x) + j] = y[j]
      BY Joined DEF F
    <2> QED
      BY <1>2, <2>1
  <1>5. F = [i \in 1..(n + m) |-> F[i]]
    <2> HIDE DEF F
    <2>1. F \in [1..(n + m) -> B]
      BY <1>4
    <2> QED
      BY <2>1
  <1> HIDE DEF E, F
  <1>6. ASSUME NEW i \in 1..(n + m) PROVE E[i] = F[i]
    <2>1. CASE i \in 1..n
      <3>1. E[i] = f[p[i]]
        BY <1>1, <1>3, <2>1
      <3>2. F[i] = f[p[i]]
        BY <1>2, <1>4, <2>1
      <3> QED
        BY <3>1, <3>2
    <2>2. CASE i \notin 1..n
      <3> DEFINE j == i - n
      <3>1. j \in 1..m /\ i = n + j
        BY <1>1, <2>2
      <3> HIDE DEF j
      <3>2. E[i] = f[q[j]]
        BY <1>1, <1>3, <3>1
      <3>3. F[i] = f[q[j]]
        BY <1>2, <1>4, <3>1
      <3> QED
        BY <3>2, <3>3
    <2> QED
      BY <2>1, <2>2
  <1>7. [i \in 1..(n + m) |-> E[i]] = [i \in 1..(n + m) |-> F[i]]
    BY <1>6, Zenon
  <1>8. E = F
    BY <1>3, <1>5, <1>7, Zenon
  <1> QED
    BY <1>8 DEF E, F

(* The same, without names for the parts.                                  *)
LEMMA EachBoth ==
  ASSUME NEW A, NEW f, NEW p \in Seq(A), NEW q \in Seq(A)
  PROVE  Each(f, p \o q) = Each(f, p) \o Each(f, q)
  <1>1. Each(f, p) \in Seq(ValuesOn(f, A)) /\ Each(f, q) \in Seq(ValuesOn(f, A))
    BY EachType
  <1> QED
    BY <1>1, EachJoined

(* Applied to a concatenation of many, it is applied to each of them.      *)
THEOREM FlattenEach ==
  ASSUME NEW A, NEW f, NEW s \in Seq(Seq(A))
  PROVE  Each(f, FlattenSeq(s)) = FlattenSeq([n \in 1..Len(s) |-> Each(f, s[n])])
  <1> DEFINE B == ValuesOn(f, A)
             Parts(q) == [n \in 1..Len(q) |-> Each(f, q[n])]
             P == {q \in Seq(Seq(A)) : Each(f, FlattenSeq(q)) = FlattenSeq(Parts(q))}
  <1>1. <<>> \in P
    <2>1. Parts(<<>>) = <<>> /\ <<>> \in Seq(Seq(A)) /\ Each(f, <<>>) = <<>>
      BY DEF Each
    <2> HIDE DEF Parts
    <2> QED
      BY <2>1, FlattenEmpty
  <1>2. ASSUME NEW q \in Seq(Seq(A)), NEW e \in Seq(A), q \in P
        PROVE  Append(q, e) \in P
    <2> DEFINE r == Append(q, e)
               n == Len(q)
    <2>1. /\ r \in Seq(Seq(A)) /\ Len(r) = n + 1 /\ r[n + 1] = e /\ n \in Nat
          /\ \A i \in 1..n : r[i] = q[i] /\ q[i] \in Seq(A)
      OBVIOUS
    <2>2. ASSUME NEW p \in Seq(A) PROVE Each(f, p) \in Seq(B)
      BY EachType
    <2> HIDE DEF B
    <2>3. Parts(q) \in Seq(Seq(B)) /\ Len(Parts(q)) = n
          /\ \A i \in 1..n : Parts(q)[i] = Each(f, q[i])
      BY <2>1, <2>2
    <2>4. Parts(r) = [i \in 1..(n + 1) |-> Each(f, r[i])]
      BY <2>1
    <2> HIDE DEF Parts, r, n
    <2>5. /\ Append(Parts(q), Each(f, e)) = [i \in 1..(n + 1) |-> Append(Parts(q), Each(f, e))[i]]
          /\ Append(Parts(q), Each(f, e))[n + 1] = Each(f, e)
          /\ \A i \in 1..n : Append(Parts(q), Each(f, e))[i] = Parts(q)[i]
      <3>1. Each(f, e) \in Seq(B)
        BY <2>2
      <3> QED
        BY <2>1, <2>3, <3>1, AppendIs
    <2>6. Parts(r) = Append(Parts(q), Each(f, e))
      <3> DEFINE G == Append(Parts(q), Each(f, e))
      <3>1. ASSUME NEW i \in 1..(n + 1) PROVE Each(f, r[i]) = G[i]
        <4>1. i \in 1..n \/ i = n + 1
          BY <2>1
        <4> HIDE DEF G
        <4>2. G[n + 1] = Each(f, e) /\ \A j \in 1..n : G[j] = Each(f, q[j])
          BY <2>3, <2>5 DEF G
        <4>3. CASE i \in 1..n
          <5>1. r[i] = q[i]
            BY <2>1, <4>3
          <5> QED
            BY <4>2, <4>3, <5>1
        <4>4. CASE i = n + 1
          BY <2>1, <4>2, <4>4
        <4> QED
          BY <4>1, <4>3, <4>4
      <3>2. [i \in 1..(n + 1) |-> Each(f, r[i])] = [i \in 1..(n + 1) |-> G[i]]
        BY <3>1, Zenon
      <3> QED
        BY <2>4, <2>5, <3>2, Zenon
    <2>7. FlattenSeq(Parts(r)) = FlattenSeq(Parts(q)) \o Each(f, e)
      BY <2>2, <2>3, <2>6, FlattenAppend
    <2>8. FlattenSeq(r) = FlattenSeq(q) \o e /\ FlattenSeq(q) \in Seq(A)
      BY FlattenAppend, FlattenType DEF r
    <2>9. Each(f, FlattenSeq(r)) = Each(f, FlattenSeq(q)) \o Each(f, e)
      <3> DEFINE p == FlattenSeq(q)
      <3>1. p \in Seq(A) /\ FlattenSeq(r) = p \o e
        BY <2>8
      <3> HIDE DEF p
      <3>2. Each(f, p \o e) = Each(f, p) \o Each(f, e)
        BY <3>1, EachBoth
      <3> QED
        BY <3>1, <3>2 DEF p
    <2>10. Each(f, FlattenSeq(r)) = FlattenSeq(Parts(r))
      BY <1>2, <2>7, <2>9
    <2> QED
      BY <2>1, <2>10 DEF r
  <1>3. Seq(Seq(A)) \subseteq P
    <2> HIDE DEF P
    <2> QED
      BY <1>1, <1>2, SeqInduction
  <1> QED
    BY <1>3

(* The position SelectInSeq finds is one of an element it looks for.       *)
LEMMA SelectIs ==
  ASSUME NEW q \in Seq(Nat), NEW r, NEW i \in 1..Len(q), q[i] = r
  PROVE  /\ SelectInSeq(q, LAMBDA x : x = r) \in 1..Len(q)
         /\ q[SelectInSeq(q, LAMBDA x : x = r)] = r
  <1> DEFINE I == {j \in 1..Len(q) : q[j] = r}
  <1>1. I # {} /\ I \subseteq Nat /\ I \subseteq 1..Len(q)
    OBVIOUS
  <1>2. SelectInSeq(q, LAMBDA x : x = r) = Min(I)
    BY <1>1 DEF SelectInSeq
  <1> HIDE DEF I
  <1>3. Min(I) \in I
    BY <1>1, Least DEF Min
  <1> QED
    BY <1>2, <1>3 DEF I
=============================================================================
