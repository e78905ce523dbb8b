---------------------------- MODULE ConfigProofs ----------------------------
(***************************************************************************)
(* Machine-checked proofs about Config, for any number of threads, names   *)
(* and files, and for any types and conversions: a name keeps its type, a  *)
(* value is made by the conversion of its variable's type, and a file      *)
(* reaches every variable that its load has for itself.                    *)
(***************************************************************************)
EXTENDS Config, TLAPS

AnyValue == UNION {Values[T] : T \in Type}

-----------------------------------------------------------------------------
(* The registry and the variables.                                         *)

RegistryInv ==
  /\ datas \in [Key -> 0..Len(type)]
  /\ type \in Seq(Type) /\ named \in Seq(Key) /\ val \in Seq(AnyValue)
  /\ Len(val) = Len(type) /\ Len(named) = Len(type)
  /\ \A k \in Key : datas[k] # 0 => named[datas[k]] = k
  /\ \A v \in 1..Len(type) : val[v] \in Values[type[v]]

(* What a load carries: the rest of its file, and the variable it found    *)
(* for the first node of that rest.                                        *)
LoadType ==
  /\ rest \in [Thread -> Seq(Nodes)]
  /\ file \in [Thread -> Files \cup {<<>>}]
  /\ found \in [Thread -> 0..Len(type)]
  /\ mine \in [Thread -> SUBSET Key]
  /\ refused \in [Thread -> SUBSET Nat]

Carries(t) ==
  /\ Passed(t) \in Nat
  /\ refused[t] \subseteq 1..Passed(t)
  /\ \A i \in 1..Len(rest[t]) : rest[t][i] = file[t][Passed(t) + i]
  /\ found[t] # 0 =>
       /\ ~Idle(t)
       /\ named[found[t]] = Node(t).key
       /\ Node(t).key \in mine[t] => found[t] = datas[Node(t).key]

LoadInv == \A t \in Thread : Carries(t)

(* A name a load has for itself is registered, and nobody else is about to *)
(* load it.                                                                *)
MineInv ==
  \A t \in Thread : \A k \in mine[t] :
    /\ datas[k] # 0
    /\ \A u \in Thread \ {t} : k \notin Keys(rest[u])

Inv == RegistryInv /\ LoadType /\ LoadInv /\ MineInv /\ LoadApplies

-----------------------------------------------------------------------------
Step(t) ==
  \/ \E k \in Key, T \in Type : \E v \in Default[T] : Lookup(t, k, T, v)
  \/ \E f \in Files : LoadBegin(t, f)
  \/ Find(t)
  \/ SetBad(t)
  \/ SetThrows(t)
  \/ Set(t)

(* A file is a sequence of nodes with names.                               *)
LEMMA FileFacts ==
  ASSUME NEW f \in Files \cup {<<>>}
  PROVE  /\ f \in Seq(Nodes)
         /\ \A i \in 1..Len(f) : f[i].key \in Key
  <1>1. CASE f \in Files
    <2>1. f \in Seq(Range(f)) /\ Range(f) \subseteq Nodes
      BY <1>1, ConfigOK DEF Nodes
    <2>2. \A i \in 1..Len(f) : f[i] \in Nodes
      BY <2>1
    <2> QED
      BY <1>1, <2>1, <2>2, ConfigOK
  <1>2. CASE f = <<>>
    BY <1>2
  <1> QED
    BY <1>1, <1>2

(* The constructors establish the invariant.                               *)
LEMMA StartInv == Init => Inv
  <1> SUFFICES ASSUME Init PROVE Inv
    OBVIOUS
  <1>1. RegistryInv
    BY DEF Init, RegistryInv
  <1>2. LoadType
    BY DEF Init, LoadType
  <1>3. LoadInv /\ MineInv /\ LoadApplies
    BY DEF Init, LoadInv, Carries, MineInv, LoadApplies, Passed, Idle, Keys
  <1> QED
    BY <1>1, <1>2, <1>3 DEF Inv

(* Lookup adds a variable at the end; the others keep their place.         *)
LEMMA LookupAdds ==
  ASSUME Inv, NEW t \in Thread, NEW k \in Key, NEW T \in Type,
         NEW v \in Default[T], Lookup(t, k, T, v)
  PROVE  /\ RegistryInv'
         /\ Len(type') = Len(type) + 1
         /\ \A n \in 1..Len(type) : /\ type'[n] = type[n] /\ val'[n] = val[n]
                                    /\ named'[n] = named[n]
         /\ \A j \in Key \ {k} : datas'[j] = datas[j]
         /\ datas'[k] = Len(type) + 1 /\ type'[Len(type) + 1] = T
  <1> USE DEF Inv, RegistryInv
  <1>1. /\ type' = Append(type, T) /\ val' = Append(val, v)
        /\ named' = Append(named, k)
        /\ datas' = [datas EXCEPT ![k] = Len(type')]
    BY DEF Lookup
  <1>2. v \in Values[T] /\ v \in AnyValue
    BY DEF Values, AnyValue
  <1>3. /\ type' \in Seq(Type) /\ val' \in Seq(AnyValue) /\ named' \in Seq(Key)
        /\ Len(type') = Len(type) + 1 /\ Len(val') = Len(type')
        /\ Len(named') = Len(type')
    BY <1>1, <1>2
  <1>4. \A n \in 1..Len(type) : /\ type'[n] = type[n] /\ val'[n] = val[n]
                                /\ named'[n] = named[n]
    BY <1>1
  <1>5. /\ type'[Len(type) + 1] = T /\ val'[Len(type) + 1] = v
        /\ named'[Len(type) + 1] = k
    BY <1>1
  <1>6. /\ datas' \in [Key -> 0..Len(type')]
        /\ datas'[k] = Len(type) + 1
        /\ \A j \in Key \ {k} : datas'[j] = datas[j]
    BY <1>1, <1>3
  <1>7. \A n \in 1..Len(type') : val'[n] \in Values[type'[n]]
    BY SMTT(30), <1>2, <1>3, <1>4, <1>5
  <1>8. ASSUME NEW j \in Key, datas'[j] # 0
        PROVE  named'[datas'[j]] = j
    <2>1. CASE j = k
      BY <1>5, <1>6, <2>1
    <2>2. CASE j # k
      <3>1. datas'[j] = datas[j] /\ datas[j] \in 1..Len(type)
        BY <1>6, <1>8, <2>2
      <3> QED
        BY <1>4, <1>8, <3>1
    <2> QED
      BY <2>1, <2>2
  <1> QED
    BY <1>3, <1>4, <1>5, <1>6, <1>7, <1>8

(* A load begins with the whole file, or goes on with the rest of it.      *)
LEMMA RestFacts ==
  ASSUME Inv, NEW t \in Thread, ~Idle(t)
  PROVE  /\ rest[t] \in Seq(Nodes) /\ Len(rest[t]) > 0
         /\ Node(t) = rest[t][1] /\ Node(t) \in Nodes
         /\ Tail(rest[t]) \in Seq(Nodes) /\ Len(Tail(rest[t])) = Len(rest[t]) - 1
         /\ \A i \in 1..Len(Tail(rest[t])) : Tail(rest[t])[i] = rest[t][i + 1]
         /\ Passed(t) + 1 \in 1..Len(file[t])
         /\ Node(t) = file[t][Passed(t) + 1]
         /\ Node(t).key \in Key
  <1>1. rest[t] \in Seq(Nodes) /\ rest[t] # <<>> /\ Passed(t) \in Nat
    BY DEF Inv, LoadType, LoadInv, Carries, Idle
  <1>2. file[t] \in Seq(Nodes)
    BY FileFacts DEF Inv, LoadType
  <1>3. Node(t) = rest[t][1] /\ Len(rest[t]) > 0
    BY <1>1 DEF Node
  <1>4. Passed(t) + 1 \in 1..Len(file[t])
    <2>1. Len(rest[t]) \in Nat /\ Len(file[t]) \in Nat
      BY <1>1, <1>2
    <2>2. \A a, b \in Nat : b > 0 /\ a - b \in Nat => (a - b) + 1 \in 1..a
      OBVIOUS
    <2> QED
      BY <1>1, <1>3, <2>1, <2>2 DEF Passed
  <1>5. rest[t][1] = file[t][Passed(t) + 1]
    BY <1>1, <1>3 DEF Inv, LoadInv, Carries
  <1>6. file[t][Passed(t) + 1].key \in Key
    BY <1>4, FileFacts DEF Inv, LoadType
  <1> QED
    BY <1>1, <1>3, <1>4, <1>5, <1>6

(* What is left of a file after its first node.                            *)
After(t) ==
  /\ rest' = [rest EXCEPT ![t] = Tail(@)]
  /\ UNCHANGED <<file, mine>>

(* A load that is done with a node goes on with the next of its file.      *)
LEMMA AfterNode ==
  ASSUME Inv, NEW t \in Thread, ~Idle(t), After(t)
  PROVE  /\ rest' \in [Thread -> Seq(Nodes)]
         /\ \A u \in Thread \ {t} : rest'[u] = rest[u] /\ Passed(u)' = Passed(u)
         /\ Passed(t)' = Passed(t) + 1
         /\ \A i \in 1..Len(rest'[t]) : rest'[t][i] = file'[t][Passed(t)' + i]
         /\ \A u \in Thread : Keys(rest'[u]) \subseteq Keys(rest[u])
  <1> USE RestFacts DEF Inv, LoadType, After
  <1>1. rest' \in [Thread -> Seq(Nodes)] /\ rest'[t] = Tail(rest[t])
    OBVIOUS
  <1>2. \A u \in Thread \ {t} : rest'[u] = rest[u] /\ Passed(u)' = Passed(u)
    BY DEF Passed
  <1>3. file[t] \in Seq(Nodes)
    BY FileFacts
  <1>4. Passed(t)' = Passed(t) + 1
    BY <1>1, <1>3 DEF Passed
  <1>5. \A i \in 1..Len(rest'[t]) : rest'[t][i] = file'[t][Passed(t)' + i]
    <2> SUFFICES ASSUME NEW i \in 1..Len(rest'[t])
                 PROVE  rest'[t][i] = file'[t][Passed(t)' + i]
      OBVIOUS
    <2>1. i + 1 \in 1..Len(rest[t]) /\ rest'[t][i] = rest[t][i + 1]
      BY <1>1
    <2>2. rest[t][i + 1] = file[t][Passed(t) + (i + 1)]
      BY <2>1 DEF LoadInv, Carries
    <2>3. Passed(t) + (i + 1) = Passed(t)' + i
      BY <1>4 DEF LoadInv, Carries
    <2> QED
      BY <2>1, <2>2, <2>3
  <1>6. Keys(rest'[t]) \subseteq Keys(rest[t])
    <2> SUFFICES ASSUME NEW i \in 1..Len(rest'[t])
                 PROVE  rest'[t][i].key \in Keys(rest[t])
      BY <1>1 DEF Keys
    <2>1. i + 1 \in DOMAIN rest[t] /\ rest'[t][i] = rest[t][i + 1]
      BY <1>1
    <2> QED
      BY <2>1 DEF Keys
  <1> QED
    BY <1>1, <1>2, <1>4, <1>5, <1>6

(* The value a load gives a variable is one of its type's.                 *)
LEMMA SetsOne ==
  ASSUME Inv, NEW t \in Thread, Set(t)
  PROVE  /\ RegistryInv' /\ UNCHANGED <<datas, type, named>>
         /\ found[t] \in 1..Len(type) /\ val'[found[t]] = Converted(t)
         /\ \A v \in (1..Len(type)) \ {found[t]} : val'[v] = val[v]
  <1> USE DEF Inv, RegistryInv
  <1>1. ~Idle(t) /\ found[t] \in 1..Len(type)
    BY DEF Set, LoadInv, Carries, LoadType
  <1>2. /\ val' = [val EXCEPT ![found[t]] = Converted(t)]
        /\ Converted(t) # Bad
        /\ UNCHANGED <<datas, type, named>>
    BY DEF Set
  <1>3. Node(t) \in Nodes
    BY <1>1, RestFacts
  <1>4. Converted(t) \in Values[type[found[t]]] /\ Converted(t) \in AnyValue
    <2>1. type[found[t]] \in Type
      BY <1>1
    <2>2. Converted(t) \in {FromStr(type[found[t]], e.text) : e \in Nodes}
      BY <1>3 DEF Converted
    <2> QED
      BY <1>2, <2>1, <2>2 DEF Values, AnyValue
  <1>5. val' \in Seq(AnyValue) /\ Len(val') = Len(val)
    BY <1>1, <1>2, <1>4
  <1>6. /\ val'[found[t]] = Converted(t)
        /\ \A v \in (1..Len(type)) \ {found[t]} : val'[v] = val[v]
    BY <1>1, <1>2
  <1>7. \A v \in 1..Len(type') : val'[v] \in Values[type'[v]]
    BY <1>2, <1>4, <1>6
  <1> QED
    BY <1>1, <1>2, <1>5, <1>6, <1>7

(* Every step keeps the registry consistent, ...                           *)
LEMMA StepRegistry ==
  ASSUME Inv, NEW t \in Thread, Step(t)
  PROVE  RegistryInv'
  <1>1. CASE \E k \in Key, T \in Type : \E v \in Default[T] : Lookup(t, k, T, v)
    BY <1>1, LookupAdds
  <1>2. CASE Set(t)
    BY <1>2, SetsOne
  <1>3. CASE UNCHANGED reg
    BY <1>3 DEF reg, Inv, RegistryInv
  <1> QED
    BY <1>1, <1>2, <1>3 DEF Step, LoadBegin, Find, SetBad, SetThrows

(* ... and the types of a load's own state.                                *)
LEMMA StepLoadType ==
  ASSUME Inv, NEW t \in Thread, Step(t)
  PROVE  LoadType'
  <1> USE DEF Inv, LoadType
  <1>1. CASE \E k \in Key, T \in Type : \E v \in Default[T] : Lookup(t, k, T, v)
    <2>1. PICK k \in Key, T \in Type : \E v \in Default[T] : Lookup(t, k, T, v)
      BY <1>1
    <2>2. Len(type') = Len(type) + 1
      BY <2>1, LookupAdds
    <2>3. found' = found /\ Len(type) \in Nat
      BY <2>1 DEF Lookup, RegistryInv
    <2>4. found' \in [Thread -> 0..Len(type')]
      BY <2>2, <2>3
    <2> QED
      BY <2>1, <2>4 DEF Lookup
  <1>2. CASE \E f \in Files : LoadBegin(t, f)
    <2>1. PICK f \in Files : LoadBegin(t, f)
      BY <1>2
    <2>2. Keys(f) \subseteq Key /\ f \in Seq(Nodes)
      <3>1. f \in Seq(Nodes) /\ \A i \in 1..Len(f) : f[i].key \in Key
        BY FileFacts
      <3> QED
        BY <3>1 DEF Keys
    <2>3. mine' \in [Thread -> SUBSET Key]
      BY <2>1, <2>2 DEF LoadBegin
    <2> QED
      BY <2>1, <2>2, <2>3 DEF LoadBegin, reg
  <1>3. CASE Find(t)
    <2>1. ~Idle(t) /\ Node(t).key \in Key
      BY <1>3, RestFacts DEF Find
    <2>2. datas[Node(t).key] \in 0..Len(type)
      BY <2>1 DEF RegistryInv
    <2>3. rest' \in [Thread -> Seq(Nodes)]
      BY <1>3, <2>1, RestFacts DEF Find
    <2> QED
      BY <1>3, <2>2, <2>3 DEF Find, reg
  <1>4. CASE SetBad(t) \/ SetThrows(t) \/ Set(t)
    <2>1. ~Idle(t)
      BY <1>4 DEF SetBad, SetThrows, Set, LoadInv, Carries
    <2>2. rest' \in [Thread -> Seq(Nodes)]
      <3>1. rest' = [rest EXCEPT ![t] = Tail(rest[t])]
        BY <1>4 DEF SetBad, SetThrows, Set, AfterBad
      <3>2. Tail(rest[t]) \in Seq(Nodes)
        BY <2>1, RestFacts
      <3> QED
        BY <3>1, <3>2
    <2>3. 0 \in 0..Len(type)
      BY DEF RegistryInv
    <2>4. refused' \in [Thread -> SUBSET Nat]
      <3>1. Passed(t) + 1 \in Nat
        BY DEF LoadInv, Carries
      <3>2. refused' \in {refused, [refused EXCEPT ![t] = refused[t] \cup {Passed(t) + 1}]}
        BY <1>4 DEF SetBad, SetThrows, Set
      <3>3. refused[t] \cup {Passed(t) + 1} \in SUBSET Nat
        BY <3>1
      <3>4. \A x \in SUBSET Nat : [refused EXCEPT ![t] = x] \in [Thread -> SUBSET Nat]
        OBVIOUS
      <3> QED
        BY <3>2, <3>3, <3>4
    <2> QED
      BY <1>4, <2>2, <2>3, <2>4 DEF SetBad, SetThrows, Set, reg
  <1> QED
    BY <1>1, <1>2, <1>3, <1>4 DEF Step

-----------------------------------------------------------------------------
(* The steps of a load.                                                    *)

(* A node is done: it has no variable, no value, or is now set.            *)
Done(t) ==
  /\ ~Idle(t) /\ After(t)
  /\ refused' \in {refused, [refused EXCEPT ![t] = @ \cup {Passed(t) + 1}]}
  /\ found'[t] = 0 /\ \A u \in Thread \ {t} : found'[u] = found[u]
  /\ UNCHANGED <<datas, type, named>>

(* Setting a variable, or failing to, ends the work on a node.             *)
LEMMA DoneBy ==
  ASSUME Inv, NEW t \in Thread, SetBad(t) \/ SetThrows(t) \/ Set(t)
  PROVE  Done(t)
  <1>1. ~Idle(t) /\ found \in [Thread -> 0..Len(type)]
    BY DEF SetBad, SetThrows, Set, Inv, LoadInv, Carries, LoadType
  <1> QED
    BY <1>1 DEF SetBad, SetThrows, Set, AfterBad, Done, After, reg

(* So does a name that is not registered; any other name gives its         *)
(* variable.                                                               *)
LEMMA FindDone ==
  ASSUME Inv, NEW t \in Thread, Find(t)
  PROVE  /\ UNCHANGED reg /\ ~Idle(t) /\ Node(t).key \in Key
         /\ \/ datas[Node(t).key] = 0 /\ Done(t)
            \/ /\ datas[Node(t).key] # 0
               /\ UNCHANGED <<rest, file, mine, refused>>
               /\ found'[t] = datas[Node(t).key]
               /\ \A u \in Thread \ {t} : found'[u] = found[u]
  <1>1. ~Idle(t) /\ found \in [Thread -> 0..Len(type)]
    BY DEF Find, Inv, LoadType
  <1>2. Node(t).key \in Key
    BY <1>1, RestFacts
  <1> QED
    BY <1>1, <1>2 DEF Find, Done, After, reg

(* A load keeps its place in the file it carries when it is done with a    *)
(* node, ...                                                               *)
LEMMA DoneLoadInv ==
  ASSUME Inv, NEW t \in Thread, Done(t)
  PROVE  LoadInv'
  <1> USE DEF Inv, Done
  <1>1. ASSUME NEW u \in Thread \ {t}
        PROVE  Carries(u)'
    <2>1. /\ rest'[u] = rest[u] /\ Passed(u)' = Passed(u)
          /\ UNCHANGED <<file, mine, named, datas>> /\ found'[u] = found[u]
          /\ refused'[u] = refused[u]
      BY <1>1, AfterNode DEF After, LoadType
    <2> QED
      BY <2>1 DEF LoadInv, Carries, Idle, Node
  <1>2. Passed(t)' \in Nat
    BY AfterNode DEF LoadInv, Carries
  <1>3. refused'[t] \subseteq 1..Passed(t)'
    <2>1. Passed(t)' = Passed(t) + 1 /\ refused[t] \subseteq 1..Passed(t) /\ Passed(t) \in Nat
      BY AfterNode DEF LoadInv, Carries
    <2>2. refused'[t] \subseteq refused[t] \cup {Passed(t) + 1}
      BY DEF LoadType
    <2> QED
      BY <2>1, <2>2
  <1>4. Carries(t)'
    BY <1>2, <1>3, AfterNode DEF Carries
  <1> QED
    BY <1>1, <1>4 DEF LoadInv

(* ... and in every other step.                                            *)
LEMMA StepLoadInv ==
  ASSUME Inv, NEW t \in Thread, Step(t)
  PROVE  LoadInv'
  <1> USE DEF Inv
  <1>1. CASE \E k \in Key, T \in Type : \E v \in Default[T] : Lookup(t, k, T, v)
    <2>1. PICK k \in Key, T \in Type : \E v \in Default[T] : Lookup(t, k, T, v)
      BY <1>1
    <2>2. UNCHANGED <<rest, found, file, refused>>
      BY <2>1 DEF Lookup
    <2>3. ASSUME NEW u \in Thread PROVE Passed(u)' = Passed(u)
      BY <2>2 DEF Passed
    <2>4. ASSUME NEW u \in Thread, found[u] # 0
          PROVE  /\ named'[found[u]] = Node(u).key
                 /\ Node(u).key \in mine'[u] => found[u] = datas'[Node(u).key]
      <3>1. found[u] \in 1..Len(type)
        BY <2>4 DEF LoadType
      <3>2. named'[found[u]] = named[found[u]]
        BY <2>1, <3>1, LookupAdds
      <3>3. ~Idle(u) /\ Node(u).key \in Key
        BY <2>4, RestFacts DEF LoadInv, Carries
      <3>4. ASSUME Node(u).key \in mine'[u]
            PROVE  datas'[Node(u).key] = datas[Node(u).key] /\ Node(u).key \in mine[u]
        <4>1. Node(u).key # k /\ Node(u).key \in mine[u]
          BY <2>1, <3>4 DEF Lookup
        <4> QED
          BY <2>1, <3>3, <4>1, LookupAdds
      <3> QED
        BY <2>4, <3>2, <3>4 DEF LoadInv, Carries
    <2> QED
      BY <2>2, <2>3, <2>4 DEF LoadInv, Carries, Idle, Node
  <1>2. CASE \E f \in Files : LoadBegin(t, f)
    <2>1. PICK f \in Files : LoadBegin(t, f)
      BY <1>2
    <2>2. /\ rest'[t] = f /\ file'[t] = f /\ found'[t] = 0 /\ refused'[t] = {}
          /\ \A u \in Thread \ {t} : /\ rest'[u] = rest[u] /\ file'[u] = file[u]
                                     /\ mine'[u] \subseteq mine[u]
                                     /\ refused'[u] = refused[u]
          /\ UNCHANGED <<found, datas, named>>
      BY <2>1 DEF LoadBegin, LoadInv, Carries, LoadType, reg
    <2>3. Len(f) \in Nat
      BY FileFacts
    <2>4. Carries(t)'
      BY <2>2, <2>3 DEF Passed, Carries
    <2>5. ASSUME NEW u \in Thread \ {t} PROVE Carries(u)'
      <3>1. Carries(u)
        BY DEF LoadInv
      <3>2. /\ rest'[u] = rest[u] /\ Passed(u)' = Passed(u)
            /\ Idle(u)' = Idle(u) /\ Node(u)' = Node(u)
        BY <2>2, <2>5 DEF Passed, Idle, Node
      <3> QED
        BY <2>2, <2>5, <3>1, <3>2 DEF Carries
    <2> QED
      BY <2>4, <2>5 DEF LoadInv, Carries
  <1>3. CASE Find(t) /\ ~Done(t)
    <2>1. /\ UNCHANGED <<rest, file, mine, refused, datas, named>>
          /\ ~Idle(t) /\ found'[t] = datas[Node(t).key]
          /\ \A u \in Thread \ {t} : found'[u] = found[u]
          /\ named[datas[Node(t).key]] = Node(t).key
      BY <1>3, FindDone DEF reg, RegistryInv
    <2> QED
      BY <2>1 DEF LoadInv, Carries, Passed, Idle, Node
  <1>4. CASE Done(t)
    BY <1>4, DoneLoadInv
  <1> QED
    BY <1>1, <1>2, <1>3, <1>4, DoneBy DEF Step

(* A name a load has for itself stays registered and in nobody else's      *)
(* rest.                                                                   *)
LEMMA StepMineInv ==
  ASSUME Inv, NEW t \in Thread, Step(t)
  PROVE  MineInv'
  <1> USE DEF Inv
  <1>1. CASE \E k \in Key, T \in Type : \E v \in Default[T] : Lookup(t, k, T, v)
    <2>1. PICK k \in Key, T \in Type : \E v \in Default[T] : Lookup(t, k, T, v)
      BY <1>1
    <2>2. /\ rest' = rest
          /\ \A u \in Thread : mine'[u] = mine[u] \ {k} /\ mine[u] \subseteq Key
      BY <2>1 DEF Lookup, LoadType
    <2>3. \A j \in Key \ {k} : datas'[j] = datas[j]
      BY <2>1, LookupAdds
    <2> QED
      BY <2>2, <2>3 DEF MineInv
  <1>2. CASE \E f \in Files : LoadBegin(t, f)
    <2>1. PICK f \in Files : LoadBegin(t, f)
      BY <1>2
    <2>2. /\ datas' = datas /\ rest'[t] = f
          /\ \A u \in Thread \ {t} : /\ rest'[u] = rest[u]
                                     /\ mine'[u] = mine[u] \ Keys(f)
          /\ \A k \in mine'[t] : /\ datas[k] # 0
                                 /\ \A w \in Thread : k \notin Keys(rest[w])
      BY <2>1 DEF LoadBegin, LoadType, reg
    <2> QED
      BY <2>2 DEF MineInv
  <1>3. CASE Find(t) /\ ~Done(t)
    BY <1>3, FindDone DEF MineInv, reg
  <1>4. CASE Done(t)
    <2>1. \A u \in Thread : Keys(rest'[u]) \subseteq Keys(rest[u])
      BY <1>4, AfterNode DEF Done
    <2>2. UNCHANGED <<mine, datas>>
      BY <1>4 DEF Done, After
    <2> QED
      BY <2>1, <2>2 DEF MineInv
  <1> QED
    BY <1>1, <1>2, <1>3, <1>4, DoneBy DEF Step

(* A node a load has passed: nobody changes what it set while its name     *)
(* stays the load's own.                                                   *)
Applied(u, n) ==
  file[u][n].key \in mine[u] /\ Applies(u, n) /\ IsLast(u, n) =>
    val[datas[file[u][n].key]] = ValueAt(u, n)

(* The variable of a node a load has passed is the one registered for its  *)
(* key.                                                                    *)
LEMMA PassedKey ==
  ASSUME Inv, NEW u \in Thread, NEW n \in 1..Passed(u),
         file[u][n].key \in mine[u]
  PROVE  /\ file[u][n].key \in Key
         /\ datas[file[u][n].key] \in 1..Len(type)
         /\ named[datas[file[u][n].key]] = file[u][n].key
  <1>1. file[u][n].key \in Key /\ datas[file[u][n].key] # 0
    BY DEF Inv, LoadType, MineInv
  <1> QED
    BY <1>1 DEF Inv, RegistryInv

(* The variable a load is setting is another one than those of the names   *)
(* that a different load has for itself.                                   *)
LEMMA SetsAnother ==
  ASSUME Inv, NEW t \in Thread, found[t] # 0,
         NEW u \in Thread \ {t}, NEW n \in 1..Passed(u),
         file[u][n].key \in mine[u]
  PROVE  datas[file[u][n].key] # found[t]
  <1>1. ~Idle(t) /\ named[found[t]] = Node(t).key
    BY DEF Inv, LoadInv, Carries
  <1>2. Node(t).key \in Keys(rest[t])
    BY <1>1, RestFacts DEF Keys
  <1>3. file[u][n].key # Node(t).key
    BY <1>2 DEF Inv, MineInv
  <1> QED
    BY <1>1, <1>3, PassedKey

(* A passed node keeps its effect when its variable is not touched: a node *)
(* that is the last of its name stays so or has lost that place before.    *)
LEMMA KeepsApplied ==
  ASSUME Inv, NEW u \in Thread, NEW n \in 1..Passed(u), Applied(u, n),
         file[u][n].key \in mine[u], file'[u] = file[u],
         Passed(u)' \in Nat, Passed(u) <= Passed(u)',
         \A m \in 1..Passed(u) : m \in refused'[u] <=> m \in refused[u],
         datas'[file[u][n].key] = datas[file[u][n].key],
         type'[datas[file[u][n].key]] = type[datas[file[u][n].key]],
         val'[datas[file[u][n].key]] = val[datas[file[u][n].key]]
  PROVE  Applied(u, n)'
  <1> SUFFICES ASSUME Applies(u, n)', IsLast(u, n)'
               PROVE  val'[datas'[file'[u][n].key]] = ValueAt(u, n)'
    BY DEF Applied
  <1>1. Passed(u) \in Nat
    BY DEF Inv, LoadInv, Carries
  <1>2. ASSUME NEW m \in 1..Passed(u), file[u][m].key = file[u][n].key
        PROVE  ValueAt(u, m)' = ValueAt(u, m) /\ (Applies(u, m)' <=> Applies(u, m))
    <2>1. ValueAt(u, m)' = ValueAt(u, m)
      BY <1>2 DEF ValueAt
    <2> QED
      BY <1>2, <2>1 DEF Applies
  <1>3. IsLast(u, n)
    <2> SUFFICES ASSUME NEW m \in (n + 1)..Passed(u),
                        file[u][m].key = file[u][n].key
                 PROVE  ~Applies(u, m)
      BY DEF IsLast
    <2>1. m \in 1..Passed(u) /\ m \in (n + 1)..Passed(u)'
      BY <1>1
    <2>2. ~Applies(u, m)'
      BY <2>1 DEF IsLast
    <2> QED
      BY <1>2, <2>1, <2>2
  <1>4. Applies(u, n) /\ ValueAt(u, n)' = ValueAt(u, n)
    BY <1>2
  <1> QED
    BY <1>3, <1>4 DEF Applied

(* A load that is done with a node keeps what it has passed: either the    *)
(* node gives its value to another variable, or the passed node is no      *)
(* longer the last of its name.                                            *)
LEMMA DoneKeepsApplied ==
  ASSUME Inv, NEW t \in Thread, Done(t), Find(t) \/ SetBad(t) \/ SetThrows(t) \/ Set(t),
         NEW u \in Thread, NEW n \in 1..Passed(u), Applied(u, n)
  PROVE  Applied(u, n)'
  <1>1. UNCHANGED <<file, mine, datas, type>> /\ ~Idle(t)
    BY DEF Done, After
  <1>2. /\ u # t => Passed(u)' = Passed(u)
        /\ Passed(t)' = Passed(t) + 1
        /\ Passed(u) \in Nat /\ Passed(t) \in Nat
    BY AfterNode DEF Done, Inv, LoadInv, Carries
  <1>3. Passed(u)' \in Nat /\ Passed(u) <= Passed(u)'
    BY <1>2
  <1>4. \A m \in 1..Passed(u) : m \in refused'[u] <=> m \in refused[u]
    BY <1>2 DEF Done, Inv, LoadType
  <1> SUFFICES ASSUME file[u][n].key \in mine[u], Applies(u, n)', IsLast(u, n)'
               PROVE  Applied(u, n)'
    BY <1>1 DEF Applied
  <1>5. CASE val'[datas[file[u][n].key]] = val[datas[file[u][n].key]]
    BY <1>1, <1>3, <1>4, <1>5, KeepsApplied
  <1>6. CASE val'[datas[file[u][n].key]] # val[datas[file[u][n].key]]
    <2>1. Set(t)
      BY <1>6 DEF Find, SetBad, SetThrows, reg
    <2>2. datas[file[u][n].key] = found[t] /\ found[t] # 0
      BY <1>6, <2>1, PassedKey, SetsOne DEF Set
    <2>3. u = t
      BY <2>2, SetsAnother
    <2>4. file[t][n].key = Node(t).key
      BY <2>2, <2>3, PassedKey DEF Inv, LoadInv, Carries
    <2>5. PICK m \in Nat : m = Passed(t) + 1
      BY <1>2
    <2>6. Node(t) = file[t][m] /\ m \in (n + 1)..Passed(t)'
      BY <1>1, <1>2, <2>3, <2>5, RestFacts
    <2>7. ~Applies(t, m)'
      BY <1>1, <2>3, <2>4, <2>6 DEF IsLast
    <2>8. ValueAt(t, m)' = Converted(t)
      BY <1>1, <2>2, <2>3, <2>4, <2>6 DEF ValueAt, Converted
    <2>9. m \notin refused'[t]
      BY <1>2, <2>1, <2>5 DEF Set, Inv, LoadInv, Carries
    <2> QED
      BY <2>1, <2>7, <2>8, <2>9 DEF Applies, Set
  <1> QED
    BY <1>5, <1>6

(* What a load has set stays as it set it, while it has the name for       *)
(* itself.                                                                 *)
LEMMA StepLoadApplies ==
  ASSUME Inv, NEW t \in Thread, Step(t)
  PROVE  LoadApplies'
  <1> SUFFICES ASSUME NEW u \in Thread, NEW n \in 1..Passed(u)'
               PROVE  Applied(u, n)'
    BY DEF LoadApplies, Applied
  <1>1. n \in 1..Passed(u) => Applied(u, n)
    BY DEF Inv, LoadApplies, Applied
  <1>2. CASE \E k \in Key, T \in Type : \E v \in Default[T] : Lookup(t, k, T, v)
    <2>1. PICK k \in Key, T \in Type : \E v \in Default[T] : Lookup(t, k, T, v)
      BY <1>2
    <2>2. UNCHANGED <<rest, file, refused>> /\ mine'[u] = mine[u] \ {k}
      BY <2>1 DEF Lookup
    <2>3. Passed(u)' = Passed(u) /\ Passed(u) \in Nat
      BY <2>2 DEF Passed, Inv, LoadInv, Carries
    <2>4. SUFFICES ASSUME file[u][n].key \in mine'[u]
                   PROVE  Applied(u, n)'
      BY <2>2 DEF Applied
    <2>5. file[u][n].key \in mine[u] /\ file[u][n].key # k
      BY <2>2, <2>4
    <2>6. datas[file[u][n].key] \in 1..Len(type) /\ file[u][n].key \in Key
      BY <2>3, <2>5, PassedKey
    <2>7. /\ datas'[file[u][n].key] = datas[file[u][n].key]
          /\ type'[datas[file[u][n].key]] = type[datas[file[u][n].key]]
          /\ val'[datas[file[u][n].key]] = val[datas[file[u][n].key]]
      BY <2>1, <2>5, <2>6, LookupAdds
    <2>8. \A m \in 1..Passed(u) : m \in refused'[u] <=> m \in refused[u]
      BY <2>2
    <2>9. Passed(u)' \in Nat /\ Passed(u) <= Passed(u)' /\ n \in 1..Passed(u)
      BY <2>3
    <2>10. file'[u] = file[u] /\ Applied(u, n)
      BY <1>1, <2>2, <2>9
    <2> QED
      BY <2>5, <2>7, <2>8, <2>9, <2>10, KeepsApplied
  <1>3. CASE \E f \in Files : LoadBegin(t, f)
    <2>1. PICK f \in Files : LoadBegin(t, f)
      BY <1>3
    <2>2. CASE u = t
      <3>1. rest'[u] = f /\ file'[u] = f /\ Len(f) \in Nat
        BY <2>1, <2>2, FileFacts DEF LoadBegin, Inv, LoadType
      <3>2. Passed(u)' = 0
        BY <3>1 DEF Passed
      <3> QED
        BY <3>2
    <2>3. CASE u # t
      <3>1. /\ rest'[u] = rest[u] /\ file'[u] = file[u] /\ mine'[u] \subseteq mine[u]
            /\ refused'[u] = refused[u] /\ UNCHANGED reg
        BY <2>1, <2>3 DEF LoadBegin, Inv, LoadType
      <3>2. Passed(u)' = Passed(u) /\ Passed(u) \in Nat
        BY <3>1 DEF Passed, Inv, LoadInv, Carries
      <3>3. CASE file[u][n].key \in mine[u]
        BY <1>1, <3>1, <3>2, <3>3, KeepsApplied DEF reg
      <3>4. CASE file[u][n].key \notin mine[u]
        BY <3>1, <3>4 DEF Applied
      <3> QED
        BY <3>3, <3>4
    <2> QED
      BY <2>2, <2>3
  <1>4. CASE Find(t) /\ ~Done(t)
    <2>1. UNCHANGED <<reg, rest, file, mine, refused>>
      BY <1>4, FindDone
    <2>2. Passed(u)' = Passed(u) /\ Passed(u) \in Nat
      BY <2>1 DEF Passed, Inv, LoadInv, Carries
    <2>3. CASE file[u][n].key \in mine[u]
      BY <1>1, <2>1, <2>2, <2>3, KeepsApplied DEF reg
    <2>4. CASE file[u][n].key \notin mine[u]
      BY <2>1, <2>4 DEF Applied
    <2> QED
      BY <2>3, <2>4
  <1>5. CASE Done(t) /\ (Find(t) \/ SetBad(t) \/ SetThrows(t) \/ Set(t))
    <2>1. CASE n \in 1..Passed(u)
      BY <1>1, <1>5, <2>1, DoneKeepsApplied
    <2>2. CASE n \notin 1..Passed(u)
      <3>1. UNCHANGED <<file, mine, datas, type>> /\ ~Idle(t)
        BY <1>5 DEF Done, After
      <3>2. u = t /\ n = Passed(t) + 1
        <4>1. /\ u # t => Passed(u)' = Passed(u)
              /\ Passed(t)' = Passed(t) + 1
          BY <1>5, AfterNode DEF Done
        <4>2. Passed(t) \in Nat
          BY DEF Inv, LoadInv, Carries
        <4> QED
          BY <2>2, <4>1, <4>2
      <3>3. file[t][n] = Node(t) /\ Node(t).key \in Key
        BY <3>1, <3>2, RestFacts
      <3> SUFFICES ASSUME Node(t).key \in mine[t], Applies(t, n)'
                   PROVE  val'[datas'[Node(t).key]] = ValueAt(t, n)'
        BY <3>1, <3>2, <3>3 DEF Applied
      <3>4. datas[Node(t).key] # 0
        BY DEF Inv, MineInv
      <3>5. found[t] # 0 => found[t] = datas[Node(t).key]
        BY DEF Inv, LoadInv, Carries
      <3>6. found[t] # 0 => ValueAt(t, n)' = Converted(t)
        BY <3>1, <3>3, <3>5 DEF ValueAt, Converted
      <3>7. CASE Find(t)
        BY <1>5, <3>4, <3>7, FindDone DEF Done, Find, Inv, LoadType
      <3>8. CASE SetBad(t)
        BY <3>6, <3>8 DEF SetBad, Applies
      <3>9. CASE SetThrows(t)
        BY <3>2, <3>9 DEF SetThrows, Applies, Inv, LoadType
      <3>10. CASE Set(t)
        BY <3>1, <3>5, <3>6, <3>10, SetsOne DEF Set
      <3> QED
        BY <1>5, <3>7, <3>8, <3>9, <3>10
    <2> QED
      BY <2>1, <2>2
  <1> QED
    BY <1>2, <1>3, <1>4, <1>5, DoneBy DEF Step

(* Every step of every load preserves the invariant.                       *)
LEMMA NextInv == Inv /\ [Next]_vars => Inv'
  <1> SUFFICES ASSUME Inv, [Next]_vars PROVE Inv'
    OBVIOUS
  <1>1. CASE UNCHANGED vars
    <2>1. UNCHANGED <<datas, type, val, named, rest, found, file, mine, refused>>
      BY <1>1 DEF vars, reg, load
    <2>2. RegistryInv' /\ LoadType' /\ MineInv'
      BY <2>1 DEF Inv, RegistryInv, LoadType, MineInv
    <2>3. LoadInv'
      BY <2>1 DEF Inv, LoadInv, Carries, Passed, Idle, Node
    <2>4. LoadApplies'
      BY <2>1 DEF Inv, LoadApplies, Applies, IsLast, ValueAt, Passed
    <2> QED
      BY <2>2, <2>3, <2>4 DEF Inv
  <1>2. CASE Next
    <2>1. PICK t \in Thread : Step(t)
      BY <1>2 DEF Next, Step
    <2> QED
      BY <2>1, StepRegistry, StepLoadType, StepLoadInv, StepMineInv,
         StepLoadApplies DEF Inv
  <1> QED
    BY <1>1, <1>2

(* The inductive invariant of the registry and its loads, with all that    *)
(* follows from it.                                                        *)
THEOREM ConfigInductive == Spec => []Inv
  <1> QED
    BY StartInv, NextInv, PTL DEF Spec

(* A variable only ever has a value of its own type: a default, or what    *)
(* the type's conversion makes of a text of a file.  So it is also when a  *)
(* load sets a variable whose name has been defined anew, perhaps with     *)
(* another one, since it found it.  Names map to variables made so far,    *)
(* and a load that has found a variable has a node for it.                 *)
THEOREM Typed == Spec => []TypeOK
  <1>1. Inv => TypeOK
    BY DEF Inv, RegistryInv, LoadType, LoadInv, Carries, TypeOK, Var
  <1> QED
    BY <1>1, ConfigInductive, PTL

(* Lookup of a name with another type than its variable's returns nullptr  *)
(* and makes nothing (config.h:369-377), so a name keeps its type.         *)
THEOREM NamesKeepTheirType == Spec => TypeStable
  <1>1. Inv /\ [Next]_vars =>
          [\A k \in Key : datas[k] # 0 =>
             datas'[k] # 0 /\ type'[datas'[k]] = type[datas[k]]]_vars
    <2> SUFFICES ASSUME Inv, [Next]_vars, NEW k \in Key, datas[k] # 0,
                        ~UNCHANGED vars
                 PROVE  datas'[k] # 0 /\ type'[datas'[k]] = type[datas[k]]
      OBVIOUS
    <2>1. PICK t \in Thread : Step(t)
      BY DEF Next, Step
    <2>2. CASE \E j \in Key, T \in Type : \E v \in Default[T] : Lookup(t, j, T, v)
      <3>1. PICK j \in Key, T \in Type : \E v \in Default[T] : Lookup(t, j, T, v)
        BY <2>2
      <3>2. datas[k] \in 1..Len(type) /\ Len(type) \in Nat
        BY DEF Inv, RegistryInv
      <3>3. CASE j = k
        <4>1. type[datas[k]] = T
          BY <3>1, <3>3 DEF Lookup, MayDefine
        <4> QED
          BY <3>1, <3>2, <3>3, <4>1, LookupAdds
      <3>4. CASE j # k
        BY <3>1, <3>2, <3>4, LookupAdds
      <3> QED
        BY <3>3, <3>4
    <2>3. CASE ~\E j \in Key, T \in Type : \E v \in Default[T] : Lookup(t, j, T, v)
      BY <2>1, <2>3 DEF Step, LoadBegin, Find, SetBad, SetThrows, Set, reg
    <2> QED
      BY <2>2, <2>3
  <1> QED
    BY <1>1, ConfigInductive, PTL DEF Spec, TypeStable

(* Every node a load has passed is set, when its name was registered as    *)
(* the load began and nobody else has loaded or defined it since: a node   *)
(* with no variable, with a bad text or with a listener that throws does   *)
(* not keep the next ones from theirs, and of several nodes of one name    *)
(* the last that is neither counts (config.h:20-31, 347-361, 277-286).     *)
THEOREM FilesAreApplied == Spec => []LoadApplies
  <1> QED
    BY ConfigInductive, PTL DEF Inv
=============================================================================
