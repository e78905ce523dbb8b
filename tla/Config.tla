------------------------------- MODULE Config -------------------------------
(***************************************************************************)
(* sylar::Config (config.h:329-417): the registry of all configuration     *)
(* variables by name, under one reader/writer lock, and LoadFromYaml,      *)
(* which sets the variables named in a file one after the other.  Lookup   *)
(* holds the lock to its end and is one action.  LoadFromYaml holds it     *)
(* only while it finds a variable: finding and setting are two actions.    *)
(* What a set does inside the variable is the module ConfigVar; here it    *)
(* stores the value, or a listener throws and it does not.                 *)
(*                                                                         *)
(* A file is the list of nodes that ListAllMember makes of it (YamlFile),  *)
(* which may have a name twice; the conversions are LexicalCast's.  What   *)
(* conversions and listeners throw is a std::exception.                    *)
(***************************************************************************)
EXTENDS Naturals, SequencesExt

CONSTANTS
  Thread,    \* the threads that look up and load
  Key,       \* names of variables, as Lookup accepts them
  Type,      \* types of variables
  Default,   \* the values of each type given to Lookup
  FromStr(_, _),  \* LexicalCast: the value of a type that a text stands for
  ToStr(_, _),    \* LexicalCast: the text of a value of a type
  Bad,       \* an exception instead of a value
  Files,     \* files: sequences of [key, text]
  MaxVars    \* bound: variables created in a run

ASSUME ConfigOK ==
  /\ \A f \in Files : /\ f \in Seq(Range(f))
                      /\ \A n \in 1..Len(f) : f[n].key \in Key
  /\ MaxVars \in Nat

VARIABLES
  datas,   \* s_datas: the number of each name's variable, or 0
  type,    \* the type and the value of each variable made so far
  val,
  named,   \* history: the name each was looked up with
  rest,    \* the part of the file each thread has still to load
  found,   \* the variable LookupBase returned to it, or 0
  file,    \* history: the file it loads, and the names it is alone in
  mine,    \* setting: registered when it began, not loaded or defined by
           \* anybody else since
  refused  \* history: the nodes at which a listener threw

reg  == <<datas, type, val, named>>
load == <<rest, found, file, mine, refused>>
vars == <<reg, load>>

Var == DOMAIN type

Init ==
  /\ datas = [k \in Key |-> 0]
  /\ type = <<>>
  /\ val = <<>>
  /\ named = <<>>
  /\ rest = [t \in Thread |-> <<>>]
  /\ found = [t \in Thread |-> 0]
  /\ file = [t \in Thread |-> <<>>]
  /\ mine = [t \in Thread |-> {}]
  /\ refused = [t \in Thread |-> {}]

Idle(t) == rest[t] = <<>>

-----------------------------------------------------------------------------
(* Lookup(name, default_value).  A name with characters outside            *)
(* [a-z0-9._] is refused with an exception and changes nothing.            *)

(* The name belongs to a variable of another type: nullptr.  Otherwise a   *)
(* new variable is made, also when there is one of this type already.  Its *)
(* mutant does not look at the type.                                       *)
AnyType(k, T) == TRUE
MayDefine(k, T) == datas[k] # 0 => type[datas[k]] = T

Lookup(t, k, T, v) ==
  /\ Idle(t)
  /\ MayDefine(k, T)
  /\ Len(type) < MaxVars
  /\ type' = Append(type, T)
  /\ val' = Append(val, v)
  /\ named' = Append(named, k)
  /\ datas' = [datas EXCEPT ![k] = Len(type')]
  /\ mine' = [u \in Thread |-> mine[u] \ {k}]
  /\ UNCHANGED <<rest, found, file, refused>>

-----------------------------------------------------------------------------
(* LoadFromYaml.                                                           *)

Keys(f) == {f[n].key : n \in DOMAIN f}

LoadBegin(t, f) ==
  /\ Idle(t)
  /\ rest' = [rest EXCEPT ![t] = f]
  /\ file' = [file EXCEPT ![t] = f]
  /\ mine' = [u \in Thread |->
                IF u = t THEN {k \in Keys(f) : /\ datas[k] # 0
                                               /\ \A w \in Thread : k \notin Keys(rest[w])}
                         ELSE mine[u] \ Keys(f)]
  /\ refused' = [refused EXCEPT ![t] = {}]
  /\ UNCHANGED <<reg, found>>

Passed(t)    == Len(file[t]) - Len(rest[t])
Node(t)      == Head(rest[t])
Converted(t) == FromStr(type[found[t]], Node(t).text)

(* LookupBase: a node without a variable is passed over. *)
Find(t) ==
  /\ ~Idle(t)
  /\ found[t] = 0
  /\ LET v == datas[Node(t).key] IN
       /\ found' = [found EXCEPT ![t] = v]
       /\ rest' = IF v = 0 THEN [rest EXCEPT ![t] = Tail(@)] ELSE rest
  /\ UNCHANGED <<reg, file, mine, refused>>

(* fromString: a text that cannot be converted is caught and reported, and *)
(* the loop goes on.  The mutant gives up on the file.                     *)
GiveUp(t)   == <<>>
AfterBad(t) == Tail(rest[t])

SetBad(t) ==
  /\ found[t] # 0
  /\ Converted(t) = Bad
  /\ rest' = [rest EXCEPT ![t] = AfterBad(t)]
  /\ found' = [found EXCEPT ![t] = 0]
  /\ UNCHANGED <<reg, file, mine, refused>>

(* A listener that throws is caught there too.  Listeners are called only  *)
(* for a change; the value is not stored, and the loop goes on.            *)
SetThrows(t) ==
  /\ found[t] # 0
  /\ Converted(t) \notin {Bad, val[found[t]]}
  /\ refused' = [refused EXCEPT ![t] = @ \cup {Passed(t) + 1}]
  /\ rest' = [rest EXCEPT ![t] = Tail(@)]
  /\ found' = [found EXCEPT ![t] = 0]
  /\ UNCHANGED <<reg, file, mine>>

(* Its mutant remembers the variable for the next node. *)
SetKeeps(t) ==
  /\ found[t] # 0
  /\ Converted(t) # Bad
  /\ val' = [val EXCEPT ![found[t]] = Converted(t)]
  /\ rest' = [rest EXCEPT ![t] = Tail(@)]
  /\ UNCHANGED <<datas, type, named, found, file, mine, refused>>

Set(t) ==
  /\ found[t] # 0
  /\ Converted(t) # Bad
  /\ val' = [val EXCEPT ![found[t]] = Converted(t)]
  /\ rest' = [rest EXCEPT ![t] = Tail(@)]
  /\ found' = [found EXCEPT ![t] = 0]
  /\ UNCHANGED <<datas, type, named, file, mine, refused>>

-----------------------------------------------------------------------------
Next ==
  \E t \in Thread :
    \/ \E k \in Key, T \in Type : \E v \in Default[T] : Lookup(t, k, T, v)
    \/ \E f \in Files : LoadBegin(t, f)
    \/ Find(t)
    \/ SetBad(t)
    \/ SetThrows(t)
    \/ Set(t)

Spec == Init /\ [][Next]_vars

-----------------------------------------------------------------------------
(* The values of a type: a default, or the conversion of a text of a file. *)
Nodes  == UNION {Range(f) : f \in Files}
Values == [T \in Type |-> Default[T] \cup ({FromStr(T, e.text) : e \in Nodes} \ {Bad})]

(* Type invariant: a variable has a value of its own type (config.h:       *)
(* 277-304, 384), also when a load sets a variable whose name has been     *)
(* defined anew since it was found.                                        *)
TypeOK ==
  /\ datas \in [Key -> 0..Len(type)]
  /\ type \in Seq(Type) /\ named \in Seq(Key)
  /\ Len(val) = Len(type) /\ Len(named) = Len(type)
  /\ \A n \in Var : val[n] \in Values[type[n]]
  /\ \A t \in Thread : found[t] \in 0..Len(type) /\ (found[t] # 0 => ~Idle(t))

(* The type of a name never changes (config.h:369-377): whoever looks the  *)
(* name up with its type later does not get nullptr.                       *)
TypeStable ==
  [][\A k \in Key : datas[k] # 0 =>
        datas'[k] # 0 /\ type'[datas'[k]] = type[datas[k]]]_vars

(* What a node of a load's file stands for, and whether it takes effect:   *)
(* its text can be converted, and no listener threw at it.                 *)
ValueAt(t, n) == FromStr(type[datas[file[t][n].key]], file[t][n].text)
Applies(t, n) == n \notin refused[t] /\ ValueAt(t, n) # Bad

(* No later node of the same name has taken effect so far. *)
IsLast(t, n) ==
  \A m \in (n + 1)..Passed(t) : file[t][m].key = file[t][n].key => ~Applies(t, m)

(* A file reaches every variable that was registered when the load began   *)
(* and that nobody else loads or defines meanwhile: what has been passed   *)
(* is set, also after a node that cannot be converted or at which a        *)
(* listener threw, and the last of several nodes of one name counts        *)
(* (config.h:20-31, 347-361, 277-286).                                     *)
LoadApplies ==
  \A t \in Thread : \A n \in 1..Passed(t) :
    file[t][n].key \in mine[t] /\ Applies(t, n) /\ IsLast(t, n) =>
      val[datas[file[t][n].key]] = ValueAt(t, n)

(* Whatever value a variable has come to have, loading the text it is      *)
(* written as gives that value back (config.h:34-238, 267-286).  Strings   *)
(* that YAML reads as null are the exception.                              *)
SavedIsLoaded ==
  \A n \in Var : FromStr(type[n], ToStr(type[n], val[n])) = val[n]

(* Whoever looked a name up holds the variable that the registry has and   *)
(* that LoadFromYaml sets (config.h:369-373: "Lookup name = ... exists").  *)
SharedVariable == \A n \in Var : datas[named[n]] = n
=============================================================================
