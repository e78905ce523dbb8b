-------------------------- MODULE LogReloadProofs --------------------------
(***************************************************************************)
(* Machine-checked proofs about LogReload, for any number of threads and   *)
(* loggers and for any configurations: the loggers follow their own        *)
(* formatters, the variable "logs" behaves as ConfigVar says, at rest the  *)
(* loggers are what the configuration asks for, and what is saved of them  *)
(* and of "logs" is read again.                                            *)
(***************************************************************************)
EXTENDS LogReload, SequenceLemmas

-----------------------------------------------------------------------------
(* The data of a reload.                                                   *)

Index == 1..Names

Definitions == {c[n] : c \in Configs, n \in Index} \ {NoDef}
AppDefs     == UNION {Range(d.appenders) : d \in Definitions}

(* What a logger may be given, and the calls that give it.                 *)
Levels == {d.level : d \in Definitions} \cup {Unknow, Debug}
Given  == Levels \cup Valid \cup AppDefs \cup {0}

Calls ==
  {c \in [op : {"level", "formatter", "clear", "add"}, logger : Index, x : Given] :
     /\ c.op = "level" => c.x \in Levels
     /\ c.op = "formatter" => c.x \in Valid
     /\ c.op = "add" => c.x \in AppDefs}

Built ==
  [type : {a.type : a \in AppDefs}, file : {a.file : a \in AppDefs},
   level : {a.level : a \in AppDefs}, own : BOOLEAN, formatter : Valid]

(* The number of names is a natural number.                                *)
LEMMA NamesNat == Names \in Nat
  <1>1. LoggerName \in Seq(STRING)
    BY ReloadOK
  <1> QED
    BY <1>1 DEF Names

(* A definition has a level and a sequence of appenders.                   *)
LEMMA DefinitionFacts ==
  ASSUME NEW d \in Definitions
  PROVE  /\ d.appenders \in Seq(AppDefs)
         /\ d.level \in Levels
  <1>1. d \in LogDefine
    <2>1. PICK c \in Configs, n \in Index : d = c[n] /\ c[n] # NoDef
      BY DEF Definitions
    <2>2. \A m \in 1..Names : c[m] # NoDef => c[m] \in LogDefine
      BY ReloadOK
    <2> QED
      BY <2>1, <2>2 DEF Index
  <1>2. d.appenders \in Seq(LogAppenderDefine)
    BY <1>1 DEF LogDefine
  <1>3. d.appenders \in Seq(AppDefs)
    <2> DEFINE as == d.appenders
    <2>1. Range(as) \subseteq AppDefs
      BY DEF AppDefs
    <2> HIDE DEF as
    <2>2. as \in Seq(Range(as))
      BY <1>2 DEF as, Range
    <2>3. \A S, T : S \subseteq T => Seq(S) \subseteq Seq(T)
      OBVIOUS
    <2> QED
      BY <2>1, <2>2, <2>3 DEF as
  <1> QED
    BY <1>3 DEF Levels

-----------------------------------------------------------------------------
(* The calls of the listener.                                              *)

(* The calls for one logger: those of its definition when that is new or   *)
(* changed, and those that undo it when it is gone.                        *)
Changed(old, new, n) == new[n] # NoDef /\ new[n] # old[n]
Removed(old, new, n) == new[n] = NoDef /\ old[n] # NoDef

Added(old, new)  == [n \in Index |-> IF Changed(old, new, n) THEN Define(n, new[n]) ELSE <<>>]
Undone(old, new) == [n \in Index |-> IF Removed(old, new, n) THEN Undefine(n) ELSE <<>>]

(* The listener's calls are those for the names that changed, then those   *)
(* for the names that are gone.                                            *)
LEMMA PlanIs ==
  ASSUME NEW old, NEW new
  PROVE  Plan(old, new) = FlattenSeq(Added(old, new)) \o FlattenSeq(Undone(old, new))
  BY DEF Plan, Added, Undone, Changed, Removed, Index

(* The call with which the clearing is done.                               *)
Cleared(d) == IF d.formatter \in Valid THEN 3 ELSE 2

AddCalls(n, d) == [i \in 1..Len(d.appenders) |->
                     [op |-> "add", logger |-> n, x |-> d.appenders[i]]]

(* The calls that add a definition's appenders, one for each.              *)
LEMMA AddsAre ==
  ASSUME NEW n \in Index, NEW d \in Definitions
  PROVE  /\ FlattenSeq([i \in DOMAIN d.appenders |-> Call("add", n, d.appenders[i])])
              = AddCalls(n, d)
         /\ AddCalls(n, d) \in Seq(Calls)
         /\ Len(AddCalls(n, d)) = Len(d.appenders)
  <1>1. d.appenders \in Seq(AppDefs)
    BY DefinitionFacts
  <1>2. \A i \in 1..Len(d.appenders) :
          [op |-> "add", logger |-> n, x |-> d.appenders[i]] \in Calls
    BY <1>1 DEF Calls, Given
  <1>3. AddCalls(n, d) \in Seq(Calls) /\ Len(AddCalls(n, d)) = Len(d.appenders)
    BY <1>1, <1>2 DEF AddCalls
  <1>4. FlattenSeq([i \in 1..Len(AddCalls(n, d)) |-> <<AddCalls(n, d)[i]>>])
          = AddCalls(n, d)
    BY <1>3, FlattenSingles
  <1>5. [i \in DOMAIN d.appenders |-> Call("add", n, d.appenders[i])]
          = [i \in 1..Len(AddCalls(n, d)) |-> <<AddCalls(n, d)[i]>>]
    BY <1>1, <1>3 DEF AddCalls, Call
  <1> QED
    BY <1>3, <1>4, <1>5

(* The calls of a definition: the level, the pattern if it is valid, the   *)
(* clearing, and the appenders.                                            *)
LEMMA DefineIs ==
  ASSUME NEW n \in Index, NEW d \in Definitions
  PROVE  /\ Define(n, d) \in Seq(Calls)
         /\ Len(Define(n, d)) = Cleared(d) + Len(d.appenders)
         /\ Define(n, d)[1] = [op |-> "level", logger |-> n, x |-> d.level]
         /\ d.formatter \in Valid =>
              Define(n, d)[2] = [op |-> "formatter", logger |-> n, x |-> d.formatter]
         /\ Define(n, d)[Cleared(d)] = [op |-> "clear", logger |-> n, x |-> 0]
         /\ \A i \in 1..Len(d.appenders) : Define(n, d)[Cleared(d) + i] = AddCalls(n, d)[i]
  <1> DEFINE A == AddCalls(n, d)
             l == [op |-> "level", logger |-> n, x |-> d.level]
             f == [op |-> "formatter", logger |-> n, x |-> d.formatter]
             c == [op |-> "clear", logger |-> n, x |-> 0]
  <1>1. A \in Seq(Calls) /\ Len(A) = Len(d.appenders)
    BY AddsAre
  <1>2. l \in Calls /\ c \in Calls /\ (d.formatter \in Valid => f \in Calls)
    BY DefinitionFacts DEF Calls, Given
  <1>3. Define(n, d) = <<l>> \o (IF d.formatter \in Valid THEN <<f>> ELSE <<>>) \o <<c>> \o A
    BY AddsAre DEF Define, SetFormatterIf, Call
  <1> HIDE DEF A, l, f, c
  <1>4. CASE d.formatter \in Valid
    <2>1. Define(n, d) = <<l>> \o <<f>> \o <<c>> \o A
      BY <1>3, <1>4
    <2> QED
      BY <1>1, <1>2, <1>4, <2>1, ThreeThen DEF Cleared, A, l, f, c
  <1>5. CASE d.formatter \notin Valid
    <2>1. Define(n, d) = <<l>> \o <<>> \o <<c>> \o A
      BY <1>3, <1>5
    <2> QED
      BY <1>1, <1>2, <1>5, <2>1, TwoThen DEF Cleared, A, l, c
  <1> QED
    BY <1>4, <1>5

(* A name that is gone costs two calls.                                    *)
LEMMA UndefineIs ==
  ASSUME NEW n \in Index
  PROVE  /\ Undefine(n) \in Seq(Calls) /\ Len(Undefine(n)) = 2
         /\ Undefine(n)[1] = [op |-> "level", logger |-> n, x |-> Unknow]
         /\ Undefine(n)[2] = [op |-> "clear", logger |-> n, x |-> 0]
  <1>1. /\ [op |-> "level", logger |-> n, x |-> Unknow] \in Calls
        /\ [op |-> "clear", logger |-> n, x |-> 0] \in Calls
    BY DEF Calls, Given, Levels
  <1> QED
    BY <1>1 DEF Undefine, Call

(* The listener makes finitely many calls.                                 *)
LEMMA PlanType ==
  ASSUME NEW old \in Configs, NEW new \in Configs
  PROVE  /\ Added(old, new) \in Seq(Seq(Calls)) /\ Len(Added(old, new)) = Names
         /\ Undone(old, new) \in Seq(Seq(Calls)) /\ Len(Undone(old, new)) = Names
         /\ Plan(old, new) \in Seq(Calls)
  <1>1. \A n \in Index : Changed(old, new, n) => new[n] \in Definitions
    BY DEF Changed, Definitions
  <1>2. \A n \in Index : Added(old, new)[n] \in Seq(Calls)
    <2> SUFFICES ASSUME NEW n \in Index PROVE Added(old, new)[n] \in Seq(Calls)
      OBVIOUS
    <2>1. CASE Changed(old, new, n)
      <3>1. Define(n, new[n]) \in Seq(Calls)
        BY <1>1, <2>1, DefineIs
      <3> QED
        BY <2>1, <3>1 DEF Added
    <2>2. CASE ~Changed(old, new, n)
      BY <2>2 DEF Added
    <2> QED
      BY <2>1, <2>2
  <1>3. \A n \in Index : Undone(old, new)[n] \in Seq(Calls)
    <2> SUFFICES ASSUME NEW n \in Index PROVE Undone(old, new)[n] \in Seq(Calls)
      OBVIOUS
    <2>1. Undefine(n) \in Seq(Calls)
      BY UndefineIs
    <2> QED
      BY <2>1 DEF Undone
  <1>4. /\ Added(old, new) \in Seq(Seq(Calls)) /\ Len(Added(old, new)) = Names
        /\ Undone(old, new) \in Seq(Seq(Calls)) /\ Len(Undone(old, new)) = Names
    BY <1>2, <1>3, NamesNat DEF Added, Undone, Index
  <1>5. FlattenSeq(Added(old, new)) \in Seq(Calls) /\ FlattenSeq(Undone(old, new)) \in Seq(Calls)
    BY <1>4, FlattenType
  <1>6. \A p, q \in Seq(Calls) : p \o q \in Seq(Calls)
    OBVIOUS
  <1> QED
    BY <1>4, <1>5, <1>6, PlanIs

-----------------------------------------------------------------------------
(* The types of the variables, and what the variable "logs" and its        *)
(* listener carry from one step to the next.                               *)

ReloadWhere == {"idle", "apply", "applied", "upgrade", "writing"}

ReloadType ==
  /\ hooked \in BOOLEAN /\ serial \in BOOLEAN
  /\ val \in Configs /\ told \in Configs \cup {NoVal}
  /\ pc \in [Thread -> ReloadWhere]
  /\ arg \in [Thread -> Configs \cup {NoVal}]
  /\ work \in [Thread -> Seq(Calls)]
  /\ level \in [Index -> Levels]
  /\ formatter \in [Index -> Valid]
  /\ appenders \in [Index -> Seq(Built)]

CallInv ==
  /\ \A t \in Thread : pc[t] # "idle" => arg[t] \in Configs
  /\ ~hooked => /\ \A t \in Thread : pc[t] = "idle"
                /\ readers = {} /\ writer = NoThread

Inv == ReloadType /\ CallInv /\ FollowsLogger

Step(t) ==
  \/ \E new \in Configs : SetBegin(t, new)
  \/ Apply(t)
  \/ Applied(t)
  \/ NotifyDone(t)
  \/ StoreLock(t)
  \/ Store(t)

(* The constructors establish the invariant.                               *)
LEMMA StartInv == Init => Inv
  <1> SUFFICES ASSUME Init PROVE Inv
    OBVIOUS
  <1>1. ReloadType
    <2>1. <<>> \in Seq(Calls) /\ <<>> \in Seq(Built) /\ Debug \in Levels
      BY DEF Levels
    <2> QED
      BY <2>1, ReloadOK DEF Init, ReloadType, Index, ReloadWhere
  <1>2. CallInv
    BY DEF Init, LockInit, CallInv
  <1>3. FollowsLogger
    BY DEF Init, FollowsLogger
  <1> QED
    BY <1>1, <1>2, <1>3 DEF Inv

(* What an appender has after setFormatter of its logger.                  *)
LEMMA RefitFacts ==
  ASSUME NEW s \in Seq(Built), NEW f \in Valid
  PROVE  /\ Refit(s, f) \in Seq(Built) /\ Len(Refit(s, f)) = Len(s)
         /\ \A i \in 1..Len(s) : /\ Refit(s, f)[i].own = s[i].own
                                 /\ ~s[i].own => Refit(s, f)[i].formatter = f
  <1>1. \A i \in 1..Len(s) :
          [s[i] EXCEPT !.formatter = f] \in Built /\ s[i] \in Built
    <2>1. \A b \in Built : [b EXCEPT !.formatter = f] \in Built
      BY DEF Built
    <2>2. \A i \in 1..Len(s) : s[i] \in Built
      OBVIOUS
    <2> QED
      BY <2>1, <2>2
  <1>2. Refit(s, f) = [i \in 1..Len(s) |->
                          IF s[i].own THEN s[i] ELSE [s[i] EXCEPT !.formatter = f]]
    <2>1. DOMAIN s = 1..Len(s)
      OBVIOUS
    <2> QED
      BY <2>1, Zenon DEF Refit
  <1>3. \A i \in 1..Len(s) : Refit(s, f)[i] \in Built
    BY <1>1, <1>2
  <1>4. Refit(s, f) \in Seq(Built) /\ Len(Refit(s, f)) = Len(s)
    <2>1. Refit(s, f) \in [1..Len(s) -> Built] /\ Len(s) \in Nat
      BY <1>2, <1>3
    <2> HIDE DEF Refit
    <2> QED
      BY <2>1
  <1>5. ASSUME NEW i \in 1..Len(s)
        PROVE  /\ Refit(s, f)[i].own = s[i].own
               /\ ~s[i].own => Refit(s, f)[i].formatter = f
    BY <1>1, <1>2 DEF Built
  <1> HIDE DEF Refit
  <1> QED
    BY <1>4, <1>5

(* An appender the listener makes has a valid formatter: its own or its    *)
(* logger's.                                                               *)
LEMMA BuildFacts ==
  ASSUME Inv, NEW n \in Index, NEW a \in AppDefs
  PROVE  /\ Build(n, a) \in Built
         /\ ~Build(n, a).own => Build(n, a).formatter = formatter[n]
  <1> DEFINE b == Build(n, a)
  <1>1. formatter[n] \in Valid
    BY DEF Inv, ReloadType
  <1>2. b.own = (a.formatter \in Valid)
    BY Zenon DEF Build
  <1>3. /\ b = [type |-> b.type, file |-> b.file, level |-> b.level, own |-> b.own,
                formatter |-> b.formatter]
        /\ b.type = a.type /\ b.file = a.file /\ b.level = a.level
        /\ b.formatter = IF a.formatter \in Valid THEN a.formatter ELSE formatter[n]
    BY Zenon DEF Build
  <1> HIDE DEF b
  <1>4. b.own \in BOOLEAN
    <2>1. CASE a.formatter \in Valid
      <3>1. b.own = TRUE
        BY <1>2, <2>1, Zenon
      <3> QED
        BY <3>1
    <2>2. CASE a.formatter \notin Valid
      <3>1. (a.formatter \in Valid) = FALSE
        BY <2>2
      <3>2. b.own = FALSE
        BY <1>2, <3>1, Zenon
      <3> QED
        BY <3>2
    <2> QED
      BY <2>1, <2>2
  <1>5. b \in Built
    BY <1>1, <1>3, <1>4 DEF Built
  <1>6. ~b.own => b.formatter = formatter[n]
    BY <1>2, <1>3, Zenon
  <1> QED
    BY <1>5, <1>6 DEF b

(* One call changes its logger only, and keeps the loggers' types.         *)
LEMMA DoOne ==
  ASSUME Inv, NEW c \in Calls, Do(c)
  PROVE  /\ level' \in [Index -> Levels] /\ formatter' \in [Index -> Valid]
         /\ appenders' \in [Index -> Seq(Built)]
         /\ c.logger \in Index
         /\ \A n \in Index \ {c.logger} :
              /\ level'[n] = level[n] /\ formatter'[n] = formatter[n]
              /\ appenders'[n] = appenders[n]
         /\ FollowsLogger'
  <1> DEFINE m == c.logger
  <1>1. /\ level \in [Index -> Levels] /\ formatter \in [Index -> Valid]
        /\ appenders \in [Index -> Seq(Built)] /\ m \in Index
    BY DEF Inv, ReloadType, Calls
  <1>2. ASSUME NEW n \in Index, NEW i \in 1..Len(appenders[n]), ~appenders[n][i].own
        PROVE  appenders[n][i].formatter = formatter[n]
    BY <1>1, <1>2 DEF Inv, FollowsLogger, Index
  <1>3. CASE c.op = "level"
    <2>1. /\ level' = [level EXCEPT ![m] = c.x] /\ c.x \in Levels
          /\ UNCHANGED <<formatter, appenders>>
      BY <1>3 DEF Do, Calls
    <2>2. FollowsLogger'
      BY <2>1 DEF Inv, FollowsLogger
    <2> QED
      BY <1>1, <2>1, <2>2
  <1>4. CASE c.op = "formatter"
    <2>1. /\ formatter' = [formatter EXCEPT ![m] = c.x] /\ c.x \in Valid
          /\ appenders' = [appenders EXCEPT ![m] = Refit(@, c.x)]
          /\ UNCHANGED level
      BY <1>4 DEF Do, Calls
    <2>2. /\ Refit(appenders[m], c.x) \in Seq(Built)
          /\ Len(Refit(appenders[m], c.x)) = Len(appenders[m])
          /\ \A i \in 1..Len(appenders[m]) :
               /\ Refit(appenders[m], c.x)[i].own = appenders[m][i].own
               /\ ~appenders[m][i].own => Refit(appenders[m], c.x)[i].formatter = c.x
      <3>1. appenders[m] \in Seq(Built) /\ c.x \in Valid
        BY <1>1, <2>1
      <3> HIDE DEF m
      <3> QED
        BY <3>1, RefitFacts
    <2>3. /\ appenders' \in [Index -> Seq(Built)]
          /\ appenders'[m] = Refit(appenders[m], c.x) /\ formatter'[m] = c.x
          /\ \A n \in Index \ {m} : appenders'[n] = appenders[n] /\ formatter'[n] = formatter[n]
      BY <1>1, <2>1, <2>2
    <2>4. ASSUME NEW n \in Index, NEW i \in DOMAIN appenders'[n], ~appenders'[n][i].own
          PROVE  appenders'[n][i].formatter = formatter'[n]
      <3>1. i \in 1..Len(appenders'[n])
        BY <2>3
      <3>2. CASE n = m
        BY <2>2, <2>3, <2>4, <3>1, <3>2
      <3>3. CASE n # m
        BY <1>2, <2>3, <2>4, <3>1, <3>3
      <3> QED
        BY <3>2, <3>3
    <2>5. FollowsLogger'
      BY <2>4 DEF FollowsLogger, Index
    <2> QED
      BY <1>1, <2>1, <2>3, <2>5
  <1>5. CASE c.op = "clear"
    <2>1. /\ appenders' = [appenders EXCEPT ![m] = <<>>]
          /\ UNCHANGED <<level, formatter>>
      BY <1>5 DEF Do
    <2>2. /\ appenders' \in [Index -> Seq(Built)]
          /\ \A n \in Index \ {m} : appenders'[n] = appenders[n]
          /\ appenders'[m] = <<>>
      BY <1>1, <2>1
    <2>3. ASSUME NEW n \in Index, NEW i \in DOMAIN appenders'[n], ~appenders'[n][i].own
          PROVE  appenders'[n][i].formatter = formatter'[n]
      BY <1>1, <1>2, <2>1, <2>2, <2>3
    <2>4. FollowsLogger'
      BY <2>3 DEF FollowsLogger, Index
    <2> QED
      BY <1>1, <2>1, <2>2, <2>4
  <1>6. CASE c.op = "add"
    <2>1. /\ appenders' = [appenders EXCEPT ![m] = Append(@, Build(m, c.x))]
          /\ UNCHANGED <<level, formatter>> /\ c.x \in AppDefs
      BY <1>6 DEF Do, Calls
    <2>2. /\ Build(m, c.x) \in Built
          /\ ~Build(m, c.x).own => Build(m, c.x).formatter = formatter[m]
      BY <1>1, <2>1, BuildFacts
    <2>3. /\ appenders' \in [Index -> Seq(Built)]
          /\ \A n \in Index \ {m} : appenders'[n] = appenders[n]
          /\ appenders'[m] = Append(appenders[m], Build(m, c.x))
      BY <1>1, <2>1, <2>2
    <2>4. ASSUME NEW n \in Index, NEW i \in DOMAIN appenders'[n], ~appenders'[n][i].own
          PROVE  appenders'[n][i].formatter = formatter'[n]
      <3>1. i \in 1..Len(appenders'[n])
        BY <2>3
      <3>2. CASE n # m
        BY <1>2, <2>1, <2>3, <2>4, <3>1, <3>2
      <3>3. CASE n = m /\ i = Len(appenders[m]) + 1
        <4>1. appenders'[n][i] = Build(m, c.x)
          BY <1>1, <2>2, <2>3, <3>3
        <4> QED
          BY <2>1, <2>2, <2>4, <3>3, <4>1
      <3>4. CASE n = m /\ i # Len(appenders[m]) + 1
        <4>1. i \in 1..Len(appenders[m]) /\ appenders'[n][i] = appenders[n][i]
          BY <1>1, <2>2, <2>3, <3>1, <3>4
        <4> QED
          BY <1>2, <2>1, <2>4, <3>4, <4>1
      <3> QED
        BY <3>2, <3>3, <3>4
    <2>5. FollowsLogger'
      BY <2>4 DEF FollowsLogger, Index
    <2> QED
      BY <1>1, <2>1, <2>3, <2>5
  <1> QED
    BY <1>3, <1>4, <1>5, <1>6 DEF Calls

(* The next call of the listener, and the ones it leaves.                  *)
LEMMA NextCall ==
  ASSUME Inv, NEW t \in Thread, work[t] # <<>>
  PROVE  /\ Head(work[t]) \in Calls /\ Head(work[t]) = work[t][1]
         /\ Tail(work[t]) \in Seq(Calls) /\ Len(Tail(work[t])) = Len(work[t]) - 1
         /\ \A i \in 1..Len(Tail(work[t])) : Tail(work[t])[i] = work[t][i + 1]
         /\ Len(work[t]) \in Nat \ {0}
  <1>1. work[t] \in Seq(Calls)
    BY DEF Inv, ReloadType
  <1> QED
    BY <1>1

(* Every step of a thread preserves the invariant, ...                     *)
LEMMA StepInv ==
  ASSUME Inv, NEW t \in Thread, Step(t)
  PROVE  Inv'
  <1> USE DEF ReloadWhere
  <1>1. ReloadType /\ CallInv /\ FollowsLogger
    BY DEF Inv
  <1>2. CASE \E new \in Configs : SetBegin(t, new)
    <2>1. PICK new \in Configs : SetBegin(t, new)
      BY <1>2
    <2>2. Plan(val, new) \in Seq(Calls)
      BY <1>1, PlanType DEF ReloadType
    <2>3. work' \in [Thread -> Seq(Calls)]
      BY <1>1, <2>1, <2>2 DEF SetBegin, ReloadType
    <2>4. ReloadType'
      BY <1>1, <2>1, <2>3 DEF SetBegin, Goto, ReloadType, logState
    <2>5. CallInv'
      BY <1>1, <2>1 DEF SetBegin, Goto, ReloadType, CallInv
    <2>6. FollowsLogger'
      BY <1>1, <2>1 DEF SetBegin, logState, FollowsLogger
    <2> QED
      BY <2>4, <2>5, <2>6 DEF Inv
  <1>3. CASE Apply(t)
    <2>1. /\ work[t] # <<>> /\ Do(Head(work[t])) /\ UNCHANGED varState
          /\ work' = [work EXCEPT ![t] = Tail(@)]
      BY <1>3 DEF Apply
    <2>2. /\ level' \in [Index -> Levels] /\ formatter' \in [Index -> Valid]
          /\ appenders' \in [Index -> Seq(Built)] /\ FollowsLogger'
      BY <2>1, NextCall, DoOne
    <2>3. work' \in [Thread -> Seq(Calls)]
      BY <1>1, <2>1, NextCall DEF ReloadType
    <2> QED
      BY <1>1, <2>1, <2>2, <2>3 DEF Inv, ReloadType, CallInv, varState
  <1>4. CASE Applied(t) \/ NotifyDone(t) \/ StoreLock(t) \/ Store(t)
    <2>1. FollowsLogger' /\ UNCHANGED <<logState, work, hooked, serial>>
      BY <1>1, <1>4
      DEF Applied, NotifyDone, StoreLock, Store, logState, FollowsLogger
    <2>2. pc[t] # "idle" /\ arg[t] \in Configs /\ hooked
      BY <1>1, <1>4 DEF Applied, NotifyDone, StoreLock, Store, Goto, CallInv
    <2>3. ReloadType'
      BY <1>1, <1>4, <2>1, <2>2
      DEF Applied, NotifyDone, StoreLock, Store, Goto, ReloadType, logState
    <2>4. CallInv'
      BY <1>1, <1>4, <2>1, <2>2
      DEF Applied, NotifyDone, StoreLock, Store, Goto, ReloadType, CallInv
    <2> QED
      BY <2>1, <2>3, <2>4 DEF Inv
  <1> QED
    BY <1>2, <1>3, <1>4 DEF Step

(* ... and so does every step of the system.                               *)
LEMMA NextInv == Inv /\ [Next]_vars => Inv'
  <1> SUFFICES ASSUME Inv, [Next]_vars PROVE Inv'
    OBVIOUS
  <1>1. CASE Hook
    BY <1>1 DEF Hook, Inv, ReloadType, CallInv, FollowsLogger, logState
  <1>2. CASE \E t \in Thread : Step(t)
    BY <1>2, StepInv
  <1>3. CASE UNCHANGED vars
    BY <1>3 DEF vars, varState, logState, Inv, ReloadType, CallInv, FollowsLogger
  <1> QED
    BY <1>1, <1>2, <1>3 DEF Next, Step

(* The types hold, and no call of setValue begins before the listener is   *)
(* registered.                                                             *)
THEOREM ReloadInductive == Spec => []Inv
  BY StartInv, NextInv, PTL DEF Spec

(* Loggers and appenders never have a formatter that LogFormatter refuses. *)
THEOREM ReloadTyped == Spec => []TypeOK
  <1>1. Inv => TypeOK
    <2> SUFFICES ASSUME Inv PROVE TypeOK
      OBVIOUS
    <2>1. ASSUME NEW n \in Index, NEW i \in DOMAIN appenders[n]
          PROVE  appenders[n][i].formatter \in Valid
      <3>1. appenders[n][i] \in Built
        BY DEF Inv, ReloadType
      <3> QED
        BY <3>1 DEF Built
    <2> QED
      BY <2>1 DEF Inv, ReloadType, TypeOK, Index
  <1> QED
    BY <1>1, ReloadInductive, PTL

(* Whichever reloads overlap, an appender without a formatter of its own   *)
(* has its logger's (log.h:242-252, log.cc:206-214).                       *)
THEOREM AppendersFollow == Spec => []FollowsLogger
  <1>1. Inv => FollowsLogger
    BY DEF Inv
  <1> QED
    BY <1>1, ReloadInductive, PTL

-----------------------------------------------------------------------------
(* The variable "logs" is a ConfigVar with one listener.  ConfigVar's      *)
(* variables, as CV maps them:                                             *)
CVpc   == [t \in Thread |-> IF pc[t] \in {"apply", "applied"} THEN "notify" ELSE pc[t]]
CVtodo == [t \in Thread |-> IF pc[t] = "apply" THEN {1} ELSE {}]
CVtold == [id \in {1} |-> told]
CVcbs  == IF hooked THEN {1} ELSE {}
CVid   == IF hooked THEN 1 ELSE 0

(* Initial states map to initial states.                                   *)
LEMMA MapInit == Init => CV!Init
  <1> SUFFICES ASSUME Init PROVE CV!Init
    OBVIOUS
  <1>1. CVpc = [t \in Thread |-> "idle"] /\ CVtodo = [t \in Thread |-> {}]
    BY DEF Init, CVpc, CVtodo
  <1>2. CV!Id = {1}
    BY DEF CV!Id
  <1> QED
    BY <1>1, <1>2 DEF Init, CV!Init, LockInit, CV!LockInit, CVpc, CVtodo

(* LogIniter's constructor registers the listener.                         *)
LEMMA MapHook ==
  ASSUME Inv, Hook
  PROVE  \E t \in Thread : CV!AddListener(t)
  <1>1. PICK t \in Thread : TRUE
    BY ReloadOK
  <1>2. /\ \A u \in Thread : pc[u] = "idle"
        /\ readers = {} /\ writer = NoThread
    BY DEF Hook, Inv, CallInv
  <1>3. CVpc = [u \in Thread |-> "idle"]
    BY <1>2 DEF CVpc
  <1>4. ~ \E u \in Thread : CVpc[u] \in {"notify", "upgrade", "writing"}
    BY <1>3
  <1>5. CVtold' = [CVtold EXCEPT ![1] = val]
    BY DEF Hook, CVtold
  <1>6. CV!AddListener(t)
    BY <1>2, <1>3, <1>4, <1>5
    DEF Hook, CV!AddListener, CV!WrFree, CV!NextId, CV!Found, CV!InSet, CVpc, CVtold
  <1> QED
    BY <1>6

(* What Goto does to the mapped program counter.                           *)
LEMMA MapGoto ==
  ASSUME Inv, NEW t \in Thread, NEW to \in ReloadWhere,
         pc' = [pc EXCEPT ![t] = to]
  PROVE  /\ CVpc' = [CVpc EXCEPT ![t] = IF to \in {"apply", "applied"} THEN "notify" ELSE to]
         /\ CVtodo' = [CVtodo EXCEPT ![t] = IF to = "apply" THEN {1} ELSE {}]
  <1>1. pc' \in [Thread -> ReloadWhere] /\ pc'[t] = to
        /\ \A u \in Thread \ {t} : pc'[u] = pc[u]
    BY DEF Inv, ReloadType
  <1> QED
    BY <1>1 DEF CVpc, CVtodo

(* Every step of setValue and of its listener maps to one of ConfigVar:    *)
(* the call, ...                                                           *)
LEMMA MapSetBegin ==
  ASSUME Inv, NEW t \in Thread, NEW new \in Configs, SetBegin(t, new)
  PROVE  CV!SetBegin(t, new)
  <1>1. /\ CVpc' = [CVpc EXCEPT ![t] = "notify"] /\ CVpc[t] = "idle"
        /\ CVtodo' = [CVtodo EXCEPT ![t] = CVcbs]
    BY MapGoto DEF SetBegin, Goto, ReloadWhere, CVpc, CVcbs
  <1>2. (\A u \in Thread : pc[u] = "idle")
          = (\A u \in Thread : ~CVpc[u] \in {"notify", "upgrade", "writing"})
    <2>1. \A u \in Thread : pc[u] = "idle" <=> ~CVpc[u] \in {"notify", "upgrade", "writing"}
      BY DEF Inv, ReloadType, ReloadWhere, CVpc
    <2> QED
      BY <2>1
  <1> QED
    BY <1>1, <1>2
    DEF SetBegin, RdLock, RdFree, CV!SetBegin, CV!Goto, CV!RdLock, CV!RdFree, CV!InSet,
        CVpc, CVtodo, CVcbs, logState

(* ... the end of the listener, ...                                        *)
LEMMA MapApplied ==
  ASSUME Inv, NEW t \in Thread, Applied(t)
  PROVE  CV!Notify(t, 1)
  <1>1. /\ CVpc' = [CVpc EXCEPT ![t] = "notify"] /\ CVpc[t] = "notify"
        /\ CVtodo' = [CVtodo EXCEPT ![t] = {}] /\ CVtodo[t] = {1}
    BY MapGoto DEF Applied, Goto, ReloadWhere, CVpc, CVtodo
  <1>2. CVpc' = CVpc /\ CVtodo' = [CVtodo EXCEPT ![t] = @ \ {1}]
    BY <1>1 DEF CVpc, CVtodo
  <1>3. CVtold' = [CVtold EXCEPT ![1] = arg[t]]
    BY DEF Applied, CVtold
  <1> QED
    BY <1>1, <1>2, <1>3 DEF Applied, CV!Notify, CVpc, CVtodo, CVtold

(* ... the release of the reader's lock, ...                               *)
LEMMA MapNotifyDone ==
  ASSUME Inv, NEW t \in Thread, NotifyDone(t)
  PROVE  CV!NotifyDone(t)
  <1>1. /\ CVpc' = [CVpc EXCEPT ![t] = "upgrade"] /\ CVpc[t] = "notify"
        /\ CVtodo' = [CVtodo EXCEPT ![t] = {}] /\ CVtodo[t] = {}
    BY MapGoto DEF NotifyDone, Goto, ReloadWhere, CVpc, CVtodo
  <1>2. CVtodo' = CVtodo
    BY <1>1 DEF CVtodo
  <1> QED
    BY <1>1, <1>2
    DEF NotifyDone, RdUnlock, CV!NotifyDone, CV!Goto, CV!RdUnlock, CV!history,
        CVpc, CVtodo

(* ... the writer's lock, ...                                              *)
LEMMA MapStoreLock ==
  ASSUME Inv, NEW t \in Thread, StoreLock(t)
  PROVE  CV!StoreLock(t)
  <1>1. /\ CVpc' = [CVpc EXCEPT ![t] = "writing"] /\ CVpc[t] = "upgrade"
        /\ CVtodo' = [CVtodo EXCEPT ![t] = {}] /\ CVtodo[t] = {}
    BY MapGoto DEF StoreLock, Goto, ReloadWhere, CVpc, CVtodo
  <1>2. CVtodo' = CVtodo
    BY <1>1 DEF CVtodo
  <1> QED
    BY <1>1, <1>2
    DEF StoreLock, WrLock, WrFree, CV!StoreLock, CV!Goto, CV!WrLock, CV!WrFree, CV!history,
        CVpc, CVtodo

(* ... and the store.                                                      *)
LEMMA MapStore ==
  ASSUME Inv, NEW t \in Thread, Store(t)
  PROVE  CV!Store(t)
  <1>1. /\ CVpc' = [CVpc EXCEPT ![t] = "idle"] /\ CVpc[t] = "writing"
        /\ CVtodo' = [CVtodo EXCEPT ![t] = {}] /\ CVtodo[t] = {}
    BY MapGoto DEF Store, Goto, ReloadWhere, CVpc, CVtodo
  <1>2. CVtodo' = CVtodo
    BY <1>1 DEF CVtodo
  <1> QED
    BY <1>1, <1>2
    DEF Store, WrUnlock, CV!Store, CV!Goto, CV!WrUnlock, CV!history, CVpc, CVtodo

(* The loggers are none of the variable's business.                        *)
LEMMA MapSilent ==
  ASSUME UNCHANGED varState
  PROVE  UNCHANGED CV!vars
  BY DEF varState, CV!vars, CV!history

(* Every step maps to a step of ConfigVar or to a stutter.                 *)
LEMMA MapNext == Inv /\ [Next]_vars => [CV!Next]_(CV!vars)
  <1> SUFFICES ASSUME Inv, [Next]_vars PROVE CV!Next \/ UNCHANGED CV!vars
    OBVIOUS
  <1>1. CASE Hook
    BY <1>1, MapHook DEF CV!Next
  <1>2. ASSUME NEW t \in Thread, Step(t)
        PROVE  CV!Next \/ UNCHANGED CV!vars
    <2>1. CASE \E new \in Configs : SetBegin(t, new)
      BY <2>1, MapSetBegin DEF CV!Next
    <2>2. CASE Apply(t)
      BY <2>2, MapSilent DEF Apply
    <2>3. CASE Applied(t)
      <3>1. CV!Notify(t, 1) /\ 1 \in CV!Id
        BY <2>3, MapApplied DEF CV!Id
      <3> QED
        BY <3>1 DEF CV!Next, CV!SetStep
    <2>4. CASE NotifyDone(t)
      BY <2>4, MapNotifyDone DEF CV!Next, CV!SetStep
    <2>5. CASE StoreLock(t)
      BY <2>5, MapStoreLock DEF CV!Next
    <2>6. CASE Store(t)
      BY <2>6, MapStore DEF CV!Next, CV!SetStep
    <2> QED
      BY <1>2, <2>1, <2>2, <2>3, <2>4, <2>5, <2>6 DEF Step
  <1>3. CASE UNCHANGED vars
    BY <1>3, MapSilent DEF vars
  <1> QED
    BY <1>1, <1>2, <1>3 DEF Next, Step

(* A reload is a setValue of the variable with one listener, however its   *)
(* calls interleave with those of other reloads (config.h:258-328,         *)
(* log.cc:477-533).                                                        *)
THEOREM ReloadIsConfigVar == Spec => ImplementsConfigVar
  <1>1. Spec => CV!Spec
    BY MapInit, MapNext, ReloadInductive, PTL DEF Spec, CV!Spec
  <1> QED
    BY <1>1 DEF ImplementsConfigVar

-----------------------------------------------------------------------------
(* The loggers at rest.                                                    *)

(* The calls of a plan that are for logger n, and where they are: one      *)
(* block, which starts behind position b.                                  *)
For(old, new, n) ==
  IF Changed(old, new, n) THEN Define(n, new[n])
  ELSE IF Removed(old, new, n) THEN Undefine(n) ELSE <<>>

PlanBlock(old, new, n, b) ==
  LET P == Plan(old, new)
      C == For(old, new, n)
  IN  /\ b + Len(C) <= Len(P)
      /\ \A j \in 1..Len(C) : P[b + j] = C[j]
      /\ \A k \in 1..Len(P) : k \in (b + 1)..(b + Len(C)) \/ P[k].logger # n

Start(old, new, n) == CHOOSE b \in 0..Len(Plan(old, new)) : PlanBlock(old, new, n, b)

(* Logger n is what the configuration says.                                *)
Configured(n, d) == IF d = NoDef THEN appenders[n] = <<>> ELSE Matches(n, d)

(* Logger n after j of its calls: j is not positive before the first and   *)
(* grows on behind the last.                                               *)
Halfway(old, new, n, j) ==
  LET d == new[n] IN
  /\ Changed(old, new, n) =>
       /\ j >= 1 => level[n] = d.level
       /\ d.formatter \in Valid /\ j >= 2 => formatter[n] = d.formatter
       /\ j >= Cleared(d) =>
            appenders[n] = [i \in {a \in 1..Len(d.appenders) : a <= j - Cleared(d)} |->
                              Build(n, d.appenders[i])]
  /\ Removed(old, new, n) /\ j >= 2 => appenders[n] = <<>>
  /\ ~Changed(old, new, n) /\ ~Removed(old, new, n) => Configured(n, d)

(* The listener of thread t has made the first k calls of its plan.        *)
InPlan(t, old, new, k) ==
  /\ val = old /\ arg[t] = new
  /\ Len(work[t]) = Len(Plan(old, new)) - k
  /\ \A i \in 1..Len(work[t]) : work[t][i] = Plan(old, new)[k + i]
  /\ \A n \in Index : Halfway(old, new, n, k - Start(old, new, n))

InReload(t) == \E old \in Configs, new \in Configs, k \in Nat : InPlan(t, old, new, k)

RestInv ==
  serial =>
    /\ \A t, u \in Thread : pc[t] # "idle" /\ pc[u] # "idle" => t = u
    /\ (\A t \in Thread : pc[t] = "idle") => \A n \in Index : Configured(n, val[n])
    /\ \A t \in Thread : pc[t] = "apply" => InReload(t)
    /\ \A t \in Thread : pc[t] \in {"applied", "upgrade", "writing"} =>
         \A n \in Index : Configured(n, arg[t][n])

(* The calls of a definition, and of an undefinition, are for its logger.  *)
LEMMA OwnCalls ==
  ASSUME NEW old \in Configs, NEW new \in Configs, NEW n \in Index
  PROVE  /\ \A j \in 1..Len(Added(old, new)[n]) : Added(old, new)[n][j].logger = n
         /\ \A j \in 1..Len(Undone(old, new)[n]) : Undone(old, new)[n][j].logger = n
  <1>1. ASSUME Changed(old, new, n)
        PROVE  \A j \in 1..Len(Added(old, new)[n]) : Added(old, new)[n][j].logger = n
    <2> DEFINE d == new[n]
    <2>1. d \in Definitions
      BY <1>1 DEF Changed, Definitions
    <2>2. Added(old, new)[n] = Define(n, d)
      BY <1>1 DEF Added
    <2> HIDE DEF d
    <2>3. /\ Len(Define(n, d)) = Cleared(d) + Len(d.appenders)
          /\ Define(n, d)[1].logger = n
          /\ d.formatter \in Valid => Define(n, d)[2].logger = n
          /\ Define(n, d)[Cleared(d)].logger = n
          /\ \A i \in 1..Len(d.appenders) : Define(n, d)[Cleared(d) + i].logger = n
      <3> DEFINE D == Define(n, d)
                 l == [op |-> "level", logger |-> n, x |-> d.level]
                 f == [op |-> "formatter", logger |-> n, x |-> d.formatter]
                 c == [op |-> "clear", logger |-> n, x |-> 0]
      <3>1. /\ Len(D) = Cleared(d) + Len(d.appenders)
            /\ D[1] = l /\ (d.formatter \in Valid => D[2] = f) /\ D[Cleared(d)] = c
            /\ \A i \in 1..Len(d.appenders) : D[Cleared(d) + i] = AddCalls(n, d)[i]
        BY <2>1, DefineIs, Zenon
      <3>2. l.logger = n /\ f.logger = n /\ c.logger = n
        OBVIOUS
      <3>3. \A i \in 1..Len(d.appenders) : AddCalls(n, d)[i].logger = n
        BY DEF AddCalls
      <3> HIDE DEF D, l, f, c
      <3> QED
        BY <3>1, <3>2, <3>3 DEF D
    <2>4. d.appenders \in Seq(AppDefs)
      BY <2>1, DefinitionFacts
    <2>5. ASSUME NEW j \in 1..(Cleared(d) + Len(d.appenders))
          PROVE  Define(n, d)[j].logger = n
      <3>1. \/ j = 1 \/ j = Cleared(d) \/ (j = 2 /\ d.formatter \in Valid)
            \/ j - Cleared(d) \in 1..Len(d.appenders)
        <4>1. Len(d.appenders) \in Nat
          BY <2>4
        <4> HIDE DEF Definitions
        <4>2. CASE d.formatter \in Valid
          BY <4>1, <4>2 DEF Cleared
        <4>3. CASE d.formatter \notin Valid
          BY <4>1, <4>3 DEF Cleared
        <4> QED
          BY <4>2, <4>3
      <3>2. CASE j - Cleared(d) \in 1..Len(d.appenders)
        <4> DEFINE i == j - Cleared(d)
        <4>1. i \in 1..Len(d.appenders) /\ Cleared(d) + i = j
          BY <3>2 DEF Cleared
        <4> QED
          BY <2>3, <4>1
      <3> QED
        BY <2>3, <3>1, <3>2
    <2> QED
      BY <2>2, <2>3, <2>5
  <1>2. ASSUME ~Changed(old, new, n)
        PROVE  Len(Added(old, new)[n]) = 0
    BY <1>2 DEF Added
  <1>3. \A j \in 1..Len(Undone(old, new)[n]) : Undone(old, new)[n][j].logger = n
    <2>1. CASE Removed(old, new, n)
      <3>1. Undone(old, new)[n] = Undefine(n)
        BY <2>1 DEF Undone
      <3>2. /\ Len(Undefine(n)) = 2
            /\ Undefine(n)[1].logger = n /\ Undefine(n)[2].logger = n
        <4> DEFINE l == [op |-> "level", logger |-> n, x |-> Unknow]
                   c == [op |-> "clear", logger |-> n, x |-> 0]
        <4>1. Len(Undefine(n)) = 2 /\ Undefine(n)[1] = l /\ Undefine(n)[2] = c
          BY UndefineIs, Zenon
        <4>2. l.logger = n /\ c.logger = n
          OBVIOUS
        <4> HIDE DEF l, c
        <4> QED
          BY <4>1, <4>2
      <3>3. \A j \in 1..2 : j = 1 \/ j = 2
        OBVIOUS
      <3> QED
        BY <3>1, <3>2, <3>3
    <2>2. CASE ~Removed(old, new, n)
      BY <2>2 DEF Undone
    <2> QED
      BY <2>1, <2>2
  <1>4. CASE Changed(old, new, n)
    BY <1>1, <1>3, <1>4
  <1>5. CASE ~Changed(old, new, n)
    <2>1. \A j \in 1..0 : Added(old, new)[n][j].logger = n
      OBVIOUS
    <2> QED
      BY <1>2, <1>3, <1>5, <2>1
  <1> QED
    BY <1>4, <1>5

(* The calls planned for a name are made on its logger.                    *)
LEMMA OwnFor ==
  ASSUME NEW old \in Configs, NEW new \in Configs, NEW n \in Index
  PROVE  \A j \in 1..Len(For(old, new, n)) : For(old, new, n)[j].logger = n
  <1>1. CASE Changed(old, new, n)
    <2>1. For(old, new, n) = Added(old, new)[n]
      BY <1>1 DEF For, Added
    <2> QED
      BY <2>1, OwnCalls
  <1>2. CASE ~Changed(old, new, n)
    <2>1. For(old, new, n) = Undone(old, new)[n]
      BY <1>2 DEF For, Undone
    <2> QED
      BY <2>1, OwnCalls
  <1> QED
    BY <1>1, <1>2

(* In the concatenation of sequences of calls, one sequence for each       *)
(* logger, the calls for a logger are one block.                           *)
LEMMA OwnBlock ==
  ASSUME NEW s \in Seq(Seq(Calls)), Len(s) = Names, NEW n \in Index,
         \A m \in Index : \A j \in 1..Len(s[m]) : s[m][j].logger = m
  PROVE  \E b \in Nat :
           /\ b + Len(s[n]) <= Len(FlattenSeq(s))
           /\ \A j \in 1..Len(s[n]) : FlattenSeq(s)[b + j] = s[n][j]
           /\ \A k \in 1..Len(FlattenSeq(s)) :
                k \in (b + 1)..(b + Len(s[n])) \/ FlattenSeq(s)[k].logger # n
  <1>1. n \in 1..Len(s)
    BY DEF Index
  <1>2. PICK b \in Nat : Block(s, n, b)
    BY <1>1, FlattenBlock
  <1>3. ASSUME NEW k \in 1..Len(FlattenSeq(s)), k \notin (b + 1)..(b + Len(s[n]))
        PROVE  FlattenSeq(s)[k].logger # n
    <2>1. PICK m \in 1..Len(s) : m # n /\ \E j \in 1..Len(s[m]) : FlattenSeq(s)[k] = s[m][j]
      BY <1>2, <1>3 DEF Block
    <2>2. m \in Index
      BY DEF Index
    <2> QED
      BY <2>1, <2>2
  <1> QED
    BY <1>2, <1>3 DEF Block

(* The calls for one name are a block of the plan, and Start is where it   *)
(* begins.                                                                 *)
LEMMA StartIs ==
  ASSUME NEW old \in Configs, NEW new \in Configs, NEW n \in Index
  PROVE  /\ Start(old, new, n) \in 0..Len(Plan(old, new))
         /\ PlanBlock(old, new, n, Start(old, new, n))
  <1> DEFINE A == Added(old, new)
             U == Undone(old, new)
             F == FlattenSeq(A)
             G == FlattenSeq(U)
             P == Plan(old, new)
             C == For(old, new, n)
  <1>1. /\ A \in Seq(Seq(Calls)) /\ Len(A) = Names
        /\ U \in Seq(Seq(Calls)) /\ Len(U) = Names
    BY PlanType
  <1>2. /\ \A m \in Index : \A j \in 1..Len(A[m]) : A[m][j].logger = m
        /\ \A m \in Index : \A j \in 1..Len(U[m]) : U[m][j].logger = m
    BY OwnCalls
  <1>3. F \in Seq(Calls) /\ G \in Seq(Calls) /\ P = F \o G
    BY <1>1, FlattenType, PlanIs
  <1>4. /\ A[n] = IF Changed(old, new, n) THEN C ELSE <<>>
        /\ U[n] = IF Changed(old, new, n) THEN <<>> ELSE C
    BY DEF Added, Undone, For, Changed, Removed
  <1> HIDE DEF A, U
  <1>5. PICK a \in Nat :
           /\ a + Len(A[n]) <= Len(F)
           /\ \A j \in 1..Len(A[n]) : F[a + j] = A[n][j]
           /\ \A k \in 1..Len(F) : k \in (a + 1)..(a + Len(A[n])) \/ F[k].logger # n
    BY <1>1, <1>2, OwnBlock
  <1>6. PICK u \in Nat :
           /\ u + Len(U[n]) <= Len(G)
           /\ \A j \in 1..Len(U[n]) : G[u + j] = U[n][j]
           /\ \A k \in 1..Len(G) : k \in (u + 1)..(u + Len(U[n])) \/ G[k].logger # n
    BY <1>1, <1>2, OwnBlock
  <1>7. A[n] \in Seq(Calls) /\ U[n] \in Seq(Calls)
    BY <1>1 DEF Index
  <1> HIDE DEF F, G, P, C
  <1>8. /\ Len(P) = Len(F) + Len(G) /\ Len(F) \in Nat /\ Len(G) \in Nat
        /\ \A k \in 1..Len(F) : P[k] = F[k]
        /\ \A k \in 1..Len(G) : P[Len(F) + k] = G[k]
    BY <1>3
  <1>9. \E b \in 0..Len(P) : PlanBlock(old, new, n, b)
    <2>1. CASE Changed(old, new, n)
      <3>1. A[n] = C /\ Len(U[n]) = 0 /\ Len(C) \in Nat
        BY <1>4, <1>7, <2>1
      <3>2. a + Len(C) <= Len(F) /\ a \in 0..Len(P)
        BY <1>5, <1>8, <3>1
      <3>3. ASSUME NEW j \in 1..Len(C)
            PROVE  P[a + j] = C[j]
        <4>1. a + j \in 1..Len(F)
          BY <3>1, <3>2
        <4> QED
          BY <1>5, <1>8, <3>1, <4>1
      <3>4. ASSUME NEW k \in 1..Len(P)
            PROVE  k \in (a + 1)..(a + Len(C)) \/ P[k].logger # n
        <4>1. CASE k \in 1..Len(F)
          BY <1>5, <1>8, <3>1, <4>1
        <4>2. CASE k \notin 1..Len(F)
          <5> DEFINE i == k - Len(F)
          <5>1. i \in 1..Len(G) /\ Len(F) + i = k
            BY <1>8, <4>2
          <5>2. G[i].logger # n
            BY <1>6, <3>1, <5>1
          <5>3. P[k] = G[i]
            BY <1>8, <5>1
          <5> QED
            BY <5>2, <5>3
        <4> QED
          BY <4>1, <4>2
      <3>5. a + Len(C) <= Len(P)
        BY <1>8, <3>1, <3>2
      <3>6. PlanBlock(old, new, n, a)
        BY <3>3, <3>4, <3>5 DEF PlanBlock, P, C
      <3> QED
        BY <3>2, <3>6
    <2>2. CASE ~Changed(old, new, n)
      <3> DEFINE b == Len(F) + u
      <3>1. U[n] = C /\ Len(A[n]) = 0 /\ Len(C) \in Nat
        BY <1>4, <1>7, <2>2
      <3>2. b + Len(C) <= Len(P) /\ b \in 0..Len(P) /\ u + Len(C) <= Len(G)
        BY <1>6, <1>8, <3>1
      <3>3. ASSUME NEW j \in 1..Len(C)
            PROVE  P[b + j] = C[j]
        <4>1. u + j \in 1..Len(G) /\ b + j = Len(F) + (u + j)
          BY <1>8, <3>1, <3>2
        <4>2. G[u + j] = C[j]
          BY <1>6, <3>1
        <4> HIDE DEF b
        <4> QED
          BY <1>8, <4>1, <4>2
      <3>4. ASSUME NEW k \in 1..Len(P)
            PROVE  k \in (b + 1)..(b + Len(C)) \/ P[k].logger # n
        <4>1. CASE k \in 1..Len(F)
          BY <1>5, <1>8, <3>1, <4>1
        <4>2. CASE k \notin 1..Len(F)
          <5> DEFINE i == k - Len(F)
          <5>1. i \in 1..Len(G) /\ Len(F) + i = k
            BY <1>8, <4>2
          <5>2. i \in (u + 1)..(u + Len(C)) \/ G[i].logger # n
            BY <1>6, <3>1, <5>1
          <5>3. P[k] = G[i]
            BY <1>8, <5>1
          <5>4. i \in (u + 1)..(u + Len(C)) => k \in (b + 1)..(b + Len(C))
            BY <1>8, <3>1
          <5> QED
            BY <5>2, <5>3, <5>4
        <4> QED
          BY <4>1, <4>2
      <3>5. PlanBlock(old, new, n, b)
        <4> HIDE DEF b
        <4> QED
          BY <3>2, <3>3, <3>4 DEF PlanBlock, P, C
      <3> QED
        BY <3>2, <3>5
    <2> QED
      BY <2>1, <2>2
  <1> QED
    BY <1>9 DEF Start, P

(* How many calls of a definition come before its appenders are added.     *)
LEMMA ClearedIs ==
  ASSUME NEW d \in Definitions
  PROVE  /\ d.formatter \in Valid => Cleared(d) = 3
         /\ d.formatter \notin Valid => Cleared(d) = 2
         /\ Cleared(d) \in 2..3
         /\ Len(d.appenders) \in Nat /\ DOMAIN d.appenders = 1..Len(d.appenders)
  <1>1. d.appenders \in Seq(AppDefs)
    BY DefinitionFacts
  <1>2. Len(d.appenders) \in Nat /\ DOMAIN d.appenders = 1..Len(d.appenders)
    BY <1>1
  <1> QED
    BY <1>2 DEF Cleared

(* A position outside the block of a logger changes nothing for it.        *)
LEMMA HalfwayOutside ==
  ASSUME NEW old \in Configs, NEW new \in Configs, NEW n \in Index, NEW j \in Int,
         j + 1 \notin 1..Len(For(old, new, n)), Halfway(old, new, n, j)
  PROVE  Halfway(old, new, n, j + 1)
  <1> DEFINE d == new[n]
             L == Len(d.appenders)
             K == Cleared(d)
  <1>1. ASSUME Changed(old, new, n)
        PROVE  /\ j + 1 >= 1 => level[n] = d.level
               /\ d.formatter \in Valid /\ j + 1 >= 2 => formatter[n] = d.formatter
               /\ j + 1 >= K =>
                    appenders[n] = [i \in {a \in 1..L : a <= (j + 1) - K} |->
                                      Build(n, d.appenders[i])]
    <2>1. d \in Definitions
      BY <1>1 DEF Changed, Definitions
    <2>2. Len(For(old, new, n)) = K + L
      BY <1>1, <2>1, DefineIs DEF For
    <2>3. K \in 2..3 /\ L \in Nat
      BY <2>1, ClearedIs
    <2>4. /\ j >= 1 => level[n] = d.level
          /\ d.formatter \in Valid /\ j >= 2 => formatter[n] = d.formatter
          /\ j >= K => appenders[n] = [i \in {a \in 1..L : a <= j - K} |->
                                         Build(n, d.appenders[i])]
      BY <1>1 DEF Halfway
    <2> HIDE DEF d, L, K
    <2>5. CASE j + 1 < 1
      BY <2>3, <2>5
    <2>6. CASE j + 1 > K + L
      <3>1. j >= K /\ j >= 2 /\ {a \in 1..L : a <= j - K} = {a \in 1..L : a <= (j + 1) - K}
        BY <2>3, <2>6
      <3> QED
        BY <2>4, <3>1
    <2> QED
      BY <2>2, <2>3, <2>5, <2>6
  <1>2. ASSUME Removed(old, new, n), j + 1 >= 2
        PROVE  appenders[n] = <<>>
    <2>1. Len(For(old, new, n)) = 2
      BY <1>2, UndefineIs DEF For, Removed, Changed
    <2>2. j >= 2
      BY <1>2, <2>1
    <2> QED
      BY <1>2, <2>2 DEF Halfway
  <1> QED
    BY <1>1, <1>2 DEF Halfway

(* The calls for the other loggers change nothing for it either.           *)
LEMMA HalfwayOther ==
  ASSUME NEW old \in Configs, NEW new \in Configs, NEW n \in Index, NEW j \in Int,
         Halfway(old, new, n, j),
         level'[n] = level[n], formatter'[n] = formatter[n], appenders'[n] = appenders[n]
  PROVE  Halfway(old, new, n, j)'
  <1>1. \A a : Build(n, a)' = Build(n, a)
    BY DEF Build
  <1>2. Configured(n, new[n]) => Configured(n, new[n])'
    BY <1>1 DEF Configured, Matches
  <1> QED
    BY <1>1, <1>2 DEF Halfway

(* What a call does to its own logger.                                     *)
LEMMA DoOwn ==
  ASSUME Inv, NEW n \in Index, NEW c, c.logger = n, Do(c)
  PROVE  /\ c.op = "level" =>
              level'[n] = c.x /\ formatter'[n] = formatter[n] /\ appenders'[n] = appenders[n]
         /\ c.op = "formatter" => level'[n] = level[n] /\ formatter'[n] = c.x
         /\ c.op = "clear" =>
              level'[n] = level[n] /\ formatter'[n] = formatter[n] /\ appenders'[n] = <<>>
         /\ c.op = "add" => /\ level'[n] = level[n] /\ formatter'[n] = formatter[n]
                            /\ appenders'[n] = Append(appenders[n], Build(n, c.x))
  <1>1. n \in DOMAIN level /\ n \in DOMAIN formatter /\ n \in DOMAIN appenders
    BY DEF Inv, ReloadType
  <1> QED
    BY <1>1 DEF Do

(* A list filled in order, when its next element has been appended.        *)
LEMMA AppendOne ==
  ASSUME NEW S, NEW s \in Seq(S), NEW x \in S, NEW m \in Nat, NEW F,
         s = [i \in 1..m |-> F[i]], x = F[m + 1], DOMAIN F = 1..(m + 1),
         F = [i \in DOMAIN F |-> F[i]]
  PROVE  Append(s, x) = F
  <1> DEFINE r == Append(s, x)
  <1>1. DOMAIN s = 1..m
    OBVIOUS
  <1>2. Len(s) = m
    BY <1>1
  <1>3. /\ r = [i \in 1..(m + 1) |-> r[i]] /\ r[m + 1] = x
        /\ \A i \in 1..m : r[i] = s[i]
    BY <1>2
  <1> HIDE DEF r
  <1>4. \A i \in 1..m : r[i] = F[i]
    BY <1>3
  <1>5. \A i \in 1..(m + 1) : i \in 1..m \/ i = m + 1
    OBVIOUS
  <1>6. \A i \in 1..(m + 1) : r[i] = F[i]
    BY <1>3, <1>4, <1>5, Zenon
  <1>7. [i \in 1..(m + 1) |-> r[i]] = [i \in 1..(m + 1) |-> F[i]]
    BY <1>6
  <1>8. r = F
    BY <1>3, <1>7, Zenon
  <1> QED
    BY <1>8 DEF r

(* The next call for logger n.                                             *)
LEMMA HalfwayOwn ==
  ASSUME Inv, NEW old \in Configs, NEW new \in Configs, NEW n \in Index, NEW j \in Int,
         j + 1 \in 1..Len(For(old, new, n)), Halfway(old, new, n, j),
         NEW c, c = For(old, new, n)[j + 1], Do(c)
  PROVE  Halfway(old, new, n, j + 1)'
  <1> DEFINE d == new[n]
             L == Len(d.appenders)
             K == Cleared(d)
  <1>1. ASSUME Changed(old, new, n)
        PROVE  /\ j + 1 >= 1 => level'[n] = d.level
               /\ d.formatter \in Valid /\ j + 1 >= 2 => formatter'[n] = d.formatter
               /\ j + 1 >= K =>
                    appenders'[n] = [i \in {a \in 1..L : a <= (j + 1) - K} |->
                                       Build(n, d.appenders[i])']
    <2>1. d \in Definitions
      BY <1>1 DEF Changed, Definitions
    <2>2. For(old, new, n) = Define(n, d)
      BY <1>1 DEF For
    <2>3. /\ j >= 1 => level[n] = d.level
          /\ d.formatter \in Valid /\ j >= 2 => formatter[n] = d.formatter
          /\ j >= K => appenders[n] = [i \in {a \in 1..L : a <= j - K} |->
                                         Build(n, d.appenders[i])]
      BY <1>1 DEF Halfway
    <2> HIDE DEF d
    <2>4. /\ d.formatter \in Valid => K = 3
          /\ d.formatter \notin Valid => K = 2
          /\ L \in Nat
      BY <2>1, ClearedIs
    <2>5. /\ Len(Define(n, d)) = K + L
          /\ Define(n, d)[1] = [op |-> "level", logger |-> n, x |-> d.level]
          /\ d.formatter \in Valid =>
               Define(n, d)[2] = [op |-> "formatter", logger |-> n, x |-> d.formatter]
          /\ Define(n, d)[K] = [op |-> "clear", logger |-> n, x |-> 0]
          /\ \A i \in 1..L : Define(n, d)[K + i] = AddCalls(n, d)[i]
      BY <2>1, DefineIs, Zenon
    <2>6. c = Define(n, d)[j + 1] /\ j + 1 \in 1..(K + L)
      BY <2>2, <2>5
    <2> HIDE DEF L, K
    <2>7. \/ j + 1 = 1 \/ j + 1 = K \/ (j + 1 = 2 /\ d.formatter \in Valid)
          \/ j + 1 > K
      BY <2>4, <2>6
    <2>8. CASE j + 1 = 1
      <3>1. c.op = "level" /\ c.logger = n /\ c.x = d.level
        BY <2>5, <2>6, <2>8
      <3>2. level'[n] = d.level
        BY <3>1, DoOwn
      <3> QED
        BY <2>4, <2>8, <3>2
    <2>9. CASE j + 1 = 2 /\ d.formatter \in Valid
      <3>1. c.op = "formatter" /\ c.logger = n /\ c.x = d.formatter
        BY <2>5, <2>6, <2>9
      <3>2. level'[n] = level[n] /\ formatter'[n] = d.formatter
        BY <3>1, DoOwn
      <3>3. level[n] = d.level
        BY <2>3, <2>9
      <3> QED
        BY <2>4, <2>9, <3>2, <3>3
    <2>10. CASE j + 1 = K
      <3>1. c.op = "clear" /\ c.logger = n
        BY <2>5, <2>6, <2>10
      <3>2. level'[n] = level[n] /\ formatter'[n] = formatter[n] /\ appenders'[n] = <<>>
        BY <3>1, DoOwn
      <3>3. level[n] = d.level /\ (d.formatter \in Valid => formatter[n] = d.formatter)
        BY <2>3, <2>4, <2>10
      <3>4. {a \in 1..L : a <= (j + 1) - K} = {}
        BY <2>4, <2>10
      <3>5. appenders'[n] = [i \in {a \in 1..L : a <= (j + 1) - K} |->
                               Build(n, d.appenders[i])']
        BY <3>2, <3>4
      <3> QED
        BY <3>2, <3>3, <3>5
    <2>11. CASE j + 1 > K
      <3> DEFINE m == j - K
                 F == [i \in 1..(m + 1) |-> Build(n, d.appenders[i])]
      <3>1. m \in Nat /\ m + 1 \in 1..L /\ j + 1 = K + (m + 1)
        BY <2>4, <2>6, <2>11
      <3>2. c = AddCalls(n, d)[m + 1]
        BY <2>5, <2>6, <3>1
      <3>3. c.op = "add" /\ c.logger = n /\ c.x = d.appenders[m + 1]
        BY <3>1, <3>2 DEF AddCalls, L
      <3>4. /\ level'[n] = level[n] /\ formatter'[n] = formatter[n]
            /\ appenders'[n] = Append(appenders[n], Build(n, d.appenders[m + 1]))
        BY <3>3, DoOwn
      <3>5. level[n] = d.level /\ (d.formatter \in Valid => formatter[n] = d.formatter)
        BY <2>3, <2>4, <2>11
      <3>6. /\ {a \in 1..L : a <= j - K} = 1..m
            /\ {a \in 1..L : a <= (j + 1) - K} = 1..(m + 1)
        <4>1. \A a \in Int : a <= (j + 1) - K <=> a <= m + 1
          BY <2>4
        <4>2. L \in Nat /\ m \in Nat /\ m + 1 <= L
          BY <2>4, <3>1
        <4>3. {a \in 1..L : a <= (j + 1) - K} = {a \in 1..L : a <= m + 1}
          BY <4>1
        <4> HIDE DEF m
        <4>4. {a \in 1..L : a <= m + 1} = 1..(m + 1) /\ {a \in 1..L : a <= m} = 1..m
          BY <4>2
        <4> QED
          BY <4>3, <4>4 DEF m
      <3>7. appenders[n] = [i \in 1..m |-> Build(n, d.appenders[i])]
        BY SMTT(30), <2>3, <2>4, <2>11, <3>6
      <3>8. Append(appenders[n], F[m + 1]) = F
        <4>1. \A i \in 1..m : Build(n, d.appenders[i]) = F[i]
          BY <3>1
        <4>2. appenders[n] = [i \in 1..m |-> F[i]]
          BY <3>7, <4>1, Zenon
        <4>3. appenders[n] \in Seq(Built)
          BY DEF Inv, ReloadType
        <4>4. F[m + 1] = Build(n, d.appenders[m + 1]) /\ DOMAIN F = 1..(m + 1)
              /\ F = [i \in DOMAIN F |-> F[i]]
          BY <3>1
        <4>5. d.appenders[m + 1] \in AppDefs
          BY <2>1, <3>1, DefinitionFacts DEF L
        <4>6. F[m + 1] \in Built
          BY <4>4, <4>5, BuildFacts
        <4> HIDE DEF F, m
        <4> QED
          BY <3>1, <4>2, <4>3, <4>4, <4>6, AppendOne
      <3>9. appenders'[n] = [i \in 1..(m + 1) |-> Build(n, d.appenders[i])]
        <4>1. F[m + 1] = Build(n, d.appenders[m + 1])
          BY <3>1
        <4> HIDE DEF F, m
        <4>2. appenders'[n] = F
          BY <3>4, <3>8, <4>1
        <4> QED
          BY <4>2 DEF F
      <3>10. \A a : Build(n, a)' = Build(n, a)
        BY <3>4 DEF Build
      <3>11. appenders'[n] = [i \in {a \in 1..L : a <= (j + 1) - K} |->
                                Build(n, d.appenders[i])']
        BY <3>6, <3>9, <3>10, Zenon
      <3> QED
        BY <3>4, <3>5, <3>11
    <2> QED
      BY <2>7, <2>8, <2>9, <2>10, <2>11
  <1>2. ASSUME Removed(old, new, n), j + 1 >= 2
        PROVE  appenders'[n] = <<>>
    <2>1. For(old, new, n) = Undefine(n)
      BY <1>2 DEF For, Removed, Changed
    <2>2. Len(Undefine(n)) = 2 /\ Undefine(n)[2] = [op |-> "clear", logger |-> n, x |-> 0]
      BY UndefineIs, Zenon
    <2>3. j + 1 = 2
      BY <1>2, <2>1, <2>2
    <2>4. c.op = "clear" /\ c.logger = n
      BY <2>1, <2>2, <2>3
    <2> QED
      BY <2>4, DoOwn
  <1>3. CASE ~Changed(old, new, n) /\ ~Removed(old, new, n)
    BY <1>3 DEF For
  <1> QED
    BY <1>1, <1>2, <1>3 DEF Halfway

(* Before its first call, and after its last.                              *)
LEMMA HalfwayEnds ==
  ASSUME NEW old \in Configs, NEW new \in Configs, NEW n \in Index, NEW j \in Int
  PROVE  /\ j <= 0 /\ Configured(n, old[n]) => Halfway(old, new, n, j)
         /\ j >= Len(For(old, new, n)) /\ Halfway(old, new, n, j) => Configured(n, new[n])
  <1> DEFINE d == new[n]
             L == Len(d.appenders)
             K == Cleared(d)
  <1>1. ASSUME j <= 0, Configured(n, old[n])
        PROVE  Halfway(old, new, n, j)
    <2>1. ~Changed(old, new, n) /\ ~Removed(old, new, n) => new[n] = old[n]
      BY DEF Changed, Removed
    <2>2. Changed(old, new, n) => K \in 2..3
      BY ClearedIs DEF Changed, Definitions
    <2> QED
      BY <1>1, <2>1, <2>2 DEF Halfway
  <1>2. ASSUME j >= Len(For(old, new, n)), Halfway(old, new, n, j)
        PROVE  Configured(n, new[n])
    <2>1. CASE Changed(old, new, n)
      <3>1. d \in Definitions /\ d # NoDef
        BY <2>1 DEF Changed, Definitions
      <3>2. Len(For(old, new, n)) = K + L
        BY <2>1, <3>1, DefineIs DEF For
      <3>3. /\ j >= 1 => level[n] = d.level
            /\ d.formatter \in Valid /\ j >= 2 => formatter[n] = d.formatter
            /\ j >= K => appenders[n] = [i \in {a \in 1..L : a <= j - K} |->
                                           Build(n, d.appenders[i])]
        BY <1>2, <2>1 DEF Halfway
      <3>4. K \in 2..3 /\ L \in Nat /\ DOMAIN d.appenders = 1..L
        BY <3>1, ClearedIs
      <3> HIDE DEF d, L, K
      <3>5. j >= 1 /\ j >= 2 /\ j >= K /\ {a \in 1..L : a <= j - K} = DOMAIN d.appenders
        BY <1>2, <3>2, <3>4
      <3>6. appenders[n] = [i \in DOMAIN d.appenders |-> Build(n, d.appenders[i])]
        BY <3>3, <3>5
      <3>7. Matches(n, d)
        BY <3>3, <3>5, <3>6 DEF Matches
      <3> QED
        BY <3>1, <3>7 DEF Configured, d
    <2>2. CASE Removed(old, new, n)
      <3>1. Len(For(old, new, n)) = 2
        BY <2>2, UndefineIs DEF For, Removed, Changed
      <3>2. appenders[n] = <<>> /\ new[n] = NoDef
        BY <1>2, <2>2, <3>1 DEF Halfway, Removed
      <3> QED
        BY <3>2 DEF Configured
    <2>3. CASE ~Changed(old, new, n) /\ ~Removed(old, new, n)
      BY <1>2, <2>3 DEF Halfway
    <2> QED
      BY <2>1, <2>2, <2>3
  <1> QED
    BY <1>1, <1>2

(* RestInv holds before the first reload, ...                              *)
LEMMA RestInit == Init => RestInv
  <1> SUFFICES ASSUME Init PROVE RestInv
    OBVIOUS
  <1>1. \A t \in Thread : pc[t] = "idle"
    BY DEF Init
  <1>2. \A n \in Index : Configured(n, val[n])
    BY DEF Init, NoDefs, Index, Configured
  <1> QED
    BY <1>1, <1>2 DEF RestInv

(* A step that leaves the loggers alone.                                   *)
LEMMA SameLoggers ==
  ASSUME UNCHANGED logState, NEW n \in Index
  PROVE  \A d : Configured(n, d) => Configured(n, d)'
  <1>1. level' = level /\ formatter' = formatter /\ appenders' = appenders
    BY DEF logState
  <1> QED
    BY <1>1 DEF Configured, Matches, Build

(* ... when setValue is called, ...                                        *)
LEMMA RestBegin ==
  ASSUME Inv, RestInv, NEW t \in Thread, NEW new \in Configs, SetBegin(t, new)
  PROVE  RestInv'
  <1> SUFFICES ASSUME serial' PROVE RestInv'
    BY DEF RestInv
  <1>1. serial /\ \A u \in Thread : pc[u] = "idle"
    BY DEF SetBegin
  <1>2. /\ pc' = [pc EXCEPT ![t] = "apply"] /\ arg' = [arg EXCEPT ![t] = new]
        /\ work' = [work EXCEPT ![t] = Plan(val, new)]
        /\ val' = val /\ UNCHANGED logState
    BY DEF SetBegin, Goto
  <1>3. /\ pc'[t] = "apply" /\ arg'[t] = new /\ work'[t] = Plan(val, new)
        /\ \A u \in Thread \ {t} : pc'[u] = "idle"
    BY <1>1, <1>2 DEF Inv, ReloadType
  <1>4. PICK old \in Configs : old = val
    BY DEF Inv, ReloadType
  <1>5. ASSUME NEW n \in Index
        PROVE  Halfway(old, new, n, 0 - Start(old, new, n))'
    <2> DEFINE j == 0 - Start(old, new, n)
    <2>1. Configured(n, old[n])
      BY <1>1, <1>4 DEF RestInv
    <2>2. Plan(old, new) \in Seq(Calls)
      BY PlanType
    <2>3. Start(old, new, n) \in Nat
      BY <2>2, StartIs
    <2>4. j \in Int /\ j <= 0
      BY <2>3
    <2> HIDE DEF j
    <2>5. Halfway(old, new, n, j)
      BY <2>1, <2>4, HalfwayEnds
    <2>6. level'[n] = level[n] /\ formatter'[n] = formatter[n] /\ appenders'[n] = appenders[n]
      BY <1>2 DEF logState
    <2>7. Halfway(old, new, n, j)'
      BY <2>4, <2>5, <2>6, HalfwayOther
    <2> QED
      BY <2>7 DEF j
  <1>6. InPlan(t, old, new, 0)'
    <2>1. Plan(old, new) \in Seq(Calls)
      BY PlanType
    <2> QED
      BY <1>2, <1>3, <1>4, <1>5, <2>1 DEF InPlan
  <1>7. InReload(t)'
    BY <1>6 DEF InReload
  <1> QED
    BY <1>3, <1>7 DEF RestInv

(* ... after each call of the listener, ...                                *)
LEMMA RestApply ==
  ASSUME Inv, RestInv, NEW t \in Thread, Apply(t)
  PROVE  RestInv'
  <1> SUFFICES ASSUME serial' PROVE RestInv'
    BY DEF RestInv
  <1>1. /\ pc[t] = "apply" /\ work[t] # <<>> /\ Do(Head(work[t]))
        /\ work' = [work EXCEPT ![t] = Tail(@)]
        /\ val' = val /\ pc' = pc /\ arg' = arg /\ serial' = serial
    BY DEF Apply, varState
  <1>2. serial /\ \A u \in Thread : pc[u] # "idle" => u = t
    BY <1>1 DEF RestInv
  <1>3. PICK old \in Configs, new \in Configs, k \in Nat : InPlan(t, old, new, k)
    BY <1>1, <1>2 DEF RestInv, InReload
  <1> DEFINE P == Plan(old, new)
             c == Head(work[t])
  <1>4. P \in Seq(Calls) /\ Len(P) \in Nat
    <2>1. P \in Seq(Calls)
      BY PlanType
    <2> HIDE DEF P
    <2> QED
      BY <2>1
  <1>5. /\ c \in Calls /\ c = work[t][1] /\ Len(work[t]) \in Nat \ {0}
        /\ Len(Tail(work[t])) = Len(work[t]) - 1
        /\ \A i \in 1..Len(Tail(work[t])) : Tail(work[t])[i] = work[t][i + 1]
    BY <1>1, NextCall
  <1>6. work'[t] = Tail(work[t])
    BY <1>1 DEF Inv, ReloadType
  <1>7. /\ val = old /\ arg[t] = new /\ Len(work[t]) = Len(P) - k
        /\ \A i \in 1..Len(work[t]) : work[t][i] = P[k + i]
        /\ \A n \in Index : Halfway(old, new, n, k - Start(old, new, n))
    BY <1>3 DEF InPlan
  <1> HIDE DEF P, c
  <1>8. c = P[k + 1] /\ k + 1 \in 1..Len(P) /\ Do(c)
    BY <1>1, <1>4, <1>5, <1>7 DEF c
  <1>9. ASSUME NEW n \in Index
        PROVE  Halfway(old, new, n, (k + 1) - Start(old, new, n))'
    <2> DEFINE b == Start(old, new, n)
               C == For(old, new, n)
               j == k - b
    <2>1. b \in Nat /\ b \in 0..Len(P)
      BY <1>4, StartIs DEF P
    <2>2. /\ \A i \in 1..Len(C) : P[b + i] = C[i]
          /\ \A q \in 1..Len(P) : q \in (b + 1)..(b + Len(C)) \/ P[q].logger # n
          /\ b + Len(C) <= Len(P)
      <3>1. PlanBlock(old, new, n, b)
        BY StartIs
      <3> HIDE DEF b, C
      <3> QED
        BY <3>1, Zenon DEF PlanBlock, P, C
    <2>3. Halfway(old, new, n, j)
      BY <1>7
    <2> HIDE DEF b, C
    <2>4. j \in Int /\ k + 1 = b + (j + 1) /\ (k + 1) - b = j + 1
      BY <2>1
    <2> HIDE DEF j
    <2>5. CASE c.logger = n
      <3>1. j + 1 \in 1..Len(C)
        BY <1>8, <2>1, <2>2, <2>4, <2>5
      <3>2. c = C[j + 1]
        BY <1>8, <2>2, <2>4, <3>1
      <3>3. Halfway(old, new, n, j + 1)'
        BY <1>8, <2>3, <2>4, <3>1, <3>2, HalfwayOwn DEF C
      <3> QED
        BY <2>4, <3>3 DEF b
    <2>6. CASE c.logger # n
      <3>1. /\ level'[n] = level[n] /\ formatter'[n] = formatter[n]
            /\ appenders'[n] = appenders[n]
        BY <1>5, <1>8, <2>6, DoOne
      <3>2. j + 1 \notin 1..Len(C)
        <4> SUFFICES ASSUME j + 1 \in 1..Len(C) PROVE FALSE
          OBVIOUS
        <4>1. P[b + (j + 1)] = C[j + 1] /\ C[j + 1].logger = n
          BY <2>2, OwnFor DEF C
        <4> QED
          BY <1>8, <2>4, <2>6, <4>1
      <3>3. Halfway(old, new, n, j + 1)
        BY <2>3, <2>4, <3>2, HalfwayOutside DEF C
      <3>4. j + 1 \in Int
        BY <2>4
      <3>5. Halfway(old, new, n, j + 1)'
        BY <3>1, <3>3, <3>4, HalfwayOther
      <3> QED
        BY <2>4, <3>5 DEF b
    <2> QED
      BY <2>5, <2>6
  <1>10. InPlan(t, old, new, k + 1)'
    <2>1. Len(work'[t]) = Len(P) - (k + 1)
      BY <1>4, <1>5, <1>6, <1>7
    <2>2. ASSUME NEW i \in 1..Len(work'[t])
          PROVE  work'[t][i] = P[(k + 1) + i]
      <3>1. work'[t][i] = work[t][i + 1] /\ i + 1 \in 1..Len(work[t])
        BY <1>5, <1>6
      <3>2. k + (i + 1) = (k + 1) + i
        OBVIOUS
      <3> QED
        BY <1>7, <3>1, <3>2
    <2> QED
      BY <1>1, <1>7, <1>9, <2>1, <2>2 DEF InPlan, P
  <1>11. InReload(t)'
    <2>1. k + 1 \in Nat
      OBVIOUS
    <2> QED
      BY <1>10, <2>1 DEF InReload
  <1> QED
    BY <1>1, <1>2, <1>11 DEF RestInv

(* ... when the listener has made its last call, ...                       *)
LEMMA RestApplied ==
  ASSUME Inv, RestInv, NEW t \in Thread, Applied(t)
  PROVE  RestInv'
  <1> SUFFICES ASSUME serial' PROVE RestInv'
    BY DEF RestInv
  <1>1. /\ pc[t] = "apply" /\ work[t] = <<>> /\ pc' = [pc EXCEPT ![t] = "applied"]
        /\ val' = val /\ arg' = arg /\ work' = work /\ serial' = serial /\ UNCHANGED logState
    BY DEF Applied, Goto
  <1>2. serial /\ \A u \in Thread : pc[u] # "idle" => u = t
    BY <1>1 DEF RestInv
  <1>3. PICK old \in Configs, new \in Configs, k \in Nat : InPlan(t, old, new, k)
    BY <1>1, <1>2 DEF RestInv, InReload
  <1>4. Plan(old, new) \in Seq(Calls)
    BY PlanType
  <1>5. arg[t] = new /\ k = Len(Plan(old, new))
    <2> DEFINE P == Plan(old, new)
    <2>1. Len(work[t]) = Len(P) - k /\ Len(work[t]) = 0 /\ arg[t] = new
      BY <1>1, <1>3 DEF InPlan
    <2> HIDE DEF P
    <2>2. P \in Seq(Calls)
      BY <1>4 DEF P
    <2>3. Len(P) \in Nat
      BY <2>2
    <2> QED
      BY <2>1, <2>3 DEF P
  <1>6. ASSUME NEW n \in Index
        PROVE  Configured(n, arg[t][n])'
    <2> DEFINE b == Start(old, new, n)
               C == For(old, new, n)
               P == Plan(old, new)
    <2>1. b \in 0..Len(P)
      BY StartIs
    <2>2. PlanBlock(old, new, n, b)
      BY StartIs
    <2>3. Halfway(old, new, n, k - b)
      BY <1>3 DEF InPlan
    <2> HIDE DEF b, C, P
    <2>4. b + Len(C) <= Len(P)
      BY <2>2, Zenon DEF PlanBlock, P, C
    <2>5. k = Len(P) /\ P \in Seq(Calls)
      BY <1>4, <1>5 DEF P
    <2>6. Len(C) \in Nat
      <3>1. C = IF Changed(old, new, n) THEN Added(old, new)[n] ELSE Undone(old, new)[n]
        BY DEF C, For, Added, Undone
      <3>2. Added(old, new)[n] \in Seq(Calls) /\ Undone(old, new)[n] \in Seq(Calls)
        <4> DEFINE A == Added(old, new)
                   U == Undone(old, new)
        <4>1. /\ A \in Seq(Seq(Calls)) /\ Len(A) = Names
              /\ U \in Seq(Seq(Calls)) /\ Len(U) = Names
          BY PlanType
        <4> HIDE DEF A, U
        <4>2. A[n] \in Seq(Calls) /\ U[n] \in Seq(Calls)
          BY <4>1 DEF Index
        <4> QED
          BY <4>2 DEF A, U
      <3>3. C \in Seq(Calls)
        BY <3>1, <3>2
      <3> QED
        BY <3>3
    <2>7. k - b \in Int /\ k - b >= Len(C)
      BY <2>1, <2>4, <2>5, <2>6
    <2>8. Configured(n, new[n])
      BY <2>3, <2>7, HalfwayEnds DEF C
    <2>9. Configured(n, new[n])'
      BY <1>1, <2>8, SameLoggers
    <2> QED
      BY <1>1, <1>5, <2>9 DEF Configured, Matches
  <1>7. pc'[t] = "applied" /\ \A u \in Thread \ {t} : pc'[u] = "idle"
    BY <1>1, <1>2 DEF Inv, ReloadType
  <1> QED
    BY <1>6, <1>7 DEF RestInv

(* Steps between the listener's last call and the store.                   *)
LEMMA RestPass ==
  ASSUME Inv, RestInv, NEW t \in Thread, NotifyDone(t) \/ StoreLock(t)
  PROVE  RestInv'
  <1> SUFFICES ASSUME serial' PROVE RestInv'
    BY DEF RestInv
  <1>1. /\ pc[t] \in {"applied", "upgrade"}
        /\ pc' = [pc EXCEPT ![t] = "upgrade"] \/ pc' = [pc EXCEPT ![t] = "writing"]
        /\ val' = val /\ arg' = arg /\ work' = work /\ serial' = serial /\ UNCHANGED logState
    BY DEF NotifyDone, StoreLock, Goto
  <1>2. /\ serial /\ \A u \in Thread : pc[u] # "idle" => u = t
        /\ \A n \in Index : Configured(n, arg[t][n])
    BY <1>1 DEF RestInv
  <1>3. pc'[t] \in {"upgrade", "writing"} /\ \A u \in Thread \ {t} : pc'[u] = "idle"
    BY <1>1, <1>2 DEF Inv, ReloadType
  <1>4. \A n \in Index : Configured(n, arg[t][n])'
    <2> SUFFICES ASSUME NEW n \in Index PROVE Configured(n, arg[t][n])'
      OBVIOUS
    <2>1. PICK d : d = arg[t][n]
      OBVIOUS
    <2>2. Configured(n, d)'
      BY <1>1, <1>2, <2>1, SameLoggers
    <2> QED
      BY <1>1, <2>1, <2>2 DEF Configured, Matches
  <1> QED
    BY <1>3, <1>4 DEF RestInv

(* ... and when the new value is stored.                                   *)
LEMMA RestStore ==
  ASSUME Inv, RestInv, NEW t \in Thread, Store(t)
  PROVE  RestInv'
  <1> SUFFICES ASSUME serial' PROVE RestInv'
    BY DEF RestInv
  <1>1. /\ pc[t] = "writing" /\ pc' = [pc EXCEPT ![t] = "idle"] /\ val' = arg[t]
        /\ serial' = serial /\ UNCHANGED logState
    BY DEF Store, Goto
  <1>2. /\ serial /\ \A u \in Thread : pc[u] # "idle" => u = t
        /\ \A n \in Index : Configured(n, arg[t][n])
    BY <1>1 DEF RestInv
  <1>3. \A u \in Thread : pc'[u] = "idle"
    BY <1>1, <1>2 DEF Inv, ReloadType
  <1>4. \A n \in Index : Configured(n, val[n])'
    <2> SUFFICES ASSUME NEW n \in Index PROVE Configured(n, val[n])'
      OBVIOUS
    <2>1. PICK d : d = arg[t][n]
      OBVIOUS
    <2>2. Configured(n, d)'
      BY <1>1, <1>2, <2>1, SameLoggers
    <2> QED
      BY <1>1, <2>1, <2>2 DEF Configured, Matches
  <1> QED
    BY <1>3, <1>4 DEF RestInv

(* A step that changes none of the variables the invariant speaks of.      *)
LEMMA RestSame ==
  ASSUME RestInv, UNCHANGED <<val, pc, arg, work, serial, logState>>
  PROVE  RestInv'
  <1>1. /\ val' = val /\ pc' = pc /\ arg' = arg /\ work' = work /\ serial' = serial
        /\ level' = level /\ formatter' = formatter /\ appenders' = appenders
    BY DEF logState
  <1>2. ASSUME NEW t \in Thread, InReload(t)
        PROVE  InReload(t)'
    <2>1. PICK old \in Configs, new \in Configs, k \in Nat : InPlan(t, old, new, k)
      BY <1>2 DEF InReload
    <2>2. ASSUME NEW n \in Index
          PROVE  Halfway(old, new, n, k - Start(old, new, n))'
      <3> DEFINE j == k - Start(old, new, n)
      <3>1. Plan(old, new) \in Seq(Calls)
        BY PlanType
      <3>2. Start(old, new, n) \in Nat
        BY <3>1, StartIs
      <3>3. j \in Int /\ Halfway(old, new, n, j)
        BY <2>1, <3>2 DEF InPlan
      <3> HIDE DEF j
      <3>4. Halfway(old, new, n, j)'
        BY <1>1, <3>3, HalfwayOther
      <3> QED
        BY <3>4 DEF j
    <2>3. InPlan(t, old, new, k)'
      BY <1>1, <2>1, <2>2 DEF InPlan
    <2> QED
      BY <2>3 DEF InReload
  <1>3. \A n \in Index : Configured(n, val[n]) => Configured(n, val[n])'
    BY <1>1 DEF Configured, Matches, Build
  <1>4. \A t \in Thread : \A n \in Index :
          Configured(n, arg[t][n]) => Configured(n, arg[t][n])'
    BY <1>1 DEF Configured, Matches, Build
  <1> QED
    BY <1>1, <1>2, <1>3, <1>4 DEF RestInv

(* Every step preserves RestInv.                                           *)
LEMMA RestNext == Inv /\ RestInv /\ [Next]_vars => RestInv'
  <1> SUFFICES ASSUME Inv, RestInv, [Next]_vars PROVE RestInv'
    OBVIOUS
  <1>1. CASE Hook
    BY <1>1, RestSame DEF Hook
  <1>2. ASSUME NEW t \in Thread, Step(t)
        PROVE  RestInv'
    BY <1>2, RestBegin, RestApply, RestApplied, RestPass, RestStore DEF Step
  <1>3. CASE UNCHANGED vars
    BY <1>3, RestSame DEF vars, varState
  <1> QED
    BY <1>1, <1>2, <1>3 DEF Next, Step

(* As long as calls of setValue do not overlap, the listener turns every   *)
(* logger, whatever it was configured to be, into what the new             *)
(* configuration says, or takes its appenders away (log.cc:479-528): the   *)
(* calls it makes for one logger have their effect by position, and the    *)
(* calls for other loggers have none on it.                                *)
THEOREM RestConfigured == Spec => []ConfiguredAtRest
  <1>1. RestInv => ConfiguredAtRest
    BY DEF RestInv, ConfiguredAtRest, Configured, Index
  <1> QED
    BY <1>1, RestInit, RestNext, ReloadInductive, PTL DEF Spec

-----------------------------------------------------------------------------
(* What a map holds: its first pair of a key, if it has one.               *)
Knows(ps, k) == \E i \in DOMAIN ps : ps[i].key = k

First(ps, k, v) ==
  \E i \in DOMAIN ps : /\ ps[i].key = k /\ ps[i].value = v
                       /\ \A j \in 1..(i - 1) : ps[j].key # k

(* A node asked for a key answers with it. *)
LEMMA MapHolds ==
  ASSUME NEW S, NEW ps \in Seq(S), NEW k
  PROVE  /\ IsMap(Map(ps)) /\ Load(Map(ps)) = Map(ps)
         /\ HasKey(Map(ps), k) <=> Knows(ps, k)
         /\ \A v : First(ps, k, v) => HasKey(Map(ps), k) /\ Get(Map(ps), k) = v
  <1>1. Map(ps).pairs = ps /\ DOMAIN Map(ps) = {"pairs"}
    BY DEF Map
  <1>2. DOMAIN Empty = {"empty"}
    BY DEF Empty
  <1>3. Map(ps) # Empty
    BY <1>1, <1>2
  <1>4. HasKey(Map(ps), k) <=> Knows(ps, k)
    BY <1>1 DEF HasKey, Knows
  <1>5. ASSUME NEW v, First(ps, k, v)
        PROVE  Get(Map(ps), k) = v /\ Knows(ps, k)
    <2>1. PICK i \in DOMAIN ps : /\ ps[i].key = k /\ ps[i].value = v
                                 /\ \A j \in 1..(i - 1) : ps[j].key # k
      BY <1>5 DEF First
    <2> DEFINE G(h) == h \in DOMAIN ps /\ ps[h].key = k /\ \A j \in 1..(h - 1) : ps[j].key # k
    <2>2. ASSUME NEW h \in DOMAIN ps, ps[h].key = k, \A j \in 1..(h - 1) : ps[j].key # k
          PROVE  h = i
      <3>1. DOMAIN ps = 1..Len(ps) /\ Len(ps) \in Nat
        OBVIOUS
      <3>2. ~(h < i) /\ ~(i < h)
        BY <2>1, <2>2, <3>1
      <3> QED
        BY <3>1, <3>2
    <2>3. (CHOOSE h \in DOMAIN ps :
             /\ ps[h].key = k
             /\ \A j \in 1..(h - 1) : ps[j].key # k) = i
      BY <2>1, <2>2
    <2>4. Get(Map(ps), k) = ps[CHOOSE h \in DOMAIN ps :
                                 /\ ps[h].key = k
                                 /\ \A j \in 1..(h - 1) : ps[j].key # k].value
      BY <1>1 DEF Get
    <2> QED
      BY <2>1, <2>3, <2>4 DEF Knows
  <1> QED
    BY <1>1, <1>3, <1>4, <1>5 DEF IsMap, Load

(* A pair behind others, if there is one. *)
More(S, p, cond, l, x, q) ==
  /\ q \in Seq(S)
  /\ \A k : Knows(q, k) <=> Knows(p, k) \/ (cond /\ k = l)
  /\ \A k, v : First(p, k, v) => First(q, k, v)
  /\ cond /\ ~Knows(p, l) => First(q, l, x)

(* The writers append pairs one by one. *)
LEMMA OnePairMore ==
  ASSUME NEW S, NEW p \in Seq(S), NEW cond \in BOOLEAN, NEW l, NEW x, Pair(l, x) \in S
  PROVE  More(S, p, cond, l, x, p \o If(cond, Pair(l, x)))
  <1> DEFINE y == Pair(l, x)
             q == p \o If(cond, y)
             n == Len(p)
  <1>1. y.key = l /\ y.value = x
    BY DEF Pair
  <1>2. DOMAIN p = 1..n /\ n \in Nat
    OBVIOUS
  <1> HIDE DEF y
  <1>3. CASE cond
    <2>1. q = Append(p, y)
      BY <1>3 DEF If
    <2>2. /\ q \in Seq(S) /\ DOMAIN q = 1..(n + 1) /\ q[n + 1] = y
          /\ \A i \in 1..n : q[i] = p[i]
          /\ q # <<>>
      BY <2>1 DEF y
    <2> HIDE DEF q, n
    <2>3. ASSUME NEW k
          PROVE  Knows(q, k) <=> Knows(p, k) \/ k = l
      <3>1. \A i \in 1..(n + 1) : i \in 1..n \/ i = n + 1
        BY <1>2
      <3>2. 1..n \subseteq 1..(n + 1) /\ n + 1 \in 1..(n + 1)
        BY <1>2
      <3> QED
        BY <1>1, <1>2, <2>2, <3>1, <3>2 DEF Knows
    <2>4. ASSUME NEW k, NEW v, First(p, k, v)
          PROVE  First(q, k, v)
      <3>1. PICK i \in 1..n : /\ p[i].key = k /\ p[i].value = v
                              /\ \A j \in 1..(i - 1) : p[j].key # k
        BY <1>2, <2>4 DEF First
      <3>2. i \in 1..(n + 1) /\ \A j \in 1..(i - 1) : j \in 1..n
        BY <1>2, <3>1
      <3> QED
        BY <2>2, <3>1, <3>2 DEF First
    <2>5. ASSUME ~Knows(p, l) PROVE First(q, l, x)
      <3>1. n + 1 \in 1..(n + 1) /\ 1..(n + 1 - 1) = 1..n
        BY <1>2
      <3> QED
        BY <1>1, <1>2, <2>2, <2>5, <3>1 DEF First, Knows
    <2>6. More(S, p, cond, l, x, q)
      BY <1>3, <2>2, <2>3, <2>4, <2>5 DEF More
    <2> QED
      BY <2>6 DEF q, y
  <1>4. CASE ~cond
    <2>1. q = p
      BY <1>4 DEF If
    <2> HIDE DEF q
    <2>2. More(S, p, cond, l, x, q)
      BY <1>4, <2>1 DEF More
    <2> QED
      BY <2>2 DEF q, y
  <1> QED
    BY <1>3, <1>4, Zenon

(* The first pair. *)
LEMMA OnePair ==
  ASSUME NEW S, NEW l, NEW x, Pair(l, x) \in S
  PROVE  /\ <<Pair(l, x)>> \in Seq(S)
         /\ \A k : Knows(<<Pair(l, x)>>, k) <=> k = l
         /\ First(<<Pair(l, x)>>, l, x)
  <1> DEFINE y == Pair(l, x)
  <1>1. y.key = l /\ y.value = x
    BY DEF Pair
  <1> HIDE DEF y
  <1>2. <<y>> \in Seq(S) /\ DOMAIN <<y>> = 1..1 /\ <<y>>[1] = y /\ 1..(1 - 1) = {}
    BY DEF y
  <1>3. \A i \in 1..1 : i = 1
    OBVIOUS
  <1> QED
    BY <1>1, <1>2, <1>3 DEF Knows, First, y

-----------------------------------------------------------------------------
(* Names of levels. *)

(* A level that is written is read again. *)
LEMMA LevelAgain ==
  ASSUME NEW lev \in Severity, NEW x,
         HasKey(x, "level") <=> lev # Unknow,
         lev # Unknow => Get(x, "level") = LevelTo(lev)
  PROVE  LevelOf(x) = lev
  <1>1. DOMAIN LevelNames = 1..5
    BY DEF LevelNames
  <1>2. CASE lev = Unknow
    BY <1>2 DEF LevelOf
  <1>3. CASE lev # Unknow
    <2>1. lev \in 1..5
      BY <1>1, <1>3 DEF Severity
    <2> DEFINE s == LevelNames[lev]
               named == {i \in 1..5 : s \in NamesOf(i)}
    <2>2. LevelTo(lev).scalar = s
      BY <1>1, <2>1 DEF LevelTo, Scalar
    <2>3. named = {lev}
      <3>1. \A i \in 1..5 : s \in NamesOf(i) <=> i = lev
        <4>1. \A i \in 1..5 : i = 1 \/ i = 2 \/ i = 3 \/ i = 4 \/ i = 5
          OBVIOUS
        <4>2. /\ NamesOf(1) = {"DEBUG", "debug"} /\ NamesOf(2) = {"INFO", "info"}
              /\ NamesOf(3) = {"WARN", "warn"} /\ NamesOf(4) = {"ERROR", "error"}
              /\ NamesOf(5) = {"FATAL", "fatal"}
          BY DEF NamesOf, LevelNames, LowerNames
        <4>3. /\ LevelNames[1] = "DEBUG" /\ LevelNames[2] = "INFO" /\ LevelNames[3] = "WARN"
              /\ LevelNames[4] = "ERROR" /\ LevelNames[5] = "FATAL"
          BY DEF LevelNames
        <4>4. \/ (lev = 1 /\ s = "DEBUG") \/ (lev = 2 /\ s = "INFO") \/ (lev = 3 /\ s = "WARN")
              \/ (lev = 4 /\ s = "ERROR") \/ (lev = 5 /\ s = "FATAL")
          BY <2>1, <4>1, <4>3
        <4> HIDE DEF s
        <4> QED
          BY <4>1, <4>2, <4>4
      <3> HIDE DEF s
      <3> QED
        BY <2>1, <3>1
    <2>4. LevelFrom(LevelTo(lev)) = lev
      <3>1. {i \in DOMAIN LevelNames : LevelTo(lev).scalar \in NamesOf(i)} = {lev}
        BY <1>1, <2>2, <2>3
      <3> QED
        BY <3>1 DEF LevelFrom
    <2> QED
      BY <1>3, <2>4 DEF LevelOf
  <1> QED
    BY <1>2, <1>3

-----------------------------------------------------------------------------
(* The writers' nodes, read again. *)

(* The members of a node that may be missing. *)
LEMMA ReadString ==
  ASSUME NEW x, NEW k, NEW s, HasKey(x, k), Get(x, k) = Scalar(s)
  PROVE  StringOf(x, k) = s
  <1>1. Scalar(s).scalar = s
    BY DEF Scalar
  <1> QED
    BY <1>1 DEF StringOf

(* What the loggers' appenders are. *)
Attachable ==
  [type : {File, Stdout}, file : Optional, level : Severity, own : BOOLEAN,
   formatter : STRING]

(* What the reader makes of a file appender's node. *)
Kept(b) ==
  [type |-> File, file |-> b.file, level |-> b.level,
   formatter |-> IF b.own THEN b.formatter ELSE ""]

(* A file appender is read again, a stdout appender is not. *)
LEMMA AppenderAgain ==
  ASSUME NEW b \in Attachable
  PROVE  LET x == AppenderTo(b)
         IN  /\ IsMap(x) /\ ~IsScalar(x) /\ Load(x) = x
             /\ Reads(x) <=> b.type = File
             /\ b.type = File => AppenderFrom(x) = Kept(b)
  <1> DEFINE t == IF b.type = File THEN "FileLogAppender" ELSE "StdoutAppender"
             S == {Pair("type", Scalar(t)), Pair("file", Scalar(b.file)),
                   Pair("level", LevelTo(b.level)), Pair("formatter", Scalar(b.formatter))}
             p1 == <<Pair("type", Scalar(t))>>
             p2 == p1 \o If(b.type = File, Pair("file", Scalar(b.file)))
             p3 == p2 \o If(b.level # Unknow, Pair("level", LevelTo(b.level)))
             p4 == p3 \o If(b.own, Pair("formatter", Scalar(b.formatter)))
             x == Map(p4)
  <1>1. AppenderTo(b) = x
    BY DEF AppenderTo, TypeTo, LevelIf, OwnPattern, AnyPattern
  <1>2. b.type \in {File, Stdout} /\ b.level \in Severity /\ b.own \in BOOLEAN
    BY DEF Attachable
  <1>3. /\ Pair("type", Scalar(t)) \in S /\ Pair("file", Scalar(b.file)) \in S
        /\ Pair("level", LevelTo(b.level)) \in S /\ Pair("formatter", Scalar(b.formatter)) \in S
    OBVIOUS
  <1> HIDE DEF S, t
  <1>4. /\ p1 \in Seq(S) /\ \A k : Knows(p1, k) <=> k = "type"
        /\ First(p1, "type", Scalar(t))
    BY <1>3, OnePair
  <1>5. /\ p2 \in Seq(S)
        /\ \A k : Knows(p2, k) <=> Knows(p1, k) \/ (b.type = File /\ k = "file")
        /\ \A k, v : First(p1, k, v) => First(p2, k, v)
        /\ b.type = File /\ ~Knows(p1, "file") => First(p2, "file", Scalar(b.file))
    <2> HIDE DEF p1
    <2>1. (b.type = File) \in BOOLEAN
      OBVIOUS
    <2>2. More(S, p1, b.type = File, "file", Scalar(b.file), p2)
      BY <1>3, <1>4, <2>1, OnePairMore
    <2> QED
      BY <2>2 DEF More
  <1>6. /\ p3 \in Seq(S)
        /\ \A k : Knows(p3, k) <=> Knows(p2, k) \/ (b.level # Unknow /\ k = "level")
        /\ \A k, v : First(p2, k, v) => First(p3, k, v)
        /\ b.level # Unknow /\ ~Knows(p2, "level") => First(p3, "level", LevelTo(b.level))
    <2> HIDE DEF p2
    <2>1. (b.level # Unknow) \in BOOLEAN
      OBVIOUS
    <2>2. More(S, p2, b.level # Unknow, "level", LevelTo(b.level), p3)
      BY <1>3, <1>5, <2>1, OnePairMore
    <2> QED
      BY <2>2 DEF More
  <1>7. /\ p4 \in Seq(S)
        /\ \A k : Knows(p4, k) <=> Knows(p3, k) \/ (b.own /\ k = "formatter")
        /\ \A k, v : First(p3, k, v) => First(p4, k, v)
        /\ b.own /\ ~Knows(p3, "formatter") => First(p4, "formatter", Scalar(b.formatter))
    <2> HIDE DEF p3
    <2>1. More(S, p3, b.own, "formatter", Scalar(b.formatter), p4)
      BY <1>2, <1>3, <1>6, OnePairMore
    <2> QED
      BY <2>1 DEF More
  <1> HIDE DEF p1, p2, p3, p4
  <1>8. /\ First(p4, "type", Scalar(t)) /\ (Knows(p4, "file") <=> b.type = File)
        /\ b.type = File => First(p4, "file", Scalar(b.file))
        /\ Knows(p4, "level") <=> b.level # Unknow
        /\ b.level # Unknow => First(p4, "level", LevelTo(b.level))
        /\ Knows(p4, "formatter") <=> b.own
        /\ b.own => First(p4, "formatter", Scalar(b.formatter))
    BY <1>2, <1>4, <1>5, <1>6, <1>7
  <1>9. /\ IsMap(x) /\ Load(x) = x
        /\ \A k : HasKey(x, k) <=> Knows(p4, k)
        /\ \A k, v : First(p4, k, v) => HasKey(x, k) /\ Get(x, k) = v
    BY <1>7, MapHolds
  <1>18. ~IsScalar(x)
    BY DEF IsScalar, Map
  <1> HIDE DEF x
  <1>10. HasKey(x, "type") /\ StringOf(x, "type") = t
    BY <1>8, <1>9, ReadString
  <1>11. HasKey(x, "file") <=> b.type = File
    BY <1>8, <1>9
  <1>12. b.type = File => StringOf(x, "file") = b.file
    BY <1>8, <1>9, ReadString
  <1>13. LevelOf(x) = b.level
    BY <1>2, <1>8, <1>9, LevelAgain
  <1>14. StringOf(x, "formatter") = IF b.own THEN b.formatter ELSE ""
    <2>1. CASE b.own
      BY <1>8, <1>9, <2>1, ReadString
    <2>2. CASE ~b.own
      BY <1>8, <1>9, <2>2 DEF StringOf
    <2> QED
      BY <2>1, <2>2
  <1>15. t # "StdoutLogAppender" /\ (t = "FileLogAppender" <=> b.type = File)
    BY DEF t
  <1>16. Reads(x) <=> b.type = File
    BY <1>10, <1>11, <1>15 DEF Reads
  <1>17. b.type = File => AppenderFrom(x) = Kept(b)
    BY <1>10, <1>12, <1>13, <1>14, <1>15 DEF AppenderFrom, Kept
  <1> QED
    BY <1>1, <1>9, <1>16, <1>17, <1>18

(* A sequence is a function of its positions. *)
LEMMA ItemsOf ==
  ASSUME NEW S, NEW s \in Seq(S)
  PROVE  /\ DOMAIN s = 1..Len(s) /\ Len(s) \in Nat /\ (s # <<>> <=> Len(s) # 0)
         /\ \A i \in 1..Len(s) : s[i] \in S
  OBVIOUS

(* The appenders of a list of nodes that are not read are none, and those  *)
(* of a list that are read are read one by one.                            *)
LEMMA AppendersAre ==
  ASSUME NEW x, NEW xs, NEW n \in Nat, DOMAIN xs = 1..n,
         HasKey(x, "appenders") <=> n # 0,
         n # 0 => Get(x, "appenders") = List(xs),
         \A i \in 1..n : ~IsScalar(xs[i])
  PROVE  /\ Appenders(x) = FlattenSeq([i \in 1..n |->
                             If(IsMap(xs[i]) /\ Reads(xs[i]), AppenderFrom(xs[i]))])
         /\ ~ScalarAppender(x)
  <1> DEFINE s == [i \in 1..n |-> If(IsMap(xs[i]) /\ Reads(xs[i]), AppenderFrom(xs[i]))]
  <1>1. CASE n = 0
    <2>1. s = <<>>
      <3> DEFINE f(i) == If(IsMap(xs[i]) /\ Reads(xs[i]), AppenderFrom(xs[i]))
      <3>1. 1..n = {}
        BY <1>1
      <3> HIDE DEF f
      <3>2. [i \in 1..n |-> f(i)] = <<>>
        BY <3>1
      <3> QED
        BY <3>2 DEF f
    <2>2. Appenders(x) = <<>>
      BY <1>1 DEF Appenders
    <2> HIDE DEF s
    <2>3. FlattenSeq(s) = <<>>
      BY <2>1, FlattenEmpty
    <2>4. ~ScalarAppender(x)
      BY <1>1 DEF ScalarAppender
    <2> QED
      BY <2>2, <2>3, <2>4 DEF s
  <1>2. CASE n # 0
    <2>1. /\ HasKey(x, "appenders") /\ Get(x, "appenders") = List(xs)
          /\ IsList(List(xs)) /\ List(xs).items = xs
      BY <1>2 DEF List, IsList
    <2>2. IsList(Get(x, "appenders")) /\ Get(x, "appenders").items = xs
      BY <2>1
    <2>3. ~ScalarAppender(x)
      BY <2>2 DEF ScalarAppender
    <2> QED
      BY <2>1, <2>2, <2>3 DEF Appenders
  <1> QED
    BY <1>1, <1>2

(* What the reader makes of a logger's list of appenders. *)
KeptOf(as) == FlattenSeq([i \in 1..Len(as) |-> If(as[i].type = File, Kept(as[i]))])

(* A logger is read again, without its stdout appenders. *)
LEMMA LoggerAgain ==
  ASSUME NEW name, NEW lev \in Severity, NEW f, NEW as \in Seq(Attachable)
  PROVE  LET x == LoggerTo(name, lev, f, as)
         IN  /\ Load(x) = x
             /\ DefineFrom(x) = [name |-> name, level |-> lev, formatter |-> f,
                                 appenders |-> KeptOf(as)]
  <1> DEFINE xs == [i \in DOMAIN as |-> Load(AppenderTo(as[i]))]
             S == {Pair("name", Scalar(name)), Pair("level", LevelTo(lev)),
                   Pair("formatter", Scalar(f)), Pair("appenders", List(xs))}
             p1 == <<Pair("name", Scalar(name))>>
             some == lev # Unknow
             p2 == p1 \o If(some, Pair("level", LevelTo(lev)))
             p3 == p2 \o If(TRUE, Pair("formatter", Scalar(f)))
             cond == as # <<>>
             p4 == p3 \o If(cond, Pair("appenders", List(xs)))
             x == Map(p4)
  <1>1. LoggerTo(name, lev, f, as) = x
    BY DEF LoggerTo, LevelIf, If
  <1>2. /\ Pair("name", Scalar(name)) \in S /\ Pair("level", LevelTo(lev)) \in S
        /\ Pair("formatter", Scalar(f)) \in S /\ Pair("appenders", List(xs)) \in S
    <2> HIDE DEF xs
    <2> QED
      OBVIOUS
  <1>16. some \in BOOLEAN /\ cond \in BOOLEAN /\ TRUE \in BOOLEAN
    <2>1. some \in BOOLEAN
      OBVIOUS
    <2>2. cond \in BOOLEAN
      OBVIOUS
    <2> QED
      BY <2>1, <2>2
  <1>3. DOMAIN as = 1..Len(as) /\ Len(as) \in Nat /\ (cond <=> Len(as) # 0)
        /\ \A i \in 1..Len(as) : as[i] \in Attachable
    BY ItemsOf
  <1>4. /\ DOMAIN xs = 1..Len(as)
        /\ \A i \in 1..Len(as) : xs[i] = AppenderTo(as[i]) /\ ~IsScalar(xs[i])
    BY <1>3, AppenderAgain
  <1> HIDE DEF S, xs, cond, some
  <1>5. /\ p1 \in Seq(S) /\ \A k : Knows(p1, k) <=> k = "name"
        /\ First(p1, "name", Scalar(name))
    BY <1>2, OnePair
  <1>6. /\ p2 \in Seq(S)
        /\ \A k : Knows(p2, k) <=> Knows(p1, k) \/ (some /\ k = "level")
        /\ \A k, v : First(p1, k, v) => First(p2, k, v)
        /\ some /\ ~Knows(p1, "level") => First(p2, "level", LevelTo(lev))
    <2> HIDE DEF p1
    <2>1. More(S, p1, some, "level", LevelTo(lev), p2)
      BY <1>2, <1>5, <1>16, OnePairMore
    <2> QED
      BY <2>1 DEF More
  <1>7. /\ p3 \in Seq(S)
        /\ \A k : Knows(p3, k) <=> Knows(p2, k) \/ k = "formatter"
        /\ \A k, v : First(p2, k, v) => First(p3, k, v)
        /\ ~Knows(p2, "formatter") => First(p3, "formatter", Scalar(f))
    <2> HIDE DEF p2
    <2>1. More(S, p2, TRUE, "formatter", Scalar(f), p3)
      BY <1>2, <1>6, <1>16, OnePairMore
    <2> QED
      BY <2>1 DEF More
  <1>8. /\ p4 \in Seq(S)
        /\ \A k : Knows(p4, k) <=> Knows(p3, k) \/ (cond /\ k = "appenders")
        /\ \A k, v : First(p3, k, v) => First(p4, k, v)
        /\ cond /\ ~Knows(p3, "appenders") => First(p4, "appenders", List(xs))
    <2> HIDE DEF p3
    <2>1. More(S, p3, cond, "appenders", List(xs), p4)
      BY <1>2, <1>7, <1>16, OnePairMore
    <2> QED
      BY <2>1 DEF More
  <1> HIDE DEF p1, p2, p3, p4
  <1>9. /\ First(p4, "name", Scalar(name)) /\ First(p4, "formatter", Scalar(f))
        /\ Knows(p4, "level") <=> lev # Unknow
        /\ lev # Unknow => First(p4, "level", LevelTo(lev))
        /\ Knows(p4, "appenders") <=> cond
        /\ cond => First(p4, "appenders", List(xs))
    BY <1>5, <1>6, <1>7, <1>8 DEF some
  <1>10. /\ IsMap(x) /\ Load(x) = x
         /\ \A k : HasKey(x, k) <=> Knows(p4, k)
         /\ \A k, v : First(p4, k, v) => HasKey(x, k) /\ Get(x, k) = v
    BY <1>8, MapHolds
  <1> HIDE DEF x
  <1>11. /\ HasKey(x, "name") /\ StringOf(x, "name") = name
         /\ StringOf(x, "formatter") = f
    BY <1>9, <1>10, ReadString
  <1>12. LevelOf(x) = lev
    BY <1>9, <1>10, LevelAgain
  <1>13. /\ Appenders(x) = FlattenSeq([i \in 1..Len(as) |->
                             If(IsMap(xs[i]) /\ Reads(xs[i]), AppenderFrom(xs[i]))])
         /\ ~ScalarAppender(x)
    BY <1>3, <1>4, <1>9, <1>10, AppendersAre
  <1>14. ASSUME NEW i \in 1..Len(as)
         PROVE  If(IsMap(xs[i]) /\ Reads(xs[i]), AppenderFrom(xs[i]))
                  = If(as[i].type = File, Kept(as[i]))
    <2>1. as[i] \in Attachable /\ xs[i] = AppenderTo(as[i])
      BY <1>3, <1>4
    <2>2. /\ IsMap(xs[i]) /\ (Reads(xs[i]) <=> as[i].type = File)
          /\ as[i].type = File => AppenderFrom(xs[i]) = Kept(as[i])
      BY <2>1, AppenderAgain
    <2> QED
      BY <2>2 DEF If
  <1>15. Appenders(x) = KeptOf(as)
    <2>1. [i \in 1..Len(as) |-> If(IsMap(xs[i]) /\ Reads(xs[i]), AppenderFrom(xs[i]))]
            = [i \in 1..Len(as) |-> If(as[i].type = File, Kept(as[i]))]
      BY <1>14, Zenon
    <2> QED
      BY <1>13, <2>1 DEF KeptOf
  <1> QED
    BY <1>1, <1>10, <1>11, <1>12, <1>13, <1>15 DEF DefineFrom

-----------------------------------------------------------------------------
(* What toString leaves of an appender is not read: it has no type. *)
LEMMA RestNotRead ==
  ASSUME NEW a \in LogAppenderDefine
  PROVE  /\ Load(Rest(a)) = Rest(a) /\ ~IsScalar(Rest(a))
         /\ ~(IsMap(Rest(a)) /\ Reads(Rest(a)))
  <1> DEFINE S == {Pair("level", LevelTo(a.level)), Pair("formatter", Scalar(a.formatter))}
             p0 == <<>>
             cond == a.formatter # ""
             some == a.level # Unknow
             p1 == p0 \o If(some, Pair("level", LevelTo(a.level)))
             p2 == p1 \o If(cond, Pair("formatter", Scalar(a.formatter)))
  <1>1. /\ Pair("level", LevelTo(a.level)) \in S /\ Pair("formatter", Scalar(a.formatter)) \in S
        /\ cond \in BOOLEAN /\ some \in BOOLEAN
    OBVIOUS
  <1> HIDE DEF S, cond, some
  <1>2. p0 \in Seq(S) /\ \A k : ~Knows(p0, k)
    BY DEF Knows
  <1>3. /\ p1 \in Seq(S)
        /\ \A k : Knows(p1, k) <=> Knows(p0, k) \/ (some /\ k = "level")
    <2> HIDE DEF p0
    <2>1. More(S, p0, some, "level", LevelTo(a.level), p1)
      BY <1>1, <1>2, OnePairMore
    <2> QED
      BY <2>1 DEF More
  <1>4. p1 = LevelIf(a.level)
    BY DEF LevelIf, If, some
  <1>5. /\ p2 \in Seq(S)
        /\ \A k : Knows(p2, k) <=> Knows(p1, k) \/ (cond /\ k = "formatter")
    <2> HIDE DEF p1
    <2>1. More(S, p1, cond, "formatter", Scalar(a.formatter), p2)
      BY <1>1, <1>3, OnePairMore
    <2> QED
      BY <2>1 DEF More
  <1>6. Rest(a) = IF p2 = <<>> THEN Null ELSE Map(p2)
    BY <1>4 DEF Rest, cond
  <1>7. ~Knows(p2, "type")
    <2> HIDE DEF p0, p1, p2
    <2> QED
      BY <1>2, <1>3, <1>5
  <1>8. Load(Map(p2)) = Map(p2) /\ ~HasKey(Map(p2), "type")
    <2> HIDE DEF p2
    <2> QED
      BY <1>5, <1>7, MapHolds
  <1>9. Load(Null) = Null /\ ~IsMap(Null)
    <2>1. DOMAIN Null = {"null"} /\ DOMAIN Empty = {"empty"}
      BY DEF Null, Empty
    <2> QED
      BY <2>1 DEF Load, IsMap
  <1>10. ~IsScalar(Null) /\ ~IsScalar(Map(p2))
    BY DEF IsScalar, Null, Map
  <1> HIDE DEF p2
  <1> QED
    BY <1>6, <1>8, <1>9, <1>10 DEF Reads

(* A concatenation of nothing is nothing. *)
LEMMA FlattenNothing ==
  ASSUME NEW n \in Nat, NEW s, s = [i \in 1..n |-> <<>>]
  PROVE  FlattenSeq(s) = <<>>
  <1>1. s \in Seq(Seq({})) /\ Len(s) = n /\ \A i \in 1..n : s[i] = <<>>
    OBVIOUS
  <1>2. FlattenSeq(s) \in Seq({})
    BY <1>1, FlattenType
  <1>3. \A t \in Seq({}) : t = <<>>
    OBVIOUS
  <1> QED
    BY <1>2, <1>3

(* What toString writes of a definition, read again: its name and level.   *)
Outlined(d) ==
  [name |-> d.name, level |-> d.level, formatter |-> "", appenders |-> <<>>]

LEMMA DefineAgain ==
  ASSUME NEW d \in LogDefine
  PROVE  /\ Load(DefineTo(d)) = DefineTo(d)
         /\ DefineFrom(DefineTo(d)) = Outlined(d)
         /\ Outlined(d) \in LogDefine
  <1> DEFINE as == d.appenders
             files == OnlyFiles(as)
             xs == [i \in DOMAIN as |-> Rest(as[i])]
             f == Scalar("")
             t == TypeTo(Last(as))
             n == Scalar(Last(files).file)
             S == {Pair("name", Scalar(d.name)), Pair("level", LevelTo(d.level)),
                   Pair("formatter", f), Pair("type", t), Pair("file", n),
                   Pair("appenders", List(xs))}
             c2 == d.level # Unknow
             c3 == d.formatter = ""
             c4 == as # <<>>
             c5 == files # <<>>
             p1 == <<Pair("name", Scalar(d.name))>>
             p2 == p1 \o If(c2, Pair("level", LevelTo(d.level)))
             p3 == p2 \o If(c3, Pair("formatter", f))
             p4 == p3 \o If(c4, Pair("type", t))
             p5 == p4 \o If(c5, Pair("file", n))
             p6 == p5 \o If(c4, Pair("appenders", List(xs)))
             x == Map(p6)
  <1>1. DefineTo(d) = x
    BY DEF DefineTo, LevelIf
  <1>2. /\ as \in Seq(LogAppenderDefine) /\ d.level \in Severity /\ d.name \in STRING
    BY DEF LogDefine
  <1>3. /\ c2 \in BOOLEAN /\ c3 \in BOOLEAN /\ c4 \in BOOLEAN /\ c5 \in BOOLEAN
    <2> HIDE DEF as, files
    <2>1. c2 \in BOOLEAN
      OBVIOUS
    <2>2. c3 \in BOOLEAN
      OBVIOUS
    <2>3. c4 \in BOOLEAN
      OBVIOUS
    <2>4. c5 \in BOOLEAN
      OBVIOUS
    <2> QED
      BY <2>1, <2>2, <2>3, <2>4
  <1>4. /\ Pair("name", Scalar(d.name)) \in S /\ Pair("level", LevelTo(d.level)) \in S
        /\ Pair("formatter", f) \in S /\ Pair("type", t) \in S /\ Pair("file", n) \in S
        /\ Pair("appenders", List(xs)) \in S
    <2> HIDE DEF xs, f, t, n
    <2> QED
      OBVIOUS
  <1> HIDE DEF as
  <1>5. /\ DOMAIN as = 1..Len(as) /\ Len(as) \in Nat /\ (as # <<>> <=> Len(as) # 0)
        /\ \A i \in 1..Len(as) : as[i] \in LogAppenderDefine
    BY <1>2, ItemsOf
  <1>6. DOMAIN xs = 1..Len(as) /\ \A i \in 1..Len(as) : xs[i] = Rest(as[i])
    BY <1>5
  <1> HIDE DEF files, xs, f, t, n, S, c2, c3, c4, c5
  <1>7. /\ p1 \in Seq(S) /\ \A k : Knows(p1, k) <=> k = "name"
        /\ First(p1, "name", Scalar(d.name))
    BY <1>4, OnePair
  <1>8. /\ p2 \in Seq(S)
        /\ \A k : Knows(p2, k) <=> Knows(p1, k) \/ (c2 /\ k = "level")
        /\ \A k, v : First(p1, k, v) => First(p2, k, v)
        /\ c2 /\ ~Knows(p1, "level") => First(p2, "level", LevelTo(d.level))
    <2> HIDE DEF p1
    <2>1. More(S, p1, c2, "level", LevelTo(d.level), p2)
      BY <1>3, <1>4, <1>7, OnePairMore
    <2> QED
      BY <2>1 DEF More
  <1>9. /\ p3 \in Seq(S)
        /\ \A k : Knows(p3, k) <=> Knows(p2, k) \/ (c3 /\ k = "formatter")
        /\ \A k, v : First(p2, k, v) => First(p3, k, v)
        /\ c3 /\ ~Knows(p2, "formatter") => First(p3, "formatter", f)
    <2> HIDE DEF p2
    <2>1. More(S, p2, c3, "formatter", f, p3)
      BY <1>3, <1>4, <1>8, OnePairMore
    <2> QED
      BY <2>1 DEF More
  <1>10. /\ p4 \in Seq(S)
         /\ \A k : Knows(p4, k) <=> Knows(p3, k) \/ (c4 /\ k = "type")
         /\ \A k, v : First(p3, k, v) => First(p4, k, v)
    <2> HIDE DEF p3
    <2>1. More(S, p3, c4, "type", t, p4)
      BY <1>3, <1>4, <1>9, OnePairMore
    <2> QED
      BY <2>1 DEF More
  <1>11. /\ p5 \in Seq(S)
         /\ \A k : Knows(p5, k) <=> Knows(p4, k) \/ (c5 /\ k = "file")
         /\ \A k, v : First(p4, k, v) => First(p5, k, v)
    <2> HIDE DEF p4
    <2>1. More(S, p4, c5, "file", n, p5)
      BY <1>3, <1>4, <1>10, OnePairMore
    <2> QED
      BY <2>1 DEF More
  <1>12. /\ p6 \in Seq(S)
         /\ \A k : Knows(p6, k) <=> Knows(p5, k) \/ (c4 /\ k = "appenders")
         /\ \A k, v : First(p5, k, v) => First(p6, k, v)
         /\ c4 /\ ~Knows(p5, "appenders") => First(p6, "appenders", List(xs))
    <2> HIDE DEF p5
    <2>1. More(S, p5, c4, "appenders", List(xs), p6)
      BY <1>3, <1>4, <1>11, OnePairMore
    <2> QED
      BY <2>1 DEF More
  <1> HIDE DEF p1, p2, p3, p4, p5, p6
  <1>13. /\ First(p6, "name", Scalar(d.name))
         /\ Knows(p6, "level") <=> c2
         /\ c2 => First(p6, "level", LevelTo(d.level))
         /\ Knows(p6, "formatter") <=> c3
         /\ c3 => First(p6, "formatter", f)
         /\ Knows(p6, "appenders") <=> c4
         /\ c4 => First(p6, "appenders", List(xs))
    <2>1. /\ First(p2, "name", Scalar(d.name)) /\ First(p3, "name", Scalar(d.name))
          /\ First(p4, "name", Scalar(d.name)) /\ First(p5, "name", Scalar(d.name))
          /\ First(p6, "name", Scalar(d.name))
      BY <1>7, <1>8, <1>9, <1>10, <1>11, <1>12
    <2>2. \A k : Knows(p3, k) <=> k = "name" \/ (c2 /\ k = "level") \/ (c3 /\ k = "formatter")
      BY <1>7, <1>8, <1>9
    <2>3. \A k : Knows(p5, k) <=> Knows(p3, k) \/ (c4 /\ k = "type") \/ (c5 /\ k = "file")
      BY <1>10, <1>11
    <2>4. \A k : Knows(p6, k) <=> Knows(p5, k) \/ (c4 /\ k = "appenders")
      BY <1>12
    <2>5. c2 => First(p6, "level", LevelTo(d.level))
      <3>1. ~Knows(p1, "level")
        BY <1>7
      <3> QED
        BY <1>8, <1>9, <1>10, <1>11, <1>12, <3>1
    <2>6. c3 => First(p6, "formatter", f)
      <3>1. ~Knows(p2, "formatter")
        BY <1>7, <1>8
      <3> QED
        BY <1>9, <1>10, <1>11, <1>12, <3>1
    <2>7. c4 => First(p6, "appenders", List(xs))
      <3>1. ~Knows(p5, "appenders")
        BY <2>2, <2>3
      <3> QED
        BY <1>12, <3>1
    <2>8. /\ Knows(p6, "level") <=> c2
          /\ Knows(p6, "formatter") <=> c3
          /\ Knows(p6, "appenders") <=> c4
      BY <2>2, <2>3, <2>4
    <2> QED
      BY <2>1, <2>5, <2>6, <2>7, <2>8
  <1>14. /\ IsMap(x) /\ Load(x) = x
         /\ \A k : HasKey(x, k) <=> Knows(p6, k)
         /\ \A k, v : First(p6, k, v) => HasKey(x, k) /\ Get(x, k) = v
    BY <1>12, MapHolds
  <1> HIDE DEF x
  <1>15. HasKey(x, "name") /\ StringOf(x, "name") = d.name
    BY <1>13, <1>14, ReadString
  <1>16. LevelOf(x) = d.level
    BY <1>2, <1>13, <1>14, LevelAgain DEF c2
  <1>17. StringOf(x, "formatter") = ""
    <2>1. CASE c3
      <3>1. HasKey(x, "formatter") /\ Get(x, "formatter") = Scalar("")
        BY <1>13, <1>14, <2>1 DEF f
      <3> QED
        BY <3>1, ReadString
    <2>2. CASE ~c3
      BY <1>13, <1>14, <2>2 DEF StringOf
    <2> QED
      BY <2>1, <2>2
  <1>22. \A i \in 1..Len(as) : ~IsScalar(xs[i])
    BY <1>5, <1>6, RestNotRead
  <1>18. /\ Appenders(x) = FlattenSeq([i \in 1..Len(as) |->
                             If(IsMap(xs[i]) /\ Reads(xs[i]), AppenderFrom(xs[i]))])
         /\ ~ScalarAppender(x)
    BY <1>5, <1>6, <1>13, <1>14, <1>22, AppendersAre DEF c4
  <1>19. Appenders(x) = <<>>
    <2> DEFINE s == [i \in 1..Len(as) |->
                       If(IsMap(xs[i]) /\ Reads(xs[i]), AppenderFrom(xs[i]))]
    <2>1. ASSUME NEW i \in 1..Len(as)
          PROVE  If(IsMap(xs[i]) /\ Reads(xs[i]), AppenderFrom(xs[i])) = <<>>
      <3>1. xs[i] = Rest(as[i]) /\ as[i] \in LogAppenderDefine
        BY <1>5, <1>6
      <3>2. ~(IsMap(xs[i]) /\ Reads(xs[i]))
        BY <3>1, RestNotRead
      <3> QED
        BY <3>2 DEF If
    <2>2. s = [i \in 1..Len(as) |-> <<>>]
      BY <2>1, Zenon
    <2> HIDE DEF s
    <2>3. FlattenSeq(s) = <<>>
      BY <1>5, <2>2, FlattenNothing
    <2> QED
      BY <1>18, <2>3 DEF s
  <1>20. DefineFrom(x) = Outlined(d)
    BY <1>14, <1>15, <1>16, <1>17, <1>18, <1>19 DEF DefineFrom, Outlined
  <1>21. Outlined(d) \in LogDefine
    <2>1. <<>> \in Seq(LogAppenderDefine)
      OBVIOUS
    <2>2. "" \in Optional
      BY DEF Optional
    <2> QED
      BY <1>2, <2>1, <2>2 DEF Outlined, LogDefine
  <1> QED
    BY <1>1, <1>14, <1>20, <1>21

-----------------------------------------------------------------------------
(* What the set of the definitions is.                                     *)

(* What is at each rank: the element of that rank, or nothing.             *)
Ranked(vec, rank, parts) ==
  /\ Len(rank) = Len(vec)
  /\ \A i \in 1..Len(vec) :
       rank[i] \in 1..Len(parts) /\ parts[rank[i]] = <<vec[i]>>
  /\ \A r \in 1..Len(parts) :
       (\A i \in 1..Len(vec) : rank[i] # r) => parts[r] = <<>>

(* The set of elements that are equal when their ranks are, from what is   *)
(* at each rank.                                                           *)
LEMMA SetIs ==
  ASSUME NEW V, Thrown \notin V, NEW vec \in Seq(V), NEW parts \in Seq(Seq(V)),
         NEW rank \in Seq(Nat), Ranked(vec, rank, parts)
  PROVE  SetFrom(vec, rank, Len(parts)) = FlattenSeq(parts)
  <1> DEFINE last == Len(parts)
             Sel(r) == SelectInSeq(rank, LAMBDA q : q = r)
             Part(r) == IF Contains(rank, r) THEN <<vec[Sel(r)]>> ELSE <<>>
  <1>1. ~Contains(vec, Thrown)
    BY DEF Contains
  <1>2. SetFrom(vec, rank, last) = FlattenSeq([r \in 1..last |-> Part(r)])
    BY <1>1 DEF SetFrom
  <1>3. ASSUME NEW r \in 1..last
        PROVE  Part(r) = parts[r]
    <2>1. CASE \E i \in 1..Len(rank) : rank[i] = r
      <3>1. Sel(r) \in 1..Len(rank) /\ rank[Sel(r)] = r
        BY <2>1, SelectIs
      <3> DEFINE k == Sel(r)
      <3> HIDE DEF k
      <3>2. k \in 1..Len(vec) /\ rank[k] = r
        BY <3>1 DEF k, Ranked
      <3>3. parts[r] = <<vec[k]>>
        BY <3>2 DEF Ranked
      <3> QED
        BY <2>1, <3>3 DEF Contains, k
    <2>2. CASE ~\E i \in 1..Len(rank) : rank[i] = r
      <3>1. parts[r] = <<>>
        BY <2>2 DEF Ranked
      <3> QED
        BY <2>2, <3>1 DEF Contains
    <2> QED
      BY <2>1, <2>2
  <1> HIDE DEF Part
  <1>4. [r \in 1..last |-> Part(r)] = [r \in 1..last |-> parts[r]]
    BY <1>3, Zenon
  <1>5. parts = [r \in 1..last |-> parts[r]]
    OBVIOUS
  <1> QED
    BY <1>2, <1>4, <1>5, Zenon

(* A definition's rank is the number of its name. *)
LEMMA RankIs ==
  ASSUME NEW n \in 1..Names, NEW d, d.name = LoggerName[n]
  PROVE  Rank(d) = n
  <1>1. LoggerName \in Seq(STRING) /\ IsInjective(LoggerName)
    BY ReloadOK
  <1>2. DOMAIN LoggerName = 1..Names
    BY <1>1 DEF Names
  <1>3. ASSUME NEW i \in 1..Names, LoggerName[i] = d.name
        PROVE  i = n
    BY <1>1, <1>2, <1>3 DEF IsInjective
  <1>4. (CHOOSE i \in 1..Names : LoggerName[i] = d.name) = n
    BY <1>3
  <1> QED
    BY <1>2, <1>4 DEF Rank

(* A list of texts, element by element. *)
LEMMA TextsAre ==
  ASSUME NEW S, NEW xs \in Seq(S)
  PROVE  Elements(List(xs)) = xs
  <1> DEFINE n == Len(xs)
  <1>1. List(xs).items = xs /\ DOMAIN List(xs) = {"items"} /\ DOMAIN Empty = {"empty"}
    BY DEF List, Empty
  <1>2. List(xs) # Empty /\ IsList(List(xs))
    BY <1>1 DEF IsList
  <1>3. Load(List(xs)) = List(xs)
    BY <1>2 DEF Load
  <1>5. Size(List(xs)) = n
    BY <1>1, <1>2 DEF Size
  <1>6. \A i : Element(List(xs), i) = xs[i]
    BY <1>1, <1>2 DEF Element, At
  <1>7. Elements(List(xs)) = [i \in 1..n |-> Element(List(xs), i)]
    BY <1>3, <1>5 DEF Elements
  <1>8. [i \in 1..n |-> Element(List(xs), i)] = [i \in 1..n |-> xs[i]]
    BY <1>6, Zenon
  <1>9. xs = [i \in 1..n |-> xs[i]]
    OBVIOUS
  <1> QED
    BY <1>7, <1>8, <1>9, Zenon

(* No text: no element. *)
LEMMA NoTexts == Elements(Empty) = <<>>
  <1>1. Load(Empty) = Null /\ DOMAIN Null = {"null"}
    BY DEF Load, Null
  <1>2. Size(Null) = 0
    BY <1>1 DEF Size, IsList, IsMap
  <1>3. Elements(Empty) = [i \in 1..0 |-> Element(Null, i)]
    BY <1>1, <1>2 DEF Elements
  <1> DEFINE e(i) == Element(Null, i)
  <1>4. Elements(Empty) = [i \in 1..0 |-> e(i)]
    BY <1>3
  <1> HIDE DEF e
  <1>5. [i \in 1..0 |-> e(i)] = <<>>
    OBVIOUS
  <1> QED
    BY <1>4, <1>5

(* What a text's elements are read as, and what is at each name: the      *)
(* definition of that name, or nothing.                                    *)
ReadAs(text, es) ==
  /\ Len(Elements(text)) = Len(es) /\ DOMAIN Elements(text) = 1..Len(es)
  /\ \A i \in 1..Len(es) : DefineFrom(Elements(text)[i]) = es[i]

ByName(es, parts) ==
  /\ Len(parts) = Names
  /\ \A i \in 1..Len(es) : \E r \in 1..Names :
       es[i].name = LoggerName[r] /\ parts[r] = <<es[i]>>
  /\ \A r \in 1..Names :
       (\A i \in 1..Len(es) : es[i].name # LoggerName[r]) => parts[r] = <<>>

(* The set of the definitions of a text. *)
LEMMA LogsAre ==
  ASSUME NEW es \in Seq(LogDefine), NEW parts \in Seq(Seq(LogDefine)),
         NEW text, ReadAs(text, es), ByName(es, parts)
  PROVE  LogsFrom(text) = FlattenSeq(parts)
  <1> DEFINE n == Len(es)
             ds == [i \in 1..n |-> DefineFrom(Elements(text)[i])]
             rank == [i \in 1..n |-> Rank(es[i])]
  <1>1. n \in Nat /\ es = [i \in 1..n |-> es[i]] /\ DOMAIN es = 1..n
    OBVIOUS
  <1>2. ds = es
    <2>1. ds = [i \in 1..n |-> es[i]]
      BY Zenon DEF ReadAs
    <2> QED
      BY <1>1, <2>1, Zenon
  <1> HIDE DEF ds
  <1>3. LogsFrom(text) = SetFrom(es, rank, Len(LoggerName))
    <2>1. ds = [i \in DOMAIN Elements(text) |-> DefineFrom(Elements(text)[i])]
      BY Zenon DEF ds, ReadAs
    <2>2. LogsFrom(text) = SetFrom(ds, [i \in DOMAIN ds |-> Rank(ds[i])], Len(LoggerName))
      BY <2>1, Zenon DEF LogsFrom
    <2>3. [i \in DOMAIN es |-> Rank(es[i])] = rank
      BY <1>1, Zenon
    <2> QED
      BY <1>2, <2>2, <2>3, Zenon
  <1>4. ASSUME NEW i \in 1..n
        PROVE  /\ rank[i] \in 1..Names /\ parts[rank[i]] = <<es[i]>>
               /\ es[i].name = LoggerName[rank[i]]
    <2>1. PICK r \in 1..Names : es[i].name = LoggerName[r] /\ parts[r] = <<es[i]>>
      BY DEF ByName
    <2>2. Rank(es[i]) = r
      BY <2>1, RankIs
    <2>3. rank[i] = r
      BY <2>2
    <2> QED
      BY <2>1, <2>3
  <1>5. rank \in Seq(Nat) /\ Len(rank) = n
    <2>1. \A i \in 1..n : rank[i] \in Nat
      BY <1>4
    <2>2. rank \in [1..n -> Nat]
      BY <2>1
    <2>3. n \in Nat
      BY <1>1
    <2> HIDE DEF rank, n
    <2> QED
      BY <2>2, <2>3
  <1>6. ASSUME NEW r \in 1..Names, \A i \in 1..n : rank[i] # r
        PROVE  parts[r] = <<>>
    <2>1. ASSUME NEW i \in 1..n, es[i].name = LoggerName[r] PROVE FALSE
      <3>1. Rank(es[i]) = r
        BY <2>1, RankIs
      <3> QED
        BY <1>6, <3>1
    <2> QED
      BY <2>1 DEF ByName
  <1> HIDE DEF rank
  <1>7. Names = Len(LoggerName) /\ Names \in Nat /\ Thrown \notin LogDefine
    BY NamesNat, ReloadOK DEF Names
  <1>8. Ranked(es, rank, parts)
    BY <1>4, <1>5, <1>6 DEF Ranked, ByName
  <1>9. SetFrom(es, rank, Names) = FlattenSeq(parts)
    BY <1>5, <1>7, <1>8, SetIs DEF ByName
  <1> QED
    BY <1>3, <1>7, <1>9

-----------------------------------------------------------------------------
(* What toString writes of a configuration.                                *)

(* A configuration gives a name to the definition of that name. *)
LEMMA NamedDefinition ==
  ASSUME NEW c \in Configs, NEW n \in 1..Names, c[n] # NoDef
  PROVE  c[n] \in LogDefine /\ c[n].name = LoggerName[n]
  <1>1. c[n] \in LogDefine
    BY ReloadOK
  <1>2. PICK text \in Texts : c = AsConfig(LogsFrom(text))
    BY DEF Configs
  <1> DEFINE ds == LogsFrom(text)
             named == {i \in DOMAIN ds : ds[i].name = LoggerName[n]}
  <1> HIDE DEF ds
  <1>3. c[n] = IF named = {} THEN NoDef ELSE ds[CHOOSE i \in named : TRUE]
    BY <1>2 DEF AsConfig, ds
  <1>4. named # {} /\ c[n] = ds[CHOOSE i \in named : TRUE]
    BY <1>3
  <1>5. (CHOOSE i \in named : TRUE) \in named
    BY <1>4
  <1>6. ds[CHOOSE i \in named : TRUE].name = LoggerName[n]
    BY <1>5
  <1> QED
    BY <1>1, <1>4, <1>6

(* The definitions of a configuration, name by name, and what is read of   *)
(* them again.                                                             *)
Defined(c)  == [n \in 1..Names |-> If(c[n] # NoDef, c[n])]
Again(c) == [n \in 1..Names |-> If(c[n] # NoDef, Outlined(c[n]))]

(* Each name has one definition, or none. *)
LEMMA NameByName ==
  ASSUME NEW c \in Configs
  PROVE  /\ Defined(c) \in Seq(Seq(LogDefine)) /\ Len(Defined(c)) = Names
         /\ Again(c) \in Seq(Seq(LogDefine)) /\ Len(Again(c)) = Names
         /\ \A n \in 1..Names :
              \/ /\ c[n] = NoDef /\ Defined(c)[n] = <<>> /\ Again(c)[n] = <<>>
              \/ /\ c[n] # NoDef /\ c[n] \in LogDefine /\ c[n].name = LoggerName[n]
                 /\ Outlined(c[n]) \in LogDefine
                 /\ Defined(c)[n] = <<c[n]>> /\ Again(c)[n] = <<Outlined(c[n])>>
  <1>1. ASSUME NEW n \in 1..Names
        PROVE  \/ /\ c[n] = NoDef /\ Defined(c)[n] = <<>> /\ Again(c)[n] = <<>>
               \/ /\ c[n] # NoDef /\ c[n] \in LogDefine /\ c[n].name = LoggerName[n]
                  /\ Outlined(c[n]) \in LogDefine
                  /\ Defined(c)[n] = <<c[n]>> /\ Again(c)[n] = <<Outlined(c[n])>>
    <2>1. CASE c[n] = NoDef
      BY <2>1 DEF Defined, Again, If
    <2>2. CASE c[n] # NoDef
      <3>1. c[n] \in LogDefine /\ c[n].name = LoggerName[n]
        BY <2>2, NamedDefinition
      <3>2. Outlined(c[n]) \in LogDefine
        BY <3>1, DefineAgain
      <3>3. Defined(c)[n] = <<c[n]>> /\ Again(c)[n] = <<Outlined(c[n])>>
        BY <2>2 DEF Defined, Again, If
      <3> QED
        BY <2>2, <3>1, <3>2, <3>3
    <2> QED
      BY <2>1, <2>2
  <1>2. \A d \in LogDefine : <<d>> \in Seq(LogDefine)
    OBVIOUS
  <1>3. \A n \in 1..Names : Defined(c)[n] \in Seq(LogDefine) /\ Again(c)[n] \in Seq(LogDefine)
    <2>1. <<>> \in Seq(LogDefine)
      OBVIOUS
    <2> QED
      BY <1>1, <1>2, <2>1
  <1>4. Defined(c) \in [1..Names -> Seq(LogDefine)] /\ Again(c) \in [1..Names -> Seq(LogDefine)]
    BY <1>3 DEF Defined, Again
  <1>5. Names \in Nat
    BY NamesNat
  <1>6. \A q, S : q \in [1..Names -> S] => q \in Seq(S) /\ Len(q) = Names
    BY <1>5
  <1> QED
    BY <1>1, <1>4, <1>6

(* The nodes toString writes. *)
LEMMA NodesAre ==
  ASSUME NEW ds \in Seq(LogDefine)
  PROVE  /\ DOMAIN Elements(LogsTo(ds)) = 1..Len(ds)
         /\ Len(Elements(LogsTo(ds))) = Len(ds)
         /\ \A i \in 1..Len(ds) : Elements(LogsTo(ds))[i] = DefineTo(ds[i])
  <1> DEFINE xs == [i \in DOMAIN ds |-> DefineTo(ds[i])]
             ys == [i \in DOMAIN xs |-> Load(xs[i])]
             n == Len(ds)
  <1>1. DOMAIN ds = 1..n /\ n \in Nat /\ \A i \in 1..n : ds[i] \in LogDefine
    BY ItemsOf
  <1>2. DOMAIN xs = 1..n /\ \A i \in 1..n : xs[i] = DefineTo(ds[i])
    BY <1>1
  <1>3. DOMAIN ys = 1..n /\ \A i \in 1..n : ys[i] = DefineTo(ds[i])
    BY <1>1, <1>2, DefineAgain
  <1>4. LogsTo(ds) = IF xs = <<>> THEN Empty ELSE List(ys)
    BY DEF LogsTo, SetTo, VectorTo
  <1> DEFINE S == {DefineTo(ds[i]) : i \in 1..n}
  <1>5. /\ xs \in Seq(S) /\ Len(xs) = n
        /\ ys \in Seq(S) /\ Len(ys) = n
    <2>1. xs \in [1..n -> S]
      BY <1>1
    <2>2. ys \in [1..n -> S]
      BY <1>2, <1>3
    <2> HIDE DEF xs, ys, S, n
    <2> QED
      BY <1>1, <2>1, <2>2
  <1> HIDE DEF xs, ys, S
  <1>6. CASE xs = <<>>
    <2>1. n = 0
      BY <1>5, <1>6
    <2>2. Elements(LogsTo(ds)) = <<>>
      BY <1>4, <1>6, NoTexts
    <2> QED
      BY <2>1, <2>2
  <1>7. CASE xs # <<>>
    <2>1. Elements(LogsTo(ds)) = ys
      BY <1>4, <1>5, <1>7, TextsAre
    <2> QED
      BY <1>3, <1>5, <2>1
  <1> QED
    BY <1>6, <1>7

(* What is read of them. *)
LEMMA AgainRead ==
  ASSUME NEW c \in Configs
  PROVE  LogsFrom(LogsTo(Defines(c))) = FlattenSeq(Again(c))
  <1> DEFINE D == Defined(c)
             ds == FlattenSeq(D)
             es == [i \in 1..Len(ds) |-> Outlined(ds[i])]
             text == LogsTo(ds)
  <1>1. Defines(c) = ds
    BY DEF Defines, Defined
  <1>2. D \in Seq(Seq(LogDefine)) /\ Len(D) = Names
    BY NameByName
  <1>3. ds \in Seq(LogDefine)
    BY <1>2, FlattenType
  <1>4. ASSUME NEW i \in 1..Len(ds)
        PROVE  \E r \in 1..Names : /\ c[r] # NoDef /\ ds[i] = c[r]
                                   /\ c[r] \in LogDefine /\ c[r].name = LoggerName[r]
                                   /\ Again(c)[r] = <<Outlined(c[r])>>
    <2>1. PICK r \in 1..Names : \E j \in 1..Len(D[r]) : ds[i] = D[r][j]
      BY <1>2, FlattenElements DEF Among
    <2>2. D[r] # <<>>
      BY <2>1
    <2>3. /\ c[r] # NoDef /\ D[r] = <<c[r]>> /\ Again(c)[r] = <<Outlined(c[r])>>
          /\ c[r] \in LogDefine /\ c[r].name = LoggerName[r]
      BY <2>2, NameByName
    <2> HIDE DEF ds, D
    <2>4. ds[i] = c[r]
      BY <2>1, <2>3
    <2> QED
      BY <2>3, <2>4
  <1>5. \A i \in 1..Len(ds) : ds[i] \in LogDefine /\ Outlined(ds[i]) \in LogDefine
    BY <1>4, DefineAgain
  <1>6. ASSUME NEW r \in 1..Names, c[r] # NoDef
        PROVE  \E i \in 1..Len(ds) : ds[i] = c[r]
    <2>1. D[r] = <<c[r]>>
      BY <1>6, NameByName
    <2>2. PICK b \in Nat : Block(D, r, b)
      BY <1>2, FlattenBlock
    <2>3. Len(D[r]) = 1 /\ D[r][1] = c[r]
      BY <2>1
    <2>4. b + 1 <= Len(ds) /\ ds[b + 1] = c[r]
      BY <2>2, <2>3 DEF Block
    <2>5. Len(ds) \in Nat
      BY <1>3
    <2>6. b + 1 \in 1..Len(ds)
      BY <2>4, <2>5
    <2> QED
      BY <2>4, <2>6
  <1> HIDE DEF D, ds
  <1>7. es \in Seq(LogDefine) /\ Len(es) = Len(ds)
    <2>1. es \in [1..Len(ds) -> LogDefine]
      BY <1>5
    <2>2. Len(ds) \in Nat
      BY <1>3
    <2> HIDE DEF es
    <2> QED
      BY <2>1, <2>2
  <1>8. \A i \in 1..Len(ds) : es[i] = Outlined(ds[i])
    OBVIOUS
  <1> HIDE DEF es
  <1>9. \A d : Outlined(d).name = d.name
    BY DEF Outlined
  <1>10. /\ DOMAIN Elements(text) = 1..Len(es) /\ Len(Elements(text)) = Len(es)
        /\ \A i \in 1..Len(es) : DefineFrom(Elements(text)[i]) = es[i]
    <2>1. /\ DOMAIN Elements(text) = 1..Len(ds) /\ Len(Elements(text)) = Len(ds)
          /\ \A i \in 1..Len(ds) : Elements(text)[i] = DefineTo(ds[i])
      BY <1>3, NodesAre
    <2> HIDE DEF text
    <2>2. \A i \in 1..Len(ds) : DefineFrom(Elements(text)[i]) = Outlined(ds[i])
      BY <1>5, <2>1, DefineAgain
    <2> QED
      BY <1>7, <1>8, <2>1, <2>2
  <1>11. \A i \in 1..Len(es) : \E r \in 1..Names :
           es[i].name = LoggerName[r] /\ Again(c)[r] = <<es[i]>>
    <2>1. ASSUME NEW i \in 1..Len(ds)
          PROVE  \E r \in 1..Names : es[i].name = LoggerName[r] /\ Again(c)[r] = <<es[i]>>
      <3>1. PICK r \in 1..Names : /\ ds[i] = c[r] /\ c[r].name = LoggerName[r]
                                  /\ Again(c)[r] = <<Outlined(c[r])>>
        BY <1>4
      <3>2. es[i] = Outlined(c[r])
        BY <1>8, <3>1
      <3>3. es[i].name = LoggerName[r]
        BY <1>9, <3>1, <3>2
      <3> QED
        BY <3>1, <3>2, <3>3
    <2> QED
      BY <1>7, <2>1
  <1>12. ASSUME NEW r \in 1..Names, \A i \in 1..Len(es) : es[i].name # LoggerName[r]
         PROVE  Again(c)[r] = <<>>
    <2>1. CASE c[r] = NoDef
      BY <2>1, NameByName
    <2>2. CASE c[r] # NoDef
      <3>1. PICK i \in 1..Len(ds) : ds[i] = c[r]
        BY <1>6, <2>2
      <3>2. es[i].name = c[r].name
        BY <1>8, <1>9, <3>1
      <3>3. c[r].name = LoggerName[r]
        BY <2>2, NamedDefinition
      <3> QED
        BY <1>7, <1>12, <3>2, <3>3
    <2> QED
      BY <2>1, <2>2
  <1>13. Again(c) \in Seq(Seq(LogDefine)) /\ Len(Again(c)) = Names
    BY NameByName
  <1>14. ReadAs(text, es) /\ ByName(es, Again(c))
    BY <1>10, <1>11, <1>12, <1>13 DEF ReadAs, ByName
  <1> HIDE DEF text
  <1>15. LogsFrom(text) = FlattenSeq(Again(c))
    BY <1>7, <1>13, <1>14, LogsAre
  <1> QED
    BY <1>1, <1>15 DEF text

-----------------------------------------------------------------------------
(* Names and levels.                                                       *)
NameLevel(d) == [name |-> d.name, level |-> d.level]
OutlineOf    == [d \in LogDefine |-> NameLevel(d)]

(* The outline of definitions, one by one. *)
LEMMA OutlineIs ==
  ASSUME NEW q \in Seq(LogDefine)
  PROVE  Outline(q) = Each(OutlineOf, q)
  <1>1. DOMAIN q = 1..Len(q) /\ \A i \in 1..Len(q) : q[i] \in LogDefine
    BY ItemsOf
  <1>2. Outline(q) = [i \in 1..Len(q) |-> NameLevel(q[i])]
    BY <1>1 DEF Outline, NameLevel
  <1>3. \A i \in 1..Len(q) : OutlineOf[q[i]] = NameLevel(q[i])
    BY <1>1 DEF OutlineOf
  <1>4. [i \in 1..Len(q) |-> NameLevel(q[i])] = [i \in 1..Len(q) |-> OutlineOf[q[i]]]
    BY <1>3, Zenon
  <1> QED
    BY <1>2, <1>4, Zenon DEF Each

(* What toString writes and the reader reads again has the same outline. *)
LEMMA OutlineAgain ==
  ASSUME NEW c \in Configs
  PROVE  Outline(LogsFrom(LogsTo(Defines(c)))) = Outline(Defines(c))
  <1> DEFINE D == Defined(c)
             A == Again(c)
             f == OutlineOf
  <1>1. Defines(c) = FlattenSeq(D)
    BY DEF Defines, Defined
  <1>2. /\ D \in Seq(Seq(LogDefine)) /\ Len(D) = Names
        /\ A \in Seq(Seq(LogDefine)) /\ Len(A) = Names
    BY NameByName
  <1>3. ASSUME NEW n \in 1..Names
        PROVE  Each(f, A[n]) = Each(f, D[n])
    <2>1. CASE c[n] = NoDef
      BY <2>1, NameByName
    <2>2. CASE c[n] # NoDef
      <3>1. /\ D[n] = <<c[n]>> /\ A[n] = <<Outlined(c[n])>>
            /\ c[n] \in LogDefine /\ Outlined(c[n]) \in LogDefine
        BY <2>2, NameByName
      <3>2. f[Outlined(c[n])] = f[c[n]]
        <4>1. Outlined(c[n]).name = c[n].name /\ Outlined(c[n]).level = c[n].level
          BY DEF Outlined
        <4> QED
          BY <3>1, <4>1 DEF OutlineOf, NameLevel
      <3> HIDE DEF f, D, A
      <3>3. \A d : Each(f, <<d>>) = [i \in 1..1 |-> f[d]]
        <4>1. \A d : Len(<<d>>) = 1 /\ <<d>>[1] = d
          OBVIOUS
        <4>2. \A i \in 1..1 : i = 1
          OBVIOUS
        <4> QED
          BY <4>1, <4>2 DEF Each
      <3> QED
        BY <3>1, <3>2, <3>3
    <2> QED
      BY <2>1, <2>2
  <1> HIDE DEF D, A, f
  <1>4. /\ Each(f, FlattenSeq(A)) = FlattenSeq([n \in 1..Len(A) |-> Each(f, A[n])])
        /\ Each(f, FlattenSeq(D)) = FlattenSeq([n \in 1..Len(D) |-> Each(f, D[n])])
    <2>1. \A s \in Seq(Seq(LogDefine)) :
            Each(f, FlattenSeq(s)) = FlattenSeq([n \in 1..Len(s) |-> Each(f, s[n])])
      BY FlattenEach
    <2> QED
      BY <1>2, <2>1
  <1>5. [n \in 1..Names |-> Each(f, A[n])] = [n \in 1..Names |-> Each(f, D[n])]
    BY <1>3, Zenon
  <1>6. Each(f, FlattenSeq(A)) = Each(f, FlattenSeq(D))
    BY <1>2, <1>4, <1>5
  <1>7. FlattenSeq(A) \in Seq(LogDefine) /\ FlattenSeq(D) \in Seq(LogDefine)
    BY <1>2, FlattenType
  <1>8. /\ Outline(FlattenSeq(A)) = Each(f, FlattenSeq(A))
        /\ Outline(FlattenSeq(D)) = Each(f, FlattenSeq(D))
    BY <1>7, OutlineIs DEF f
  <1>9. LogsFrom(LogsTo(FlattenSeq(D))) = FlattenSeq(A)
    BY <1>1, AgainRead DEF A
  <1> QED
    BY <1>1, <1>6, <1>8, <1>9

(* What the dump of "logs" says of names and levels can be loaded again.   *)
THEOREM OutlineKept == Spec => []DumpKeepsOutline
  <1>1. TypeOK => DumpKeepsOutline
    <2> SUFFICES ASSUME TypeOK PROVE DumpKeepsOutline
      OBVIOUS
    <2>1. val \in Configs
      BY DEF TypeOK
    <2> QED
      BY <2>1, OutlineAgain DEF DumpKeepsOutline
  <1> QED
    BY <1>1, ReloadTyped, PTL

-----------------------------------------------------------------------------
(* What is saved of the loggers.                                           *)

(* A sequence of one element. *)
LEMMA EachOne ==
  ASSUME NEW f, NEW d
  PROVE  Each(f, <<d>>) = <<f[d]>>
  <1>1. Len(<<d>>) = 1 /\ <<d>>[1] = d
    OBVIOUS
  <1>2. \A i \in 1..1 : f[<<d>>[i]] = f[d]
    BY <1>1
  <1>3. Each(f, <<d>>) = [i \in 1..1 |-> f[d]]
    <2>1. [i \in 1..1 |-> f[<<d>>[i]]] = [i \in 1..1 |-> f[d]]
      BY <1>2, Zenon
    <2> QED
      BY <1>1, <2>1 DEF Each
  <1> DEFINE e == f[d]
  <1> HIDE DEF e
  <1>4. [i \in 1..1 |-> e] = <<e>>
    OBVIOUS
  <1> QED
    BY <1>3, <1>4 DEF e

(* What a reload gives a logger is of the definitions' types. *)
LEMMA LoggerTypes ==
  ASSUME Inv, NEW n \in 1..Names
  PROVE  /\ level[n] \in Severity /\ formatter[n] \in Valid /\ formatter[n] \in STRING
         /\ appenders[n] \in Seq(Built) /\ appenders[n] \in Seq(Attachable)
         /\ \A i \in 1..Len(appenders[n]) :
              ~appenders[n][i].own => appenders[n][i].formatter = formatter[n]
  <1>1. \A d \in Definitions : d \in LogDefine
    <2> SUFFICES ASSUME NEW d \in Definitions PROVE d \in LogDefine
      OBVIOUS
    <2>1. PICK c \in Configs, m \in Index : d = c[m] /\ c[m] # NoDef
      BY DEF Definitions
    <2> QED
      BY <2>1, ReloadOK DEF Index
  <1>2. Levels \subseteq Severity
    <2>1. Unknow \in Severity /\ Debug \in Severity
      BY ReloadOK DEF Severity
    <2>2. \A d \in LogDefine : d.level \in Severity
      BY DEF LogDefine
    <2> QED
      BY <1>1, <2>1, <2>2 DEF Levels
  <1>3. AppDefs \subseteq LogAppenderDefine
    <2> SUFFICES ASSUME NEW a \in AppDefs PROVE a \in LogAppenderDefine
      OBVIOUS
    <2>1. PICK d \in Definitions : a \in Range(d.appenders)
      BY DEF AppDefs
    <2>2. d.appenders \in Seq(LogAppenderDefine)
      BY <1>1 DEF LogDefine
    <2> DEFINE as == d.appenders
    <2> HIDE DEF as
    <2>3. as \in Seq(LogAppenderDefine) /\ a \in Range(as)
      BY <2>1, <2>2 DEF as
    <2>4. PICK i \in DOMAIN as : a = as[i]
      BY <2>3 DEF Range
    <2> QED
      BY <2>3, <2>4, ItemsOf
  <1>4. Built \subseteq Attachable
    <2>1. \A a \in AppDefs : a.type \in {File, Stdout} /\ a.file \in Optional
                             /\ a.level \in Severity
      BY <1>3 DEF LogAppenderDefine
    <2>2. Valid \subseteq STRING
      BY ReloadOK
    <2>3. /\ {a.type : a \in AppDefs} \subseteq {File, Stdout}
          /\ {a.file : a \in AppDefs} \subseteq Optional
          /\ {a.level : a \in AppDefs} \subseteq Severity
      BY <2>1
    <2> QED
      BY <2>2, <2>3 DEF Built, Attachable
  <1>5. n \in Index
    BY DEF Index
  <1>6. level[n] \in Levels /\ formatter[n] \in Valid /\ appenders[n] \in Seq(Built)
    BY <1>5 DEF Inv, ReloadType
  <1>7. \A S, T : S \subseteq T => Seq(S) \subseteq Seq(T)
    OBVIOUS
  <1>8. appenders[n] \in Seq(Attachable)
    BY <1>4, <1>6, <1>7
  <1>9. DOMAIN appenders[n] = 1..Len(appenders[n])
    BY <1>6, ItemsOf
  <1>10. \A i \in 1..Len(appenders[n]) :
           ~appenders[n][i].own => appenders[n][i].formatter = formatter[n]
    BY <1>9 DEF Inv, FollowsLogger
  <1> QED
    BY <1>2, <1>6, <1>8, <1>10, ReloadOK

(* A function of numbers up to some number is a sequence. *)
LEMMA FunctionIsSeq ==
  ASSUME NEW n \in Nat, NEW S, NEW q \in [1..n -> S]
  PROVE  q \in Seq(S) /\ Len(q) = n
  OBVIOUS

(* The definitions read from a logger's appenders, one by one. *)
KeptParts(as) == [i \in 1..Len(as) |-> If(as[i].type = File, Kept(as[i]))]

(* Each is a definition, or none. *)
LEMMA KeptType ==
  ASSUME NEW as \in Seq(Attachable)
  PROVE  /\ \A i \in 1..Len(as) : Kept(as[i]) \in LogAppenderDefine
         /\ KeptParts(as) \in Seq(Seq(LogAppenderDefine))
         /\ Len(KeptParts(as)) = Len(as)
         /\ KeptOf(as) = FlattenSeq(KeptParts(as))
         /\ KeptOf(as) \in Seq(LogAppenderDefine)
  <1>1. \A b \in Attachable : Kept(b) \in LogAppenderDefine
    <2> SUFFICES ASSUME NEW b \in Attachable PROVE Kept(b) \in LogAppenderDefine
      OBVIOUS
    <2>1. /\ b.file \in Optional /\ b.level \in Severity /\ b.formatter \in Optional
          /\ "" \in Optional
      BY DEF Attachable, Optional
    <2> QED
      BY <2>1 DEF Kept, LogAppenderDefine
  <1>2. \A i \in 1..Len(as) : Kept(as[i]) \in LogAppenderDefine
    BY <1>1, ItemsOf
  <1>3. \A a \in LogAppenderDefine : <<a>> \in Seq(LogAppenderDefine)
    OBVIOUS
  <1>4. <<>> \in Seq(LogAppenderDefine)
    OBVIOUS
  <1>5. \A i \in 1..Len(as) :
          If(as[i].type = File, Kept(as[i])) \in Seq(LogAppenderDefine)
    BY <1>2, <1>3, <1>4 DEF If
  <1>6. KeptParts(as) \in [1..Len(as) -> Seq(LogAppenderDefine)]
    BY <1>5 DEF KeptParts
  <1>7. Len(as) \in Nat
    BY ItemsOf
  <1>8. KeptParts(as) \in Seq(Seq(LogAppenderDefine)) /\ Len(KeptParts(as)) = Len(as)
    BY <1>6, <1>7, FunctionIsSeq
  <1>9. KeptOf(as) = FlattenSeq(KeptParts(as))
    BY DEF KeptOf, KeptParts
  <1> QED
    BY <1>2, <1>8, <1>9, FlattenType

(* The definition an appender is read as builds that appender again.       *)
LEMMA BuiltAgain ==
  ASSUME NEW n, NEW b \in Built, b.type = File, ~b.own => b.formatter = formatter[n]
  PROVE  Build(n, Kept(b)) = b
  <1> DEFINE a == Kept(b)
  <1>1. /\ a.type = b.type /\ a.file = b.file /\ a.level = b.level
        /\ a.formatter = IF b.own THEN b.formatter ELSE ""
    BY DEF Kept
  <1>2. /\ b.own \in BOOLEAN /\ b.formatter \in Valid
        /\ b = [type |-> b.type, file |-> b.file, level |-> b.level, own |-> b.own,
                formatter |-> b.formatter]
    BY DEF Built
  <1> HIDE DEF a
  <1>3. CASE b.own
    <2>1. a.formatter \in Valid /\ a.formatter = b.formatter
      BY <1>1, <1>2, <1>3
    <2>2. (a.formatter \in Valid) = b.own
      <3>1. b.own = TRUE
        BY <1>2, <1>3
      <3>2. (a.formatter \in Valid) = TRUE
        BY <2>1
      <3> QED
        BY <3>1, <3>2, Zenon
    <2>3. Build(n, a) = [type |-> b.type, file |-> b.file, level |-> b.level,
                         own |-> b.own, formatter |-> b.formatter]
      BY <1>1, <2>1, <2>2, Zenon DEF Build
    <2> QED
      BY <1>2, <2>3 DEF a
  <1>4. CASE ~b.own
    <2>1. a.formatter \notin Valid
      BY <1>1, <1>4, ReloadOK
    <2>2. (a.formatter \in Valid) = b.own
      <3>1. b.own = FALSE
        BY <1>2, <1>4
      <3>2. (a.formatter \in Valid) = FALSE
        BY <2>1
      <3> QED
        BY <3>1, <3>2, Zenon
    <2>3. Build(n, a) = [type |-> b.type, file |-> b.file, level |-> b.level,
                         own |-> b.own, formatter |-> b.formatter]
      BY <1>1, <1>4, <2>1, <2>2, Zenon DEF Build
    <2> QED
      BY <1>2, <2>3 DEF a
  <1> QED
    BY <1>3, <1>4

(* The file appenders of a logger are built again from what is kept.       *)
LEMMA FilesAgain ==
  ASSUME NEW n, NEW as \in Seq(Attachable), as \in Seq(Built),
         \A i \in 1..Len(as) : ~as[i].own => as[i].formatter = formatter[n]
  PROVE  [i \in DOMAIN KeptOf(as) |-> Build(n, KeptOf(as)[i])] = OnlyFiles(as)
  <1> DEFINE s == KeptParts(as)
             K == FlattenSeq(s)
             g == [a \in LogAppenderDefine |-> Build(n, a)]
  <1>1. KeptOf(as) = K
    BY KeptType
  <1>2. DOMAIN as = 1..Len(as) /\ Len(as) \in Nat
    BY ItemsOf
  <1>3. \A i \in 1..Len(as) : Kept(as[i]) \in LogAppenderDefine
    BY KeptType
  <1>4. s \in Seq(Seq(LogAppenderDefine)) /\ Len(s) = Len(as)
    BY KeptType
  <1>5. ASSUME NEW i \in 1..Len(as)
        PROVE  Each(g, s[i]) = If(as[i].type = File, as[i])
    <2>1. CASE as[i].type = File
      <3>1. s[i] = <<Kept(as[i])>>
        BY <2>1 DEF If, KeptParts
      <3>2. as[i] \in Built
        BY ItemsOf
      <3>3. Build(n, Kept(as[i])) = as[i]
        BY <2>1, <3>2, BuiltAgain
      <3>4. g[Kept(as[i])] = as[i]
        BY <1>2, <1>3, <3>3
      <3> HIDE DEF g, s
      <3>5. Each(g, <<Kept(as[i])>>) = <<g[Kept(as[i])]>>
        BY EachOne
      <3> QED
        BY <2>1, <3>1, <3>4, <3>5 DEF If
    <2>2. CASE as[i].type # File
      <3>1. s[i] = <<>>
        BY <2>2 DEF If, KeptParts
      <3> HIDE DEF g, s
      <3>2. Each(g, <<>>) = <<>>
        BY DEF Each
      <3> QED
        BY <2>2, <3>1, <3>2 DEF If
    <2> QED
      BY <2>1, <2>2
  <1>6. K \in Seq(LogAppenderDefine)
    BY <1>4, FlattenType
  <1> HIDE DEF s
  <1>7. [i \in DOMAIN K |-> Build(n, K[i])] = Each(g, K)
    <2> HIDE DEF K
    <2>1. DOMAIN K = 1..Len(K) /\ \A i \in 1..Len(K) : K[i] \in LogAppenderDefine
      BY <1>6, ItemsOf
    <2>2. \A i \in 1..Len(K) : Build(n, K[i]) = g[K[i]]
      BY <2>1
    <2> HIDE DEF g
    <2>3. [i \in 1..Len(K) |-> Build(n, K[i])] = [i \in 1..Len(K) |-> g[K[i]]]
      BY <2>2, Zenon
    <2> QED
      BY <2>1, <2>3, Zenon DEF Each
  <1> HIDE DEF g
  <1>8. Each(g, K) = FlattenSeq([i \in 1..Len(as) |-> Each(g, s[i])])
    <2>1. \A q \in Seq(Seq(LogAppenderDefine)) :
            Each(g, FlattenSeq(q)) = FlattenSeq([i \in 1..Len(q) |-> Each(g, q[i])])
      BY FlattenEach
    <2> QED
      BY <1>4, <2>1
  <1>9. [i \in 1..Len(as) |-> Each(g, s[i])]
          = [i \in 1..Len(as) |-> If(as[i].type = File, as[i])]
    BY <1>5, Zenon
  <1>10. OnlyFiles(as) = FlattenSeq([i \in 1..Len(as) |-> If(as[i].type = File, as[i])])
    BY <1>2, Zenon DEF OnlyFiles
  <1> HIDE DEF K
  <1> QED
    BY <1>1, <1>7, <1>8, <1>9, <1>10, Zenon

(* What is read of a saved logger. *)
Reread(n) ==
  [name |-> LoggerName[n], level |-> level[n], formatter |-> formatter[n],
   appenders |-> KeptOf(appenders[n])]

(* The saved loggers are read again, each under its name. *)
LEMMA SavedIs ==
  ASSUME Inv, NEW n \in 1..Names
  PROVE  Saved[n] = Reread(n)
  <1> DEFINE txt(m) == LoggerTo(LoggerName[m], level[m], formatter[m], appenders[m])
             texts == [m \in 1..Names |-> txt(m)]
             ys == [m \in DOMAIN texts |-> Load(texts[m])]
             text == ManagerTo(texts)
             es == [m \in 1..Names |-> Reread(m)]
             parts == [m \in 1..Names |-> <<Reread(m)>>]
  <1>1. ASSUME NEW m \in 1..Names
        PROVE  /\ Load(txt(m)) = txt(m) /\ DefineFrom(txt(m)) = Reread(m)
               /\ Reread(m) \in LogDefine /\ Reread(m).name = LoggerName[m]
    <2>1. /\ level[m] \in Severity /\ formatter[m] \in STRING
          /\ appenders[m] \in Seq(Attachable)
      BY LoggerTypes
    <2>2. Load(txt(m)) = txt(m) /\ DefineFrom(txt(m)) = Reread(m)
      BY <2>1, LoggerAgain DEF Reread
    <2>3. LoggerName[m] \in STRING
      <3>1. LoggerName \in Seq(STRING)
        BY ReloadOK
      <3> QED
        BY <3>1, ItemsOf DEF Names
    <2>4. KeptOf(appenders[m]) \in Seq(LogAppenderDefine) /\ formatter[m] \in Optional
      BY <2>1, KeptType DEF Optional
    <2>5. Reread(m) \in LogDefine /\ Reread(m).name = LoggerName[m]
      BY <2>1, <2>3, <2>4 DEF Reread, LogDefine
    <2> QED
      BY <2>2, <2>5
  <1> HIDE DEF txt
  <1>2. Names \in Nat
    BY NamesNat
  <1>3. text = List(ys)
    BY DEF ManagerTo
  <1>4. \A m \in 1..Names : ys[m] = txt(m)
    BY <1>1
  <1> DEFINE S == {txt(m) : m \in 1..Names}
  <1>5. ys \in Seq(S) /\ Len(ys) = Names
    <2>1. ys \in [1..Names -> S]
      BY <1>4
    <2> HIDE DEF ys, S
    <2> QED
      BY <1>2, <2>1, FunctionIsSeq
  <1>6. es \in Seq(LogDefine) /\ Len(es) = Names
    <2>1. es \in [1..Names -> LogDefine]
      BY <1>1
    <2> HIDE DEF es
    <2> QED
      BY <1>2, <2>1, FunctionIsSeq
  <1>7. parts \in Seq(Seq(LogDefine)) /\ Len(parts) = Names
    <2>1. \A d \in LogDefine : <<d>> \in Seq(LogDefine)
      OBVIOUS
    <2>2. parts \in [1..Names -> Seq(LogDefine)]
      BY <1>1, <2>1
    <2> HIDE DEF parts
    <2> QED
      BY <1>2, <2>2, FunctionIsSeq
  <1>8. \A m \in 1..Names : es[m] = Reread(m) /\ parts[m] = <<es[m]>>
    OBVIOUS
  <1>9. DOMAIN ys = 1..Names
    OBVIOUS
  <1>10. parts = [m \in 1..Len(es) |-> <<es[m]>>]
    <2>1. [m \in 1..Names |-> <<Reread(m)>>] = [m \in 1..Names |-> <<es[m]>>]
      BY <1>8, Zenon
    <2> HIDE DEF es
    <2> QED
      BY <1>6, <2>1
  <1> HIDE DEF text, ys, es, parts, S
  <1>11. Elements(text) = ys
    BY <1>3, <1>5, TextsAre
  <1>12. LogsFrom(text) = FlattenSeq(parts)
    <2>1. ReadAs(text, es)
      BY <1>1, <1>4, <1>5, <1>6, <1>8, <1>9, <1>11 DEF ReadAs
    <2>2. ByName(es, parts)
      BY <1>1, <1>6, <1>7, <1>8 DEF ByName
    <2> QED
      BY <1>6, <1>7, <2>1, <2>2, LogsAre
  <1>13. FlattenSeq(parts) = es
    BY <1>6, <1>10, FlattenSingles
  <1>14. Saved = AsConfig(es)
    BY <1>12, <1>13 DEF Saved, text, texts, txt
  <1>15. AsConfig(es)[n] = es[n]
    <2> DEFINE named == {i \in DOMAIN es : es[i].name = LoggerName[n]}
    <2>1. DOMAIN es = 1..Names
      BY <1>6, ItemsOf
    <2>2. LoggerName \in Seq(STRING) /\ IsInjective(LoggerName)
      BY ReloadOK
    <2>3. ASSUME NEW i \in 1..Names, LoggerName[i] = LoggerName[n]
          PROVE  i = n
      <3>1. DOMAIN LoggerName = 1..Names
        BY <2>2 DEF Names
      <3> QED
        BY <2>2, <2>3, <3>1 DEF IsInjective
    <2>4. \A i \in 1..Names : es[i].name = LoggerName[i]
      BY <1>1, <1>8
    <2>5. named = {n}
      BY <2>1, <2>3, <2>4
    <2>6. AsConfig(es)[n] = IF named = {} THEN NoDef ELSE es[CHOOSE i \in named : TRUE]
      BY DEF AsConfig
    <2> HIDE DEF named
    <2>7. named # {} /\ (CHOOSE i \in named : TRUE) = n
      BY <2>5
    <2> QED
      BY <2>6, <2>7
  <1> QED
    BY <1>8, <1>14, <1>15

(* What LoggerManager saves restores every logger, but for its stdout      *)
(* appenders.                                                              *)
THEOREM SavedIsRestored == Spec => []SavedRestores
  <1>1. Inv => SavedRestores
    <2> SUFFICES ASSUME Inv PROVE SavedRestores
      OBVIOUS
    <2>1. ASSUME NEW n \in 1..Names
          PROVE  /\ Saved[n].level = level[n] /\ Saved[n].formatter = formatter[n]
                 /\ [i \in DOMAIN Saved[n].appenders |-> Build(n, Saved[n].appenders[i])]
                      = OnlyFiles(appenders[n])
      <3>1. Saved[n] = Reread(n)
        BY <2>1, SavedIs
      <3>2. /\ Reread(n).level = level[n] /\ Reread(n).formatter = formatter[n]
            /\ Reread(n).appenders = KeptOf(appenders[n])
        BY DEF Reread
      <3> DEFINE as == appenders[n]
      <3>3. /\ as \in Seq(Built) /\ as \in Seq(Attachable)
            /\ \A i \in 1..Len(as) : ~as[i].own => as[i].formatter = formatter[n]
        BY <2>1, LoggerTypes
      <3> HIDE DEF as
      <3>4. [i \in DOMAIN KeptOf(as) |-> Build(n, KeptOf(as)[i])] = OnlyFiles(as)
        BY <3>3, FilesAgain
      <3> QED
        BY <3>1, <3>2, <3>4, Zenon DEF as
    <2> QED
      BY <2>1, Zenon DEF SavedRestores
  <1> QED
    BY <1>1, ReloadInductive, PTL

(* What a container of texts is written as is read as the same texts, an    *)
(* empty one too (the conversions of vector, list and set in config.h).     *)
THEOREM ContainersAgain ==
  ASSUME NEW S, NEW texts \in Seq(S), \A i \in 1..Len(texts) : Load(texts[i]) = texts[i]
  PROVE  Elements(VectorTo(texts)) = texts
  <1> DEFINE n == Len(texts)
             ys == [i \in DOMAIN texts |-> Load(texts[i])]
  <1>1. DOMAIN texts = 1..n /\ texts = [i \in 1..n |-> texts[i]]
    OBVIOUS
  <1>2. ys = texts
    <2>1. [i \in 1..n |-> Load(texts[i])] = [i \in 1..n |-> texts[i]]
      BY Zenon
    <2> QED
      BY <1>1, <2>1
  <1> HIDE DEF ys
  <1>3. VectorTo(texts) = IF texts = <<>> THEN Empty ELSE List(ys)
    BY DEF VectorTo, ys
  <1>4. CASE texts = <<>>
    BY <1>3, <1>4, NoTexts
  <1>5. CASE texts # <<>>
    <2>1. VectorTo(texts) = List(texts)
      BY <1>2, <1>3, <1>5
    <2> QED
      BY <2>1, TextsAre
  <1> QED
    BY <1>4, <1>5

(* What a container of values is written as, and read as, element by       *)
(* element.                                                                *)
WrittenBy(to, v)   == VectorTo([i \in DOMAIN v |-> to[v[i]]])
ReadBy(from, text) == VectorFrom([i \in DOMAIN Elements(text) |-> from[Elements(text)[i]]])

(* A vector or list is restored when its elements are: what its text and   *)
(* the node it parses to are read as is the vector, also the empty one,    *)
(* whose text is empty and parses to null, and one with elements that are  *)
(* written so (config.h:34-113).                                           *)
THEOREM VectorsRestored ==
  ASSUME NEW S, NEW T, NEW to \in [S -> T], NEW from, Thrown \notin S,
         \A s \in S : from[Load(to[s])] = s,
         NEW v \in Seq(S)
  PROVE  LET text == WrittenBy(to, v)
         IN  ReadBy(from, text) = v /\ ReadBy(from, Load(text)) = v
  <1> DEFINE n == Len(v)
             text == WrittenBy(to, v)
             texts == [i \in DOMAIN v |-> to[v[i]]]
             xs == [i \in DOMAIN texts |-> Load(texts[i])]
  <1>1. DOMAIN v = 1..n /\ n \in Nat /\ v = [i \in 1..n |-> v[i]]
        /\ \A i \in 1..n : v[i] \in S
    OBVIOUS
  <1>2. /\ DOMAIN xs = 1..n /\ \A i \in 1..n : xs[i] = Load(to[v[i]])
        /\ xs = [i \in 1..n |-> Load(to[v[i]])]
    BY <1>1
  <1>3. text = IF texts = <<>> THEN Empty ELSE List(xs)
    BY DEF WrittenBy, VectorTo
  <1>4. texts = <<>> <=> n = 0
    <2>1. DOMAIN texts = 1..n
      BY <1>1
    <2>2. texts = <<>> => n = 0
      BY <1>1, <2>1
    <2>3. n = 0 => texts = <<>>
      <3>1. n = 0 => 1..n = {}
        BY <1>1
      <3> HIDE DEF n
      <3>2. [i \in {} |-> to[v[i]]] = <<>>
        OBVIOUS
      <3> QED
        BY <1>1, <3>1, <3>2
    <2> QED
      BY <2>2, <2>3
  <1> HIDE DEF xs, texts, text, n
  <1>5. ASSUME NEW x \in {text, Load(text)}
        PROVE  DOMAIN Elements(x) = 1..n /\ \A i \in 1..n : Elements(x)[i] = Load(to[v[i]])
    <2>1. Null # Empty /\ Load(Empty) = Null /\ Load(Null) = Null
      BY DEF Load, Null, Empty
    <2>2. CASE n = 0
      <3>1. Elements(Empty) = <<>> /\ Elements(Null) = <<>>
        <4>1. Elements(Null) = Elements(Empty)
          BY <2>1 DEF Elements
        <4> QED
          BY <4>1, NoTexts
      <3>2. x \in {Empty, Null}
        BY <1>3, <1>4, <2>1, <2>2
      <3>3. Elements(x) = <<>>
        BY <3>1, <3>2
      <3> QED
        BY <2>2, <3>3
    <2>3. CASE n # 0
      <3>1. text = List(xs) /\ List(xs) # Empty
        BY <1>3, <1>4, <2>3 DEF List, Empty
      <3>2. x = List(xs)
        BY <3>1 DEF Load
      <3>3. xs \in Seq({Load(to[v[i]]) : i \in 1..n}) /\ Len(xs) = n
        BY <1>1, <1>2, FunctionIsSeq
      <3>4. Elements(List(xs)) = xs
        BY <3>3, TextsAre
      <3> QED
        BY <1>2, <3>2, <3>4
    <2> QED
      BY <2>2, <2>3
  <1>6. ASSUME NEW x \in {text, Load(text)}
        PROVE  ReadBy(from, x) = v
    <2> DEFINE vec == [i \in DOMAIN Elements(x) |-> from[Elements(x)[i]]]
    <2>1. vec = v
      <3>1. \A i \in 1..n : from[Elements(x)[i]] = v[i]
        BY <1>1, <1>5, <1>6
      <3>2. [i \in 1..n |-> from[Elements(x)[i]]] = [i \in 1..n |-> v[i]]
        BY <3>1, Zenon
      <3> QED
        BY <1>1, <1>5, <1>6, <3>2
    <2>2. ~Contains(v, Thrown)
      BY <1>1 DEF Contains
    <2> HIDE DEF vec
    <2>3. VectorFrom(vec) = v
      BY <2>1, <2>2 DEF VectorFrom
    <2> QED
      BY <2>3 DEF ReadBy, vec
  <1> QED
    BY <1>6 DEF text

(* Numbers are restored, and so are vectors of vectors of numbers, empty   *)
(* ones among them (config.h:34-113).                                      *)
THEOREM NestedRestored ==
  ASSUME Thrown \notin Nat \cup Seq(Nat),
         NEW v \in Seq(Seq(DOMAIN Numeral))
  PROVE  LET N    == DOMAIN Numeral
             Vec  == Seq(N)
             toN   == [i \in N |-> IntTo(i)]
             fromN == [x \in {IntTo(i) : i \in N} |-> IntFrom(x)]
             to    == [w \in Vec |-> WrittenBy(toN, w)]
             from  == [x \in {Load(to[w]) : w \in Vec} |-> ReadBy(fromN, x)]
         IN  ReadBy(from, WrittenBy(to, v)) = v
  <1> DEFINE N    == DOMAIN Numeral
             Vec  == Seq(N)
             toN   == [i \in N |-> IntTo(i)]
             fromN == [x \in {IntTo(i) : i \in N} |-> IntFrom(x)]
             to    == [w \in Vec |-> WrittenBy(toN, w)]
             from  == [x \in {Load(to[w]) : w \in Vec} |-> ReadBy(fromN, x)]
  <1>1. N = 1..3
    BY DEF Numeral
  <1>2. ASSUME NEW i \in N PROVE Load(IntTo(i)) = IntTo(i) /\ IntFrom(IntTo(i)) = i
    <2>1. Load(IntTo(i)) = IntTo(i)
      BY DEF Load, IntTo, Scalar, Empty
    <2>2. \A j, k \in N : Numeral[j] = Numeral[k] => j = k
      BY <1>1 DEF Numeral
    <2>3. IsScalar(IntTo(i)) /\ IntTo(i).scalar = Numeral[i]
      BY DEF IsScalar, IntTo, Scalar
    <2>4. Contains(Numeral, Numeral[i])
      BY <1>1 DEF Contains, Numeral
    <2>5. (CHOOSE j \in N : Numeral[j] = Numeral[i]) = i
      BY <2>2
    <2> QED
      BY <2>1, <2>3, <2>4, <2>5 DEF IntFrom
  <1>3. \A i \in N : fromN[Load(toN[i])] = i
    BY <1>2
  <1>4. Thrown \notin N
    BY <1>1
  <1>5. toN \in [N -> {IntTo(i) : i \in N}]
    OBVIOUS
  <1> HIDE DEF toN, fromN, N
  <1>6. ASSUME NEW w \in Vec PROVE ReadBy(fromN, Load(WrittenBy(toN, w))) = w
    BY <1>3, <1>4, <1>5, VectorsRestored
  <1>7. \A w \in Vec : from[Load(to[w])] = w
    BY <1>6
  <1>8. to \in [Vec -> {to[w] : w \in Vec}]
    OBVIOUS
  <1>9. Thrown \notin Vec
    BY <1>1
  <1> HIDE DEF to, from, Vec
  <1>10. v \in Seq(Vec)
    BY DEF Vec, N
  <1>11. ReadBy(from, WrittenBy(to, v)) = v
    BY <1>7, <1>8, <1>9, <1>10, VectorsRestored
  <1> QED
    BY <1>11 DEF from, to, fromN, toN, Vec, N

(* What a map is written as is read as the same members, and gives each key *)
(* the value its text is read as, if no two keys are the same (the          *)
(* conversions of map in config.h).                                         *)
THEOREM MapsAgain ==
  ASSUME NEW K, NEW S, NEW V, NEW keys \in Seq(K), NEW texts \in Seq(S), NEW vec \in Seq(V),
         Len(texts) = Len(keys), Len(vec) = Len(keys),
         \A i, j \in 1..Len(keys) : keys[i] = keys[j] => i = j,
         Thrown \notin V, \A k, x : Thrown # Pair(k, x),
         \A i \in 1..Len(texts) : Load(texts[i]) = texts[i]
  PROVE  LET members == Members(MapTo(keys, texts))
             read    == MapFrom(members, vec)
         IN  /\ members = [i \in 1..Len(keys) |-> Pair(keys[i], texts[i])]
             /\ DOMAIN read = {keys[i] : i \in 1..Len(keys)}
             /\ \A i \in 1..Len(keys) : read[keys[i]] = vec[i]
  <1> DEFINE n == Len(keys)
             ps == [i \in 1..n |-> Pair(keys[i], texts[i])]
             x == MapTo(keys, texts)
             Sel(k) == SelectInSeq(ps, LAMBDA m : m.key = k)
             S2 == {Pair(keys[i], texts[i]) : i \in 1..n}
  <1>1. n \in Nat /\ DOMAIN keys = 1..n
    OBVIOUS
  <1>2. x = Map(ps)
    <2>1. \A i \in 1..n : Pair(keys[i], Load(texts[i])) = Pair(keys[i], texts[i])
      BY Zenon
    <2>2. [i \in 1..n |-> Pair(keys[i], Load(texts[i]))] = ps
      BY <2>1, Zenon
    <2> QED
      BY <1>1, <2>2 DEF MapTo
  <1>3. ps \in Seq(S2) /\ Len(ps) = n /\ DOMAIN ps = 1..n
    <2>1. ps \in [1..n -> S2]
      OBVIOUS
    <2> HIDE DEF ps, S2
    <2> QED
      BY <1>1, <2>1, FunctionIsSeq
  <1>4. \A i \in 1..n : ps[i].key = keys[i] /\ ps[i] # Thrown
    BY DEF Pair
  <1> HIDE DEF ps, x, S2
  <1>5. Members(x) = ps
    <2>1. IsMap(x) /\ Load(x) = x
      BY <1>2, <1>3, MapHolds
    <2>2. Map(ps).pairs = ps
      BY DEF Map
    <2> QED
      BY <1>2, <2>1, <2>2 DEF Members
  <1>6. ~Contains(ps, Thrown) /\ ~Contains(vec, Thrown)
    BY <1>3, <1>4 DEF Contains
  <1>7. {ps[i].key : i \in DOMAIN ps} = {keys[i] : i \in 1..n}
    <2>1. ASSUME NEW k PROVE k \in {ps[i].key : i \in 1..n} <=> k \in {keys[i] : i \in 1..n}
      <3> HIDE DEF n
      <3>1. k \in {ps[i].key : i \in 1..n} <=> \E i \in 1..n : k = ps[i].key
        OBVIOUS
      <3>2. k \in {keys[i] : i \in 1..n} <=> \E i \in 1..n : k = keys[i]
        OBVIOUS
      <3> QED
        BY <1>4, <3>1, <3>2
    <2> QED
      BY <1>3, <2>1
  <1>8. MapFrom(ps, vec) = [k \in {keys[i] : i \in 1..n} |-> vec[Sel(k)]]
    BY <1>6, <1>7 DEF MapFrom
  <1>9. ASSUME NEW i \in 1..n PROVE Sel(keys[i]) = i
    <2> DEFINE I == {j \in 1..Len(ps) : ps[j].key = keys[i]}
    <2>1. I = {i}
      BY <1>3, <1>4
    <2>2. Sel(keys[i]) = Min(I)
      BY <2>1 DEF SelectInSeq
    <2> HIDE DEF I
    <2>3. Min(I) \in I
      <3>1. I \subseteq Nat /\ I # {}
        BY <2>1
      <3> QED
        BY <3>1, Least DEF Min
    <2> QED
      BY <2>1, <2>2, <2>3
  <1> HIDE DEF Sel
  <1>10. \A i \in 1..n : MapFrom(ps, vec)[keys[i]] = vec[i]
    BY <1>8, <1>9
  <1>11. DOMAIN MapFrom(ps, vec) = {keys[i] : i \in 1..n}
    BY <1>8
  <1> QED
    BY <1>5, <1>10, <1>11 DEF ps, x
=============================================================================
