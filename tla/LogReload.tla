----------------------------- MODULE LogReload -----------------------------
(***************************************************************************)
(* Reconfiguration of the loggers: the configuration variable "logs"       *)
(* (g_log_defines, log.cc:474) and the listener LogIniter registers on it  *)
(* (log.cc:477-533).  setValue calls the listener while it holds the       *)
(* variable's read lock, so the listener runs in several threads at once   *)
(* when several threads set the variable.  The listener calls one logger   *)
(* operation after another; each takes the logger's lock for itself, so    *)
(* each is an action, and the operations of two listeners interleave.      *)
(*                                                                         *)
(* The variable is the one of ConfigVar with a listener that is not        *)
(* atomic; CV!Spec below says so, and the runs check it.                   *)
(***************************************************************************)
EXTENDS LogYaml, RWMutex

CONSTANTS
  Thread,      \* the threads that set the variable
  NoDef,       \* the configuration has no definition of that name
  Texts,       \* the texts "logs" is loaded from
  NoVal,       \* "no value"
  Debug,       \* LogLevel::DEBUG, the level of a new logger
  Default,     \* the pattern of a new logger
  Valid        \* the patterns LogFormatter accepts

Names == Len(LoggerName)

(* std::set<LogDefine> compares names only, so a configuration is a        *)
(* function of the names.  The variable starts with the empty set.         *)
NoDefs == [n \in 1..Names |-> NoDef]

AsConfig(ds) ==
  [n \in 1..Names |->
     LET named == {i \in DOMAIN ds : ds[i].name = LoggerName[n]}
     IN  IF named = {} THEN NoDef ELSE ds[CHOOSE i \in named : TRUE]]

Defines(c) == FlattenSeq([n \in 1..Names |-> If(c[n] # NoDef, c[n])])

(* fromString: a text that throws sets nothing. *)
Configs == {AsConfig(LogsFrom(x)) : x \in {y \in Texts : LogsFrom(y) # Thrown}}

ASSUME ReloadOK ==
  /\ LoggerName \in Seq(STRING) /\ IsInjective(LoggerName)
  /\ NoDefs \in Configs
  /\ NoVal \notin Configs
  /\ \A c \in Configs : \A n \in 1..Names :
       c[n] # NoDef => c[n] \in LogDefine
  /\ Thrown \notin LogDefine
  /\ Thread # {} /\ NoThread \notin Thread
  /\ Debug \in Severity
  /\ Valid \subseteq STRING /\ "" \notin Valid /\ Default \in Valid

VARIABLES
  hooked,     \* LogIniter's constructor has registered the listener
  val,        \* m_val of the variable
  pc,         \* where each thread is in setValue
  arg,        \* the configuration it sets
  work,       \* the logger operations its listener has still to call
  told,       \* history: the configuration the listener finished last, or
              \* found when it was registered
  serial,     \* history: no two setValue calls have overlapped
  level,      \* m_level of each logger
  formatter,  \* m_formatter
  appenders   \* m_appender: type, file, level, formatter, m_hasFormatter of each

varState == <<hooked, val, readers, writer, pc, arg, told, serial>>
logState == <<level, formatter, appenders>>
vars     == <<varState, work, logState>>

Init ==
  /\ LockInit
  /\ hooked = FALSE
  /\ val = NoDefs
  /\ pc = [t \in Thread |-> "idle"]
  /\ arg = [t \in Thread |-> NoVal]
  /\ work = [t \in Thread |-> <<>>]
  /\ told = NoVal
  /\ serial = TRUE
  /\ level = [n \in 1..Names |-> Debug]
  /\ formatter = [n \in 1..Names |-> Default]
  /\ appenders = [n \in 1..Names |-> <<>>]

Goto(t, from, to) == pc[t] = from /\ pc' = [pc EXCEPT ![t] = to]

-----------------------------------------------------------------------------
(* What the listener does, as the sequence of the calls it makes.          *)

Call(op, n, x) == <<[op |-> op, logger |-> n, x |-> x]>>

(* setFormatter(str) takes valid patterns only; its mutant takes any. *)
SetFormatterAny(n, f) == Call("formatter", n, f)
SetFormatterIf(n, f) == IF f \in Valid THEN Call("formatter", n, f) ELSE <<>>

(* A new or changed definition; its mutant keeps the old appenders. *)
DefineKeeping(n, d) ==
  Call("level", n, d.level) \o SetFormatterIf(n, d.formatter)
    \o FlattenSeq([i \in DOMAIN d.appenders |-> Call("add", n, d.appenders[i])])

Define(n, d) ==
  Call("level", n, d.level)
    \o SetFormatterIf(n, d.formatter)
    \o Call("clear", n, 0)
    \o FlattenSeq([i \in DOMAIN d.appenders |-> Call("add", n, d.appenders[i])])

(* A definition that is gone. *)
Undefine(n) == Call("level", n, Unknow) \o Call("clear", n, 0)

(* First the definitions of the new configuration, then the removals. *)
Plan(old, new) ==
  LET changed(n) == new[n] # NoDef /\ new[n] # old[n]
      removed(n) == new[n] = NoDef /\ old[n] # NoDef
  IN  FlattenSeq([n \in 1..Names |-> IF changed(n) THEN Define(n, new[n]) ELSE <<>>])
        \o FlattenSeq([n \in 1..Names |-> IF removed(n) THEN Undefine(n) ELSE <<>>])

(* Logger::setFormatter: appenders without a formatter of their own follow *)
(* the logger's.  Its mutant forgets them.                                 *)
OnlyNew(as, f) == as
Refit(as, f) ==
  [i \in DOMAIN as |-> IF as[i].own THEN as[i] ELSE [as[i] EXCEPT !.formatter = f]]

(* The appender the listener builds from a definition, after addAppender   *)
(* gave it the logger's formatter if it has none.                          *)
Build(n, a) ==
  [type |-> a.type, file |-> a.file, level |-> a.level, own |-> a.formatter \in Valid,
   formatter |-> IF a.formatter \in Valid THEN a.formatter ELSE formatter[n]]

Do(c) ==
  LET n == c.logger IN
  \/ /\ c.op = "level"
     /\ level' = [level EXCEPT ![n] = c.x]
     /\ UNCHANGED <<formatter, appenders>>
  \/ /\ c.op = "formatter"
     /\ formatter' = [formatter EXCEPT ![n] = c.x]
     /\ appenders' = [appenders EXCEPT ![n] = Refit(@, c.x)]
     /\ UNCHANGED level
  \/ /\ c.op = "clear"
     /\ appenders' = [appenders EXCEPT ![n] = <<>>]
     /\ UNCHANGED <<level, formatter>>
  \/ /\ c.op = "add"
     /\ appenders' = [appenders EXCEPT ![n] = Append(@, Build(n, c.x))]
     /\ UNCHANGED <<level, formatter>>

-----------------------------------------------------------------------------
(* Static initialisation: LogIniter's constructor, before any thread. *)
Hook ==
  /\ ~hooked
  /\ hooked' = TRUE
  /\ told' = val
  /\ UNCHANGED <<val, readers, writer, pc, arg, serial, work, logState>>

(* setValue: compare under the read lock and enter the listener. *)
SetBegin(t, new) ==
  /\ hooked
  /\ new # val
  /\ Goto(t, "idle", "apply")
  /\ RdLock(t)
  /\ arg' = [arg EXCEPT ![t] = new]
  /\ work' = [work EXCEPT ![t] = Plan(val, new)]
  /\ serial' = (serial /\ \A u \in Thread : pc[u] = "idle")
  /\ UNCHANGED <<hooked, val, told, logState>>

(* The listener's next call. *)
Apply(t) ==
  /\ pc[t] = "apply"
  /\ work[t] # <<>>
  /\ Do(Head(work[t]))
  /\ work' = [work EXCEPT ![t] = Tail(@)]
  /\ UNCHANGED varState

(* The listener returns. *)
Applied(t) ==
  /\ work[t] = <<>>
  /\ Goto(t, "apply", "applied")
  /\ told' = arg[t]
  /\ UNCHANGED <<hooked, val, readers, writer, arg, serial, work, logState>>

(* The rest of setValue, as in ConfigVar. *)
NotifyDone(t) ==
  /\ Goto(t, "applied", "upgrade")
  /\ RdUnlock(t)
  /\ UNCHANGED <<hooked, val, arg, told, serial, work, logState>>

StoreLock(t) ==
  /\ Goto(t, "upgrade", "writing")
  /\ WrLock(t)
  /\ UNCHANGED <<hooked, val, arg, told, serial, work, logState>>

(* Its mutant leaves the old value in place. *)
ForgetStore(t) ==
  /\ Goto(t, "writing", "idle")
  /\ WrUnlock(t)
  /\ arg' = [arg EXCEPT ![t] = NoVal]
  /\ UNCHANGED <<hooked, val, told, serial, work, logState>>

Store(t) ==
  /\ Goto(t, "writing", "idle")
  /\ val' = arg[t]
  /\ WrUnlock(t)
  /\ arg' = [arg EXCEPT ![t] = NoVal]
  /\ UNCHANGED <<hooked, told, serial, work, logState>>

Next ==
  \/ Hook
  \/ \E t \in Thread :
       \/ \E new \in Configs : SetBegin(t, new)
       \/ Apply(t)
       \/ Applied(t)
       \/ NotifyDone(t)
       \/ StoreLock(t)
       \/ Store(t)

Spec == Init /\ [][Next]_vars

-----------------------------------------------------------------------------
(* Type invariant of the loggers and of the variable.                      *)
TypeOK ==
  /\ val \in Configs
  /\ told \in Configs \cup {NoVal}
  /\ \A t \in Thread : arg[t] \in Configs \cup {NoVal}
  /\ \A n \in 1..Names : formatter[n] \in Valid
  /\ \A n \in 1..Names : \A i \in DOMAIN appenders[n] :
       appenders[n][i].formatter \in Valid

(* The variable behaves as ConfigVar says: the listener's many steps are   *)
(* one callback to it (config.h:291-304, log.cc:480-528).                  *)
CV == INSTANCE ConfigVar WITH
        Setters  <- Thread,
        Value    <- Configs,
        InitVal  <- NoDefs,
        MaxId    <- 1,
        CanThrow <- FALSE,
        cbs      <- IF hooked THEN {1} ELSE {},
        funId    <- IF hooked THEN 1 ELSE 0,
        pc       <- [t \in Thread |-> IF pc[t] \in {"apply", "applied"}
                                        THEN "notify" ELSE pc[t]],
        todo     <- [t \in Thread |-> IF pc[t] = "apply" THEN {1} ELSE {}],
        told     <- [id \in {1} |-> told]

(* Every step of a reload is a step of the configuration variable, or none *)
(* of its business (config.h:258-328).                                     *)
ImplementsConfigVar == CV!Spec

(* An appender without a formatter of its own uses its logger's current    *)
(* one, whoever reloads (log.h:242-252, log.cc:206-214).                   *)
FollowsLogger ==
  \A n \in 1..Names : \A i \in DOMAIN appenders[n] :
    ~appenders[n][i].own => appenders[n][i].formatter = formatter[n]

Matches(n, d) ==
  /\ level[n] = d.level
  /\ d.formatter \in Valid => formatter[n] = d.formatter
  /\ appenders[n] = [i \in DOMAIN d.appenders |-> Build(n, d.appenders[i])]

Saved == AsConfig(LogsFrom(ManagerTo([n \in 1..Names |->
           LoggerTo(LoggerName[n], level[n], formatter[n], appenders[n])])))

(* At any time, what LoggerManager::toYamlString writes is a configuration *)
(* that restores every logger, but for its stdout appenders, whose type    *)
(* the reader does not know: its level, its pattern, and the file          *)
(* appenders with their own patterns, or the logger's where they have none *)
(* (log.cc:188-205, 282-319, 635-644, 535-591, 495-517).                   *)
SavedRestores ==
  LET saved == Saved IN
  \A n \in 1..Names :
    /\ saved[n].level = level[n]
    /\ saved[n].formatter = formatter[n]
    /\ [i \in DOMAIN saved[n].appenders |-> Build(n, saved[n].appenders[i])]
         = OnlyFiles(appenders[n])

Outline(ds) == [i \in DOMAIN ds |-> [name |-> ds[i].name, level |-> ds[i].level]]

(* What toString writes of "logs" can be loaded again and has the same     *)
(* names and levels; patterns and appenders do not survive                 *)
(* (log.cc:535-626, config.h:118-150).                                     *)
DumpKeepsOutline == Outline(LogsFrom(LogsTo(Defines(val)))) = Outline(Defines(val))

(* When no setValue is in progress and none has ever overlapped another,   *)
(* every logger is what the current configuration says, however it was     *)
(* configured before, and one it does not name has no appender             *)
(* (log.cc:479-528).                                                       *)
ConfiguredAtRest ==
  serial /\ (\A t \in Thread : pc[t] = "idle") =>
    \A n \in 1..Names :
      IF val[n] = NoDef THEN appenders[n] = <<>> ELSE Matches(n, val[n])
=============================================================================
