----------------------------- MODULE LogSystem -----------------------------
(***************************************************************************)
(* The logging system as a program uses it: LoggerManager's table of       *)
(* loggers (log.h:300-315, log.cc:629-672), threads that get a logger from *)
(* it and log, and one thread that reloads the configuration "logs", whose *)
(* listener (log.cc:480-528) gets the loggers from the same table and      *)
(* changes them one call at a time.  Logging and the calls on a logger are *)
(* the actions of Logger; here every one of them has its caller.           *)
(*                                                                         *)
(* getLogger does not lock the table.  It searches, makes a logger when    *)
(* the search failed, and inserts it: two actions.  Accesses that overlap  *)
(* an insertion are a data race on the unordered_map, whose outcomes are   *)
(* modelled as a search that misses a logger that is there; "calm"         *)
(* remembers whether that ever happened.                                   *)
(*                                                                         *)
(* Formatters, and reloads that overlap, are in LogReload.                 *)
(***************************************************************************)
EXTENDS Logger, FiniteSets

CONSTANTS
  Names,      \* the keys of the table, in the order of std::set<LogDefine>
  RootName,   \* the root's
  NoName,     \* not in getLogger
  KeyOf,      \* the key each logger object is made or pushed for
  NoLogger,   \* not in the table
  Reloader,   \* the thread that reloads
  NoDef,      \* a configuration does not define that name
  Configs,    \* configurations: [level, appenders] or NoDef for each name
  Info,       \* LogLevel::INFO
  MaxReloads  \* bound: reloads in a run

Name == {Names[i] : i \in DOMAIN Names}

(* LogLevel::UNKNOW. *)
Unknow == 0

(* What a name may be defined as: LogDefine, LogAppenderDefine. *)
Definition ==
  [level : Level, appenders : Seq([appender : Appender, level : Level])]

ASSUME SystemOK ==
  /\ Names \in Seq(Name)
  /\ RootName \in Name /\ NoName \notin Name
  /\ KeyOf \in [Loggers -> Name] /\ KeyOf[Root] = RootName
  /\ NoLogger \notin Loggers
  /\ Reloader \in Thread
  /\ Unknow \in Level /\ Info \in Level
  /\ \A c \in Configs : c \in [Name -> Definition \cup {NoDef}]
  /\ MaxReloads \in Nat

(* The listener makes the appenders of every definition itself (log.cc     *)
(* 495-517): no two definitions of a configuration share one, and none is  *)
(* the root's first appender.                                              *)
ASSUME OwnAppenders ==
  \A c \in Configs : \A n, m \in {k \in Name : c[k] # NoDef} :
    \A i \in DOMAIN c[n].appenders, j \in DOMAIN c[m].appenders :
      /\ c[n].appenders[i].appender # Stdout
      /\ c[n].appenders[i].appender = c[m].appenders[j].appender => n = m /\ i = j

VARIABLES
  table,    \* m_loggers
  made,     \* the logger objects that exist
  want,     \* the name a thread is making a logger for
  handle,   \* the logger a thread was given last
  conf,     \* the value of "logs"
  job,      \* the calls the listener has still to make
  reloads,  \* history: reloads begun so far
  calm,     \* history: no access of the table overlapped an insertion, and
            \* nothing was erased
  touched,  \* history: the names reloads have changed
  due,      \* history: what the reloads begun so far make of each name
  clean     \* history: the events logged while no reload was in progress

manager == <<table, made, want, handle, calm>>
reload  == <<conf, job, reloads, touched, due>>
sysvars == <<vars, manager, reload, clean>>

NoDefs == [n \in Name |-> NoDef]
New    == [level |-> NewLevel, appenders |-> <<>>]

SysInit ==
  /\ Init
  /\ table = [n \in Name |-> IF n = RootName THEN Root ELSE NoLogger]
  /\ made = {Root}
  /\ want = [t \in Thread |-> NoName]
  /\ handle = [t \in Thread |-> Root]
  /\ calm = TRUE
  /\ conf = NoDefs
  /\ job = <<>>
  /\ reloads = 0
  /\ touched = {}
  /\ due = [n \in Name |->
              IF n = RootName
                THEN [New EXCEPT !.appenders = <<[appender |-> Stdout, level |-> NewLevel]>>]
                ELSE New]
  /\ clean = {}

-----------------------------------------------------------------------------
(* LoggerManager.                                                          *)

Outside(t) == pc[t] = "idle" /\ want[t] = NoName

Inserting(t) == \E u \in Thread \ {t} : want[u] # NoName

(* The objects getLogger may still make; a bound. *)
Fresh(n) == {l \in Loggers \ (Rootless \cup made) : KeyOf[l] = n}
Wanting(n) == {t \in Thread : want[t] = n}

(* getLogger: the search finds the name, ... *)
Found(t, n) ==
  /\ Outside(t)
  /\ table[n] # NoLogger
  /\ handle' = [handle EXCEPT ![t] = table[n]]
  /\ calm' = (calm /\ ~Inserting(t))
  /\ UNCHANGED <<vars, table, made, want>>

(* ... or it does not: the name is new, or the search raced an insertion.  *)
(* Its mutant never finds anything.                                        *)
NeverThere(t, n) == TRUE
NotThere(t, n)   == table[n] = NoLogger \/ Inserting(t)

Missed(t, n) ==
  /\ Outside(t)
  /\ NotThere(t, n)
  /\ Cardinality(Wanting(n)) < Cardinality(Fresh(n))
  /\ want' = [want EXCEPT ![t] = n]
  /\ calm' = (calm /\ ~Inserting(t))
  /\ UNCHANGED <<vars, table, made, handle>>

(* Then it makes a logger, gives it the root, and puts it into the table. *)
Insert(t, l) ==
  /\ want[t] # NoName
  /\ l \in Fresh(want[t])
  /\ table' = [table EXCEPT ![want[t]] = l]
  /\ made' = made \cup {l}
  /\ handle' = [handle EXCEPT ![t] = l]
  /\ want' = [want EXCEPT ![t] = NoName]
  /\ UNCHANGED <<vars, calm>>

(* pushLogger of a logger the application made.  If the table has one of   *)
(* that name, it says so and changes nothing; insert, after the search,    *)
(* would not replace it either, so one step is enough.                     *)
Push(t, l) ==
  /\ Outside(t)
  /\ l \in Rootless \ made
  /\ table[KeyOf[l]] = NoLogger
  /\ table' = [table EXCEPT ![KeyOf[l]] = l]
  /\ made' = made \cup {l}
  /\ handle' = [handle EXCEPT ![t] = l]
  /\ calm' = (calm /\ ~Inserting(t))
  /\ UNCHANGED <<vars, want>>

(* eraseLogger; whoever holds the logger keeps it.  Bounds: not the root,  *)
(* and not while getLogger could not make another one.                     *)
Erase(t, n) ==
  /\ Outside(t)
  /\ n # RootName /\ Fresh(n) # {}
  /\ table[n] # NoLogger
  /\ table' = [table EXCEPT ![n] = NoLogger]
  /\ calm' = FALSE
  /\ UNCHANGED <<vars, made, want, handle>>

-----------------------------------------------------------------------------
(* The listener of "logs".                                                 *)

Call(op, x) == <<[op |-> op, x |-> x]>>

(* A new appender with the level of its definition.                        *)
AddOne(d) == Call("aplevel", d) \o Call("add", d.appender)

(* A definition that is new or changed.  The mutant adds the appenders     *)
(* before it clears the old ones.                                          *)
DefineLate(n, d) ==
  Call("get", n) \o Call("level", d.level)
    \o FlattenSeq([i \in DOMAIN d.appenders |-> AddOne(d.appenders[i])])
    \o Call("clear", "all")

Define(n, d) ==
  Call("get", n) \o Call("level", d.level) \o Call("clear", "all")
    \o FlattenSeq([i \in DOMAIN d.appenders |-> AddOne(d.appenders[i])])

(* A definition that is gone. *)
Undefine(n) == Call("get", n) \o Call("level", Unknow) \o Call("clear", "all")

Changed(old, new) == {n \in Name : new[n] # NoDef /\ new[n] # old[n]}
Removed(old, new) == {n \in Name : new[n] = NoDef /\ old[n] # NoDef}

Plan(old, new) ==
  Call("announce", Root)
    \o FlattenSeq([i \in DOMAIN Names |->
      IF Names[i] \in Changed(old, new) THEN Define(Names[i], new[Names[i]]) ELSE <<>>])
    \o FlattenSeq([i \in DOMAIN Names |->
      IF Names[i] \in Removed(old, new) THEN Undefine(Names[i]) ELSE <<>>])

InFlight == {event[t] : t \in {u \in Thread : pc[u] # "idle"}}

(* setValue with another configuration enters the listener. *)
ReloadBegin(new) ==
  /\ Outside(Reloader)
  /\ job = <<>>
  /\ new # conf
  /\ reloads < MaxReloads
  /\ reloads' = reloads + 1
  /\ conf' = new
  /\ job' = Plan(conf, new)
  /\ touched' = touched \cup Changed(conf, new) \cup Removed(conf, new)
  /\ due' = [n \in Name |->
               IF n \in Changed(conf, new) THEN new[n]
               ELSE IF n \in Removed(conf, new) THEN [New EXCEPT !.level = Unknow]
               ELSE due[n]]
  /\ clean' = clean \ InFlight
  /\ UNCHANGED <<vars, manager>>

(* The call the listener makes next. *)
Calls(op, x) ==
  /\ job # <<>>
  /\ Head(job).op = op /\ Head(job).x = x

(* The listener first logs a line to the root itself.  Bound: it does not  *)
(* when the run has had its events.                                        *)
Announce ==
  /\ Calls("announce", Root)
  /\ IF level[Root] <= Info /\ events < MaxEvents
       THEN Macro(Reloader, Root, Info)
       ELSE pc[Reloader] = "idle" /\ UNCHANGED vars
  /\ job' = Tail(job)
  /\ UNCHANGED <<manager, conf, reloads, touched, due, clean>>

(* It gets a logger, in one step or two, ... *)
ReloadGet ==
  /\ \E n \in Name :
       /\ Calls("get", n)
       /\ \/ Found(Reloader, n) /\ job' = Tail(job)
          \/ Missed(Reloader, n) /\ UNCHANGED job
          \/ (\E l \in Loggers : Insert(Reloader, l)) /\ job' = Tail(job)
  /\ UNCHANGED <<conf, reloads, touched, due, clean>>

(* ... changes it, or the appender it has made.                            *)
ReloadCall ==
  /\ \/ \E sev \in Level :
          Calls("level", sev) /\ SetLevel(Reloader, handle[Reloader], sev)
     \/ Calls("clear", "all") /\ ClearAppender(Reloader, handle[Reloader])
     \/ \E x \in Appender, sev \in Level :
          Calls("aplevel", [appender |-> x, level |-> sev])
            /\ SetAppenderLevel(Reloader, x, sev)
     \/ \E x \in Appender :
          Calls("add", x) /\ AddAppender(Reloader, handle[Reloader], x)
  /\ job' = Tail(job)
  /\ UNCHANGED <<manager, conf, reloads, touched, due, clean>>

Logging(t) == LogStep(t) /\ UNCHANGED <<manager, reload, clean>>

ReloadStep == Announce \/ ReloadGet \/ ReloadCall \/ Logging(Reloader)

-----------------------------------------------------------------------------
(* The other threads.                                                      *)

User == Thread \ {Reloader}

UseTable(t) ==
  /\ \/ \E n \in Name : Found(t, n) \/ Missed(t, n) \/ Erase(t, n)
     \/ \E l \in Loggers : Push(t, l)
  /\ UNCHANGED <<reload, clean>>

Made(t) == (\E l \in Loggers : Insert(t, l)) /\ UNCHANGED <<reload, clean>>

(* A SYLAR_LOG_* macro on the root or on the logger the thread was given.  *)
StartEvent(t) ==
  /\ Outside(t)
  /\ \E l \in {Root, handle[t]}, sev \in Level \ {Unknow} : Macro(t, l, sev)
  /\ clean' = IF job = <<>> THEN clean \cup {events'} ELSE clean
  /\ UNCHANGED <<manager, reload>>

SysNext ==
  \/ \E new \in Configs : ReloadBegin(new)
  \/ ReloadStep
  \/ \E t \in User : UseTable(t) \/ Made(t) \/ StartEvent(t) \/ Logging(t)

SysSpec == SysInit /\ [][SysNext]_sysvars

(* Threads inside log(), getLogger and the listener keep running, and get  *)
(* a spinlock that stays free.                                             *)
SysFairSpec ==
  /\ SysSpec
  /\ WF_sysvars(ReloadStep)
  /\ \A t \in User : WF_sysvars(Made(t) \/ Logging(t))

-----------------------------------------------------------------------------
(* While table accesses have not overlapped an insertion and nothing was   *)
(* erased, each name has one logger, the one the table has: whoever got    *)
(* the name logs to the logger that reloads configure (log.cc:645-656).    *)
OneLoggerPerName == calm => \A l \in made : table[KeyOf[l]] = l

Returns(t) == pc[t] # "idle" /\ pc'[t] = "idle"

Listed(n, sev) ==
  {due[n].appenders[i].appender : i \in {j \in DOMAIN due[n].appenders :
                                           due[n].appenders[j].level <= sev}}

(* The appenders the configuration gives an event of a logger. *)
Targets(l, sev) ==
  LET n == KeyOf[l] IN
  IF due[n].appenders # <<>> THEN Listed(n, sev)
  ELSE IF l \notin Rootless /\ due[RootName].level <= sev THEN Listed(RootName, sev)
  ELSE {}

Count(a, e) == Cardinality({i \in DOMAIN out'[a] : out'[a][i] = e})

(* An event logged while no reload is in progress is written exactly once  *)
(* by each appender that the configuration gives its logger, and by no     *)
(* other: the manager's table, the listener's calls and the path of the    *)
(* event fit together (log.cc:222-235, 480-528, 645-656).                  *)
DeliveredAsConfigured ==
  [][\A t \in User : Returns(t) /\ calm /\ event[t] \in clean =>
       \A a \in Appender :
         Count(a, event[t]) =
           IF a \in Targets(origin[t], severity[t]) THEN 1 ELSE 0]_sysvars

Loudest == {s \in Level : \A r \in Level : r <= s}

(* An event no level can refuse is written somewhere, whatever reloads do  *)
(* meanwhile, unless they touch the root: between clearAppender and        *)
(* addAppender the logger falls back to the root (log.cc:226-233,          *)
(* 499-517).  A logger without a root has nothing to fall back to.         *)
NeverVanishes ==
  [][\A t \in User :
       /\ Returns(t) /\ severity[t] \in Loudest
       /\ RootName \notin touched /\ origin[t] \notin Rootless \ {Root}
       => \E a \in Appender : Count(a, event[t]) > 0]_sysvars

(* A reload ends, however busy the loggers are (log.cc:480-528). *)
ReloadReturns == job # <<>> ~> job = <<>>
=============================================================================
