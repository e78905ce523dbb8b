------------------------------- MODULE Logger -------------------------------
(***************************************************************************)
(* The path of a log event through sylar::Logger (sylar/log.h, log.cc),    *)
(* with several threads logging to several loggers while others change     *)
(* levels and appenders.                                                   *)
(*                                                                         *)
(* The SYLAR_LOG_* macros test the logger's level without its lock, build  *)
(* the event, and Logger::log tests the level again without the lock.  It  *)
(* then takes the logger's spinlock and keeps it for the whole loop over   *)
(* the appender list, or, when the list is empty, for the whole call to    *)
(* the root logger, which takes its own lock.  An appender tests its level *)
(* without its lock and writes under it: a lock held for one write only,   *)
(* so the write is one action.  Formatters are not part of this module.    *)
(***************************************************************************)
EXTENDS Naturals, SequencesExt

CONSTANTS
  Thread,      \* the threads of the program
  NoThread,    \* nobody holds the lock
  Loggers,     \* the logger objects
  Root,        \* the LoggerManager's m_root
  Rootless,    \* those whose m_root is null: Root, and those the application
               \* makes itself; getLogger gives the others Root
  Appender,    \* the appenders
  NoAppender,  \* none of them
  Stdout,      \* the one the LoggerManager's constructor gives to Root
  Homes,       \* bound: the loggers each appender may be added to
  Level,       \* severities
  Lowest,      \* LogLevel::DEBUG, the level of a new logger or appender
  MaxEvents,   \* bound: events logged in a run
  MaxLen       \* bound: length of an appender list

ASSUME LoggerOK ==
  /\ NoThread \notin Thread
  /\ Root \in Loggers
  /\ Rootless \subseteq Loggers /\ Root \in Rootless
  /\ Homes \in [Appender -> SUBSET Loggers]
  /\ NoAppender \notin Appender
  /\ Stdout \in Appender /\ Root \in Homes[Stdout]
  /\ Level \subseteq Nat /\ Lowest \in Level
  /\ MaxEvents \in Nat
  /\ MaxLen \in Nat \ {0}

VARIABLES
  level,      \* m_level of each logger
  appenders,  \* m_appender of each logger
  apLevel,    \* m_level of each appender
  lock,       \* who holds m_mutex of each logger
  pc,         \* where each thread is in Logger::log
  at,         \* the logger whose log() it is in
  origin,     \* the logger it was called for: at[t], or a child of at[t]
  event,      \* the event it is logging
  severity,   \* and its level
  pos,        \* its iterator, as a position of the list
  target,     \* the appender whose log() it is in, having passed its level
  events,     \* history: events logged so far
  out         \* history: the events each appender has written, in order

vars == <<level, appenders, apLevel, lock, pc, at, origin, event, severity,
          pos, target, events, out>>

config == <<level, appenders, apLevel>>
call   == <<origin, event, severity, target>>

Where == {"idle", "enter", "wait", "loop", "write", "leave"}

(* The level the constructors set.                                         *)
NewLevel == Lowest

Init ==
  /\ level = [l \in Loggers |-> NewLevel]
  /\ appenders = [l \in Loggers |-> IF l = Root THEN <<Stdout>> ELSE <<>>]
  /\ apLevel = [a \in Appender |-> NewLevel]
  /\ lock = [l \in Loggers |-> NoThread]
  /\ pc = [t \in Thread |-> "idle"]
  /\ at = [t \in Thread |-> Root]
  /\ origin = [t \in Thread |-> Root]
  /\ event = [t \in Thread |-> 0]
  /\ severity = [t \in Thread |-> Lowest]
  /\ pos = [t \in Thread |-> 1]
  /\ target = [t \in Thread |-> NoAppender]
  /\ events = 0
  /\ out = [a \in Appender |-> <<>>]

Goto(t, from, to) == pc[t] = from /\ pc' = [pc EXCEPT ![t] = to]

List(t) == appenders[at[t]]
Current(t) == List(t)[pos[t]]

-----------------------------------------------------------------------------
(* Logging.                                                                *)

(* SYLAR_LOG_x(logger): nothing happens when the level test fails. *)
Macro(t, l, sev) ==
  /\ Goto(t, "idle", "enter")
  /\ level[l] <= sev
  /\ events < MaxEvents
  /\ events' = events + 1
  /\ at' = [at EXCEPT ![t] = l]
  /\ origin' = [origin EXCEPT ![t] = l]
  /\ event' = [event EXCEPT ![t] = events']
  /\ severity' = [severity EXCEPT ![t] = sev]
  /\ UNCHANGED <<config, lock, pos, target, out>>

(* log() finds the level high enough and goes for the lock, ... *)
Enter(t) ==
  /\ level[at[t]] <= severity[t]
  /\ Goto(t, "enter", "wait")
  /\ UNCHANGED <<config, lock, at, call, pos, events, out>>

(* log() returns to the macro, which is done with the event, or the root's *)
(* log() returns to the child's.  The mutant goes back to the child's test *)
(* of its list.                                                            *)
Finish(t) ==
  /\ pc' = [pc EXCEPT ![t] = "idle"]
  /\ at' = [at EXCEPT ![t] = Root]
  /\ origin' = [origin EXCEPT ![t] = Root]
  /\ event' = [event EXCEPT ![t] = 0]
  /\ severity' = [severity EXCEPT ![t] = Lowest]
  /\ pos' = [pos EXCEPT ![t] = 1]

ResumeLoop(t) ==
  /\ pc' = [pc EXCEPT ![t] = "loop"]
  /\ at' = [at EXCEPT ![t] = origin[t]]
  /\ UNCHANGED <<origin, event, severity, pos>>

Resume(t) ==
  /\ pc' = [pc EXCEPT ![t] = "leave"]
  /\ at' = [at EXCEPT ![t] = origin[t]]
  /\ UNCHANGED <<origin, event, severity, pos>>

Return(t) == IF at[t] = origin[t] THEN Finish(t) ELSE Resume(t)

(* ... or returns. *)
Refuse(t) ==
  /\ level[at[t]] > severity[t]
  /\ pc[t] = "enter"
  /\ Return(t)
  /\ UNCHANGED <<config, lock, target, events, out>>

(* The spinlock can be taken; the mutant does not look. *)
NeverBusy(l) == TRUE
Free(l) == lock[l] = NoThread

Acquire(t) ==
  /\ Free(at[t])
  /\ Goto(t, "wait", "loop")
  /\ lock' = [lock EXCEPT ![at[t]] = t]
  /\ pos' = [pos EXCEPT ![t] = 1]
  /\ UNCHANGED <<config, at, call, events, out>>

(* LogAppender::log: the appender's level decides, then it writes.  The    *)
(* mutant does not go on to the next appender.                             *)
SkipAgain(t) ==
  /\ pc[t] = "loop"
  /\ pos[t] <= Len(List(t))
  /\ apLevel[Current(t)] > severity[t]
  /\ UNCHANGED vars

Skip(t) ==
  /\ pc[t] = "loop"
  /\ pos[t] <= Len(List(t))
  /\ apLevel[Current(t)] > severity[t]
  /\ pos' = [pos EXCEPT ![t] = @ + 1]
  /\ UNCHANGED <<config, lock, pc, at, call, events, out>>

Accept(t) ==
  /\ pos[t] <= Len(List(t))
  /\ apLevel[Current(t)] <= severity[t]
  /\ Goto(t, "loop", "write")
  /\ target' = [target EXCEPT ![t] = Current(t)]
  /\ UNCHANGED <<config, lock, at, origin, event, severity, pos, events, out>>

Write(t) ==
  /\ Goto(t, "write", "loop")
  /\ out' = [out EXCEPT ![target[t]] = Append(@, event[t])]
  /\ pos' = [pos EXCEPT ![t] = @ + 1]
  /\ target' = [target EXCEPT ![t] = NoAppender]
  /\ UNCHANGED <<config, lock, at, origin, event, severity, events>>

(* m_root is set, as getLogger does; the mutant forgets it. *)
NoRoot(l)  == FALSE
HasRoot(l) == l \notin Rootless

(* The end of the list; an empty list and no root drop the event. *)
LoopDone(t) ==
  /\ pos[t] > Len(List(t))
  /\ List(t) # <<>> \/ ~HasRoot(at[t])
  /\ Goto(t, "loop", "leave")
  /\ UNCHANGED <<config, lock, at, call, pos, events, out>>

(* An empty list and a root: m_root->log, with the lock still held.        *)
(* The mutant gives the lock back first.                                   *)
DelegateUnlocked(t) ==
  /\ List(t) = <<>>
  /\ HasRoot(at[t])
  /\ Goto(t, "loop", "enter")
  /\ at' = [at EXCEPT ![t] = Root]
  /\ lock' = [lock EXCEPT ![at[t]] = NoThread]
  /\ UNCHANGED <<config, call, pos, events, out>>

Delegate(t) ==
  /\ List(t) = <<>>
  /\ HasRoot(at[t])
  /\ Goto(t, "loop", "enter")
  /\ at' = [at EXCEPT ![t] = Root]
  /\ UNCHANGED <<config, lock, call, pos, events, out>>

(* The guard's destructor, and the return of log(). *)
Leave(t) ==
  /\ pc[t] = "leave"
  /\ lock' = [lock EXCEPT ![at[t]] = NoThread]
  /\ Return(t)
  /\ UNCHANGED <<config, target, events, out>>

-----------------------------------------------------------------------------
(* Administration, by a thread that is not logging.  Each operation is one *)
(* critical section of the logger's lock.                                  *)

Admin(t, l) ==
  /\ pc[t] = "idle"
  /\ Free(l)
  /\ UNCHANGED <<lock, pc, at, call, pos, events, out>>

SetLevel(t, l, sev) ==
  /\ Admin(t, l)
  /\ level' = [level EXCEPT ![l] = sev]
  /\ UNCHANGED <<appenders, apLevel>>

(* push_back: nothing keeps an appender from being added twice. *)
AddAppender(t, l, a) ==
  /\ Admin(t, l)
  /\ l \in Homes[a]
  /\ Len(appenders[l]) < MaxLen
  /\ appenders' = [appenders EXCEPT ![l] = Append(@, a)]
  /\ UNCHANGED <<level, apLevel>>

(* std::find, then erase: the first of several equal ones goes. *)
DelAppender(t, l, a) ==
  /\ Admin(t, l)
  /\ \E i \in DOMAIN appenders[l] :
       /\ appenders[l][i] = a
       /\ \A j \in 1..(i - 1) : appenders[l][j] # a
       /\ appenders' = [appenders EXCEPT ![l] = RemoveAt(@, i)]
  /\ UNCHANGED <<level, apLevel>>

ClearAppender(t, l) ==
  /\ Admin(t, l)
  /\ appenders' = [appenders EXCEPT ![l] = <<>>]
  /\ UNCHANGED <<level, apLevel>>

(* LogAppender::setLevel, under the appender's own lock. *)
SetAppenderLevel(t, a, sev) ==
  /\ pc[t] = "idle"
  /\ apLevel' = [apLevel EXCEPT ![a] = sev]
  /\ UNCHANGED <<level, appenders, lock, pc, at, call, pos, events, out>>

-----------------------------------------------------------------------------
LogStep(t) ==
  \/ Enter(t)
  \/ Refuse(t)
  \/ Acquire(t)
  \/ Skip(t)
  \/ Accept(t)
  \/ Write(t)
  \/ LoopDone(t)
  \/ Delegate(t)
  \/ Leave(t)

AdminStep(t) ==
  \/ \E l \in Loggers, sev \in Level : SetLevel(t, l, sev)
  \/ \E l \in Loggers, a \in Appender : AddAppender(t, l, a)
  \/ \E l \in Loggers, a \in Appender : DelAppender(t, l, a)
  \/ \E l \in Loggers : ClearAppender(t, l)
  \/ \E a \in Appender, sev \in Level : SetAppenderLevel(t, a, sev)

Next ==
  \E t \in Thread :
    \/ \E l \in Loggers, sev \in Level : Macro(t, l, sev)
    \/ LogStep(t)
    \/ AdminStep(t)

Spec == Init /\ [][Next]_vars

(* A thread inside log() keeps running, and gets a lock that stays free.   *)
(* An unfair spinlock promises no more; that it cannot be taken away again *)
(* and again comes from the bound on events.                               *)
FairSpec == Spec /\ \A t \in Thread : WF_vars(LogStep(t))

-----------------------------------------------------------------------------
(* Type invariant: the configuration, the calls and the histories.         *)
TypeOK ==
  /\ level \in [Loggers -> Level]
  /\ appenders \in [Loggers -> Seq(Appender)]
  /\ apLevel \in [Appender -> Level]
  /\ lock \in [Loggers -> Thread \cup {NoThread}]
  /\ pc \in [Thread -> Where]
  /\ at \in [Thread -> Loggers]
  /\ origin \in [Thread -> Loggers]
  /\ event \in [Thread -> Nat]
  /\ severity \in [Thread -> Level]
  /\ pos \in [Thread -> Nat \ {0}]
  /\ target \in [Thread -> Appender \cup {NoAppender}]
  /\ events \in Nat
  /\ out \in [Appender -> Seq(Nat)]

Attached(a) ==
  \E l \in Loggers : \E i \in DOMAIN appenders[l] : appenders[l][i] = a

(* Once delAppender or clearAppender has returned, the removed appender is *)
(* never written to again, not even by a thread that was already inside    *)
(* log() (log.cc:216-235, log.h:258-261): its owner may close the file.    *)
OnlyAttachedWrite ==
  [][\A a \in Appender : out'[a] # out[a] => Attached(a)]_vars

(* While the root logger writes an event on behalf of another logger, that *)
(* logger still has no appender of its own (log.cc:226-233): the fallback  *)
(* is never used for a logger that was given an appender meanwhile.        *)
FallbackStillDue ==
  \A t \in Thread :
    at[t] # origin[t] => at[t] = Root /\ appenders[origin[t]] = <<>>

Before(a, e, f) ==
  \E i, j \in 1..Len(out[a]) : i < j /\ out[a][i] = e /\ out[a][j] = f

(* Two appenders never show the same two events in opposite orders         *)
(* (log.cc:225-230): the logs of one logger can be compared line by line.  *)
SameOrder ==
  \A a, b \in Appender : \A e, f \in 1..events :
    Before(a, e, f) => ~Before(b, f, e) \/ e = f

(* Every call of log() returns (log.cc:222-235): a thread holding a child  *)
(* logger's lock waits for the root's, and nobody waits the other way.     *)
LogReturns == \A t \in Thread : pc[t] # "idle" ~> pc[t] = "idle"

-----------------------------------------------------------------------------
(* The inductive invariant behind the safety properties.                   *)

(* The loggers whose locks a thread holds: the one it works in, and the    *)
(* one it delegates for.                                                   *)
Holds(t, l) ==
  \/ l = at[t] /\ pc[t] \in {"loop", "write", "leave"}
  \/ l = origin[t] /\ at[t] # origin[t]

LockInv == \A t \in Thread, l \in Loggers : lock[l] = t <=> Holds(t, l)

(* A thread outside log() works for no other logger, and the appender a    *)
(* thread is about to write to is the one its iterator points to.          *)
FrameInv ==
  \A t \in Thread :
    /\ pc[t] = "idle" => at[t] = origin[t]
    /\ pc[t] = "write" => pos[t] <= Len(List(t)) /\ target[t] = Current(t)

(* Safety of every run: locks, delegation and iterators are consistent     *)
(* (log.cc:206-235).                                                       *)
IInv == TypeOK /\ LockInv /\ FrameInv /\ FallbackStillDue
=============================================================================
