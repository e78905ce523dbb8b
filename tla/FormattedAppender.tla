------------------------- MODULE FormattedAppender -------------------------
(***************************************************************************)
(* A file appender shared by several loggers, and its pattern (log.h:      *)
(* 160-211, 242-257, log.cc:206-214).  The appender's owner may give it a  *)
(* pattern; otherwise it uses the pattern of the logger it was added to,   *)
(* and m_hasFormatter says which.  Either pattern may be null.             *)
(* Logger::addAppender and Logger::setFormatter hold their logger's lock,  *)
(* but take the appender's for each test and each assignment alone: those  *)
(* are actions of their own.  log() is FileAppender's, called under the    *)
(* lock of a logger; without a pattern it ends the program.                *)
(***************************************************************************)
EXTENDS FileAppender

CONSTANTS
  NoThread,   \* nobody holds the lock
  Loggers,    \* the loggers the appender may be added to
  Pattern,    \* patterns LogFormatter accepts
  Initial,    \* the one of a new logger
  NoPattern   \* m_formatter is null

ASSUME PatternOK ==
  /\ NoThread \notin Thread
  /\ Loggers # {}
  /\ Initial \in Pattern /\ NoPattern \notin Pattern

VARIABLES
  formatter,   \* the appender's m_formatter
  has,         \* its m_hasFormatter
  attached,    \* the loggers it has been added to
  logFormatter,  \* m_formatter of each logger
  holder,      \* who holds m_mutex of each logger
  step,        \* where each thread is in addAppender or setFormatter
  work,        \* the logger it works on
  owned,       \* history: the pattern the owner set last
  taken,       \* history: the owner took its pattern away, and no logger
               \* the appender is in, or is added to, has changed it since
  nulled,      \* history: some pattern was set to null
  alone        \* history: no two of the calls that change the pattern have
               \* overlapped

history == <<owned, taken, nulled, alone>>
pattern == <<formatter, has, attached, logFormatter, step, work, history>>
allvars == <<vars, pattern, holder>>

AllInit ==
  /\ Init
  /\ formatter = NoPattern
  /\ has = FALSE
  /\ attached = {}
  /\ logFormatter = [l \in Loggers |-> Initial]
  /\ holder = [l \in Loggers |-> NoThread]
  /\ step = [t \in Thread |-> "none"]
  /\ work = [t \in Thread |-> CHOOSE l \in Loggers : TRUE]
  /\ owned = NoPattern
  /\ taken = FALSE
  /\ nulled = FALSE
  /\ alone = TRUE

(* The program goes on, and so does a call. *)
Step(t, from, to) ==
  pc[t] = "idle" /\ step[t] = from /\ step' = [step EXCEPT ![t] = to]

Outside(t) == pc[t] = "idle" /\ step[t] = "none"
Nobody     == \A t \in Thread : step[t] = "none"

Take(t, l) == holder[l] = NoThread /\ holder' = [holder EXCEPT ![l] = t]
Give(t)    == holder' = [l \in Loggers |-> IF holder[l] = t THEN NoThread ELSE holder[l]]

-----------------------------------------------------------------------------
(* LogAppender::setFormatter: a pattern is also said to be the appender's  *)
(* own, ...                                                                *)
Assign(f) == formatter' = f /\ has' = (f # NoPattern)

(* ... by the owner, at any time.                                          *)
SetOwn(t, f) ==
  /\ Outside(t)
  /\ Assign(f)
  /\ owned' = f
  /\ taken' = (f = NoPattern)
  /\ nulled' = (nulled \/ f = NoPattern)
  /\ alone' = (alone /\ Nobody)
  /\ UNCHANGED <<vars, attached, logFormatter, holder, step, work>>

(* Logger::addAppender, at most once for each logger, ...                  *)
AddBegin(t, l) ==
  /\ Outside(t)
  /\ l \notin attached
  /\ Take(t, l)
  /\ Step(t, "none", "test")
  /\ work' = [work EXCEPT ![t] = l]
  /\ taken' = FALSE
  /\ alone' = (alone /\ Nobody)
  /\ UNCHANGED <<vars, formatter, has, attached, logFormatter, owned, nulled>>

(* ... which looks for a pattern; its mutant adds the appender as it is.   *)
AsItIs == TRUE
HasOne == formatter # NoPattern

AddTest(t) ==
  /\ Step(t, "test", IF HasOne THEN "push" ELSE "assign")
  /\ UNCHANGED <<vars, formatter, has, attached, logFormatter, holder, work, history>>

(* Logger::setFormatter: it stores the pattern, and looks whether the      *)
(* appender, if it was added, has one of its own.                          *)
SetBegin(t, l, f) ==
  /\ Outside(t)
  /\ Take(t, l)
  /\ logFormatter' = [logFormatter EXCEPT ![l] = f]
  /\ Step(t, "none", IF l \in attached THEN "testOwn" ELSE "leave")
  /\ work' = [work EXCEPT ![t] = l]
  /\ taken' = (taken /\ l \notin attached)
  /\ nulled' = (nulled \/ f = NoPattern)
  /\ alone' = (alone /\ Nobody)
  /\ UNCHANGED <<vars, formatter, has, attached, owned>>

SetTest(t) ==
  /\ Step(t, "testOwn", IF has THEN "leave" ELSE "assign")
  /\ UNCHANGED <<vars, formatter, has, attached, logFormatter, holder, work, history>>

(* Both then set the logger's pattern, ... *)
AssignDefault(t) ==
  /\ Step(t, "assign", "flag")
  /\ Assign(logFormatter[work[t]])
  /\ UNCHANGED <<vars, attached, logFormatter, holder, work, history>>

(* ... and take back that it is the appender's own.  The mutant does not.  *)
KeepFlag  == has
ClearFlag == FALSE

Flag(t) ==
  /\ Step(t, "flag", IF work[t] \in attached THEN "leave" ELSE "push")
  /\ has' = ClearFlag
  /\ UNCHANGED <<vars, formatter, attached, logFormatter, holder, work, history>>

Push(t) ==
  /\ Step(t, "push", "leave")
  /\ attached' = attached \cup {work[t]}
  /\ UNCHANGED <<vars, formatter, has, logFormatter, holder, work, history>>

Leave(t) ==
  /\ Step(t, "leave", "none")
  /\ Give(t)
  /\ UNCHANGED <<vars, formatter, has, attached, logFormatter, work, history>>

-----------------------------------------------------------------------------
(* A logger writes an event to the appender, under its lock.               *)
LogBegin(t, l) ==
  /\ Outside(t)
  /\ l \in attached
  /\ Take(t, l)
  /\ Log(t)
  /\ UNCHANGED pattern

LogOn(t) == (Reopen(t) \/ Stamp(t)) /\ UNCHANGED <<pattern, holder>>

LogEnd(t) ==
  \/ formatter # NoPattern /\ Write(t) /\ Give(t) /\ UNCHANGED pattern
  \/ formatter = NoPattern /\ Crash(t) /\ UNCHANGED <<pattern, holder>>

CallStep(t) ==
  \/ AddTest(t)
  \/ SetTest(t)
  \/ AssignDefault(t)
  \/ Flag(t)
  \/ Push(t)
  \/ Leave(t)
  \/ LogOn(t)
  \/ LogEnd(t)

AllNext ==
  \/ \E t \in Thread :
       \/ CallStep(t)
       \/ \E f \in Pattern \cup {NoPattern} : SetOwn(t, f)
       \/ \E l \in Loggers : AddBegin(t, l) \/ LogBegin(t, l)
       \/ \E l \in Loggers, f \in Pattern \cup {NoPattern} : SetBegin(t, l, f)
  \/ (Tick \/ DiskChanges) /\ UNCHANGED <<pattern, holder>>

AllSpec == AllInit /\ [][AllNext]_allvars

(* Time passes, and calls that have begun go on: whoever holds a lock      *)
(* gives it back.                                                          *)
AllFairSpec ==
  /\ AllSpec
  /\ WF_allvars(Tick /\ UNCHANGED <<pattern, holder>>)
  /\ \A t \in Thread : WF_allvars(CallStep(t))

-----------------------------------------------------------------------------
(* addAppender gives every appender a pattern (log.cc:206-214): as long as *)
(* nobody sets one to null, an appender of a logger has one, whatever its  *)
(* owner and its loggers do at once, and log() finds it (log.cc:265).      *)
DefaultPattern ==
  ~nulled => /\ attached # {} => formatter # NoPattern
             /\ \A t \in Thread : pc[t] # "ended"

(* As long as the calls that change it did not overlap: the pattern the    *)
(* owner gave stays.  Without one the appender has the pattern of a logger *)
(* it was added to, also after that logger's has changed; none, if it is   *)
(* in no logger or the owner took it away after all of that (log.h:        *)
(* 170-174, 242-252, log.cc:206-214).                                      *)
PatternAsSet ==
  alone /\ Nobody =>
    IF owned # NoPattern THEN has /\ formatter = owned
    ELSE /\ ~has
         /\ IF attached = {} \/ taken THEN formatter = NoPattern
            ELSE \E l \in attached : formatter = logFormatter[l]
=============================================================================
