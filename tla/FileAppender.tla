---------------------------- MODULE FileAppender ----------------------------
(***************************************************************************)
(* FileLogAppender (log.cc:253-280, log.h:287-298): a log file that is     *)
(* closed and opened again when a log call comes three seconds or more     *)
(* after the last time.  The level and m_lastTime are read without the     *)
(* appender's lock; reopen() and the write each hold it to their end and   *)
(* are one action.  Several threads may be in log() when several loggers   *)
(* share the appender.                                                     *)
(*                                                                         *)
(* std::ofstream is external: close() happens only on a good stream, as    *)
(* the code asks; opening a stream whose file is still open fails; opening *)
(* a closed one clears the error state.  Time is the flag due; m_lastTime  *)
(* starts at 0, so the first call always finds it due.                     *)
(***************************************************************************)
CONSTANTS
  Thread       \* the threads that log

VARIABLES
  disk,    \* the file can be opened, and written
  isOpen,  \* the stream's file is open
  good,    \* the stream's error state is clear
  due,     \* now >= m_lastTime + 3
  tried,   \* history: reopen has been called
  lost,    \* history: the last event could not be written
  broken,  \* history: a write to an open file has failed (a full disk)
  pc       \* where each thread is in log()

vars == <<disk, isOpen, good, due, tried, lost, broken, pc>>

Init ==
  /\ disk \in BOOLEAN
  /\ isOpen = FALSE
  /\ good = TRUE
  /\ due = TRUE
  /\ tried = FALSE
  /\ lost = FALSE
  /\ broken = FALSE
  /\ pc = [t \in Thread |-> "idle"]

Goto(t, from, to) == pc[t] = from /\ pc' = [pc EXCEPT ![t] = to]

-----------------------------------------------------------------------------
(* The mutant stamps the time before it reopens the file. *)
StampFirst(t) ==
  /\ Goto(t, "idle", IF due THEN "reopen" ELSE "write")
  /\ due' = FALSE
  /\ UNCHANGED <<disk, isOpen, good, tried, lost, broken>>

(* log() with a level high enough. *)
Log(t) ==
  /\ Goto(t, "idle", IF due THEN "reopen" ELSE "write")
  /\ UNCHANGED <<disk, isOpen, good, due, tried, lost, broken>>

(* if(m_filestream) m_filestream.close(); its mutant never closes. *)
NeverClosed == isOpen
StillOpen   == isOpen /\ ~good

(* reopen(). *)
Reopen(t) ==
  /\ Goto(t, "reopen", "stamp")
  /\ tried' = TRUE
  /\ isOpen' = (StillOpen \/ disk)
  /\ good' = (~StillOpen /\ disk)
  /\ UNCHANGED <<disk, due, lost, broken>>

(* m_lastTime = now. *)
Stamp(t) ==
  /\ Goto(t, "stamp", "write")
  /\ due' = FALSE
  /\ UNCHANGED <<disk, isOpen, good, tried, lost, broken>>

(* m_filestream << ...: prints "error" when the event could not go out.    *)
(* What a bad disk has still to write may stay in the stream's buffer.     *)
Write(t) ==
  /\ Goto(t, "write", "idle")
  /\ good' \in {good /\ isOpen, good /\ isOpen /\ disk}
  /\ lost' = ~good'
  /\ broken' = (broken \/ (good /\ isOpen /\ ~good'))
  /\ UNCHANGED <<disk, isOpen, due, tried>>

(* m_formatter->format() without a formatter: the null dereference ends    *)
(* the program, with all its threads.                                      *)
Crash(t) ==
  /\ pc[t] = "write"
  /\ pc' = [u \in Thread |-> "ended"]
  /\ UNCHANGED <<disk, isOpen, good, due, tried, lost, broken>>

(* The environment: time passes, the disk fails and is repaired. *)
Tick ==
  /\ due' = TRUE
  /\ UNCHANGED <<disk, isOpen, good, tried, lost, broken, pc>>

DiskChanges ==
  /\ disk' = ~disk
  /\ UNCHANGED <<isOpen, good, due, tried, lost, broken, pc>>

-----------------------------------------------------------------------------
LogStep(t) == Log(t) \/ Reopen(t) \/ Stamp(t) \/ Write(t) \/ Crash(t)

Next == (\E t \in Thread : LogStep(t)) \/ Tick \/ DiskChanges

Spec == Init /\ [][Next]_vars

-----------------------------------------------------------------------------
(* No event goes to a stream nobody has tried to open (log.cc:259-264):    *)
(* the time is stamped after the first reopen.                             *)
WritesFollowAnOpen == \A t \in Thread : pc[t] = "write" => tried

(* Until a write to the open file fails, the file is open exactly when the *)
(* stream is good, so that reopen closes what it opened (log.cc:264-279).  *)
OpenIsGood == tried /\ ~broken => (isOpen <=> good)

(* When no write to the open file ever failed, and the file can be opened  *)
(* from some time on, from some time on no event is lost, however often    *)
(* opening failed before (log.cc:257-280, log.h:286 "output to file").     *)
Recovers ==
  []~broken /\ <>[]disk =>
    <>[][\A t \in Thread : pc[t] = "write" /\ pc'[t] = "idle" => ~lost']_vars
=============================================================================
