------------------------------- MODULE RWMutex -------------------------------
(***************************************************************************)
(* sylar::RWMutex and its scoped guards ReadLock and WriteLock             *)
(* (sylar/mutex.h), over pthread_rwlock: many readers or one writer.       *)
(* A guard locks in its constructor and unlocks in its destructor, on      *)
(* every way out of the scope, an exception included.  Nothing is assumed  *)
(* of the order in which waiting threads are served: an action that takes  *)
(* the lock is enabled whenever the lock could be granted.                 *)
(***************************************************************************)
CONSTANT NoThread   \* nobody holds the lock for writing

VARIABLES
  readers,  \* threads that hold the lock for reading
  writer    \* the thread that holds it for writing, or NoThread

lockVars == <<readers, writer>>

LockInit == readers = {} /\ writer = NoThread

(* The lock can be granted to a reader, to a writer. *)
RdFree == writer = NoThread
WrFree == writer = NoThread /\ readers = {}

RdLock(t) == RdFree /\ readers' = readers \cup {t} /\ UNCHANGED writer
WrLock(t) == WrFree /\ writer' = t /\ UNCHANGED readers

(* Mutant of RdUnlock: the guard is still alive. *)
KeepLock(t) == UNCHANGED lockVars

RdUnlock(t) == readers' = readers \ {t} /\ UNCHANGED writer
WrUnlock(t) == writer' = NoThread /\ UNCHANGED readers
=============================================================================
