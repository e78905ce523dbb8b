------------------------------ MODULE ConfigVar ------------------------------
(***************************************************************************)
(* One configuration variable, sylar::ConfigVar<T> (sylar/config.h): its   *)
(* value m_val, the listeners m_cbs called when it changes, and the        *)
(* reader/writer lock s_mutex that guards both.  Several threads set, read *)
(* and print it, and register and remove listeners.                        *)
(*                                                                         *)
(* setValue is not atomic: it compares and calls every listener under the  *)
(* READ lock, drops that lock, and stores the value under the WRITE lock.  *)
(* It is one action per lock transition and one per callback.  A critical  *)
(* section over data that only lock holders touch is a single action.      *)
(* The assignment m_val = val has an action of its own: getValue hands out *)
(* a reference that its caller copies from after the lock is gone, so a    *)
(* copy can overlap the assignment.                                        *)
(*                                                                         *)
(* addListener numbers listeners by s_fun_id, which all variables of one   *)
(* type share and each guards by its own lock only: the module is about a  *)
(* variable that is the only one of its type to get listeners at a time.   *)
(***************************************************************************)
EXTENDS Naturals, RWMutex

CONSTANTS
  Thread,    \* the threads of the program
  Setters,   \* those that call setValue (fromString, Config::LoadFromYaml)
  Value,     \* the values of type T
  InitVal,   \* default_value, the constructor's argument
  NoVal,     \* "no value"
  MaxId,     \* bound: listener ids addListener may hand out
  CanThrow   \* whether a listener may throw

ASSUME ConstantsOK ==
  /\ Setters \subseteq Thread
  /\ InitVal \in Value
  /\ NoVal \notin Value
  /\ NoThread \notin Thread
  /\ MaxId \in Nat
  /\ CanThrow \in BOOLEAN

VARIABLES
  val,    \* m_val
  cbs,    \* the keys of m_cbs
  funId,  \* s_fun_id, the last id handed out
  pc,     \* where each thread is
  arg,    \* the argument of the setValue call a thread is in
  todo,   \* the listeners its loop has still to call
  told,   \* history: the new_value each listener was last called with,
          \* before the first call the value it found when it registered,
          \* or NoVal if that was between a setValue's loop and its store
  serial  \* history: no two setValue calls have overlapped, no listener
          \* has thrown

history == <<told, serial>>
vars    == <<val, cbs, funId, readers, writer, pc, arg, todo, history>>

Id    == 1..MaxId
Where == {"idle", "notify", "upgrade", "writing", "copying", "dumping"}

Init ==
  /\ LockInit
  /\ val = InitVal
  /\ cbs = {}
  /\ funId = 0
  /\ pc = [t \in Thread |-> "idle"]
  /\ arg = [t \in Thread |-> NoVal]
  /\ todo = [t \in Thread |-> {}]
  /\ told = [id \in Id |-> NoVal]
  /\ serial = TRUE

Goto(t, from, to) == pc[t] = from /\ pc' = [pc EXCEPT ![t] = to]
InSet(t) == pc[t] \in {"notify", "upgrade", "writing"}

-----------------------------------------------------------------------------
(* setValue.  A call with the current value returns at once and changes    *)
(* nothing, so it needs no action.                                         *)

(* Lock for reading, compare, start the loop over m_cbs. *)
SetBegin(t, v) ==
  /\ t \in Setters
  /\ v # val
  /\ Goto(t, "idle", "notify")
  /\ RdLock(t)
  /\ arg' = [arg EXCEPT ![t] = v]
  /\ todo' = [todo EXCEPT ![t] = cbs]
  /\ serial' = (serial /\ \A u \in Thread : ~InSet(u))
  /\ UNCHANGED <<val, cbs, funId, told>>

(* Call the next listener with (m_val, val): std::map iterates by key. *)
Notify(t, id) ==
  /\ pc[t] = "notify"
  /\ id \in todo[t]
  /\ \A j \in todo[t] : id <= j
  /\ told' = [told EXCEPT ![id] = arg[t]]
  /\ todo' = [todo EXCEPT ![t] = @ \ {id}]
  /\ UNCHANGED <<val, cbs, funId, readers, writer, pc, arg, serial>>

(* The listener called next throws: the read guard unlocks, m_val is not   *)
(* assigned, and fromString catches the exception and returns false.       *)
ListenerThrows(t) ==
  /\ CanThrow
  /\ todo[t] # {}
  /\ Goto(t, "notify", "idle")
  /\ RdUnlock(t)
  /\ arg' = [arg EXCEPT ![t] = NoVal]
  /\ todo' = [todo EXCEPT ![t] = {}]
  /\ serial' = FALSE
  /\ UNCHANGED <<val, cbs, funId, told>>

(* Mutant: the loop stops after any number of listeners. *)
NotifyStops(t) ==
  /\ Goto(t, "notify", "upgrade")
  /\ RdUnlock(t)
  /\ todo' = [todo EXCEPT ![t] = {}]
  /\ UNCHANGED <<val, cbs, funId, arg, history>>

(* The loop is over: the scope of the read guard ends. *)
NotifyDone(t) ==
  /\ todo[t] = {}
  /\ Goto(t, "notify", "upgrade")
  /\ RdUnlock(t)
  /\ UNCHANGED <<val, cbs, funId, arg, todo, history>>

StoreLock(t) ==
  /\ Goto(t, "upgrade", "writing")
  /\ WrLock(t)
  /\ UNCHANGED <<val, cbs, funId, arg, todo, history>>

(* m_val = val, and the write guard's destructor. *)
Store(t) ==
  /\ Goto(t, "writing", "idle")
  /\ val' = arg[t]
  /\ WrUnlock(t)
  /\ arg' = [arg EXCEPT ![t] = NoVal]
  /\ UNCHANGED <<cbs, funId, todo, history>>

-----------------------------------------------------------------------------
(* Readers of the value.                                                   *)

(* getValue locks, takes a reference to m_val, unlocks and returns it. *)
GetValue(t) ==
  /\ Goto(t, "idle", "copying")
  /\ RdFree
  /\ UNCHANGED <<val, cbs, funId, readers, writer, arg, todo, history>>

(* The caller copies the T behind the reference, as auto v = getValue(). *)
CopyDone(t) ==
  /\ Goto(t, "copying", "idle")
  /\ UNCHANGED <<val, cbs, funId, readers, writer, arg, todo, history>>

(* toString converts m_val while it holds the lock. *)
ToStringBegin(t) ==
  /\ Goto(t, "idle", "dumping")
  /\ RdLock(t)
  /\ UNCHANGED <<val, cbs, funId, arg, todo, history>>

ToStringEnd(t) ==
  /\ Goto(t, "dumping", "idle")
  /\ RdUnlock(t)
  /\ UNCHANGED <<val, cbs, funId, arg, todo, history>>

-----------------------------------------------------------------------------
(* The listener table, each operation under the write lock.                *)

(* The next id; its mutant hands out the last one again. *)
SameId == funId
NextId == funId + 1

Found == IF \E u \in Thread : InSet(u) THEN NoVal ELSE val

AddListener(t) ==
  /\ pc[t] = "idle"
  /\ WrFree
  /\ funId < MaxId
  /\ funId' = NextId
  /\ cbs' = cbs \cup {funId'}
  /\ told' = [told EXCEPT ![funId'] = Found]
  /\ UNCHANGED <<val, readers, writer, pc, arg, todo, serial>>

DelListenner(t, id) ==
  /\ pc[t] = "idle"
  /\ WrFree
  /\ cbs' = cbs \ {id}
  /\ UNCHANGED <<val, funId, readers, writer, pc, arg, todo, history>>

ClearListener(t) ==
  /\ pc[t] = "idle"
  /\ WrFree
  /\ cbs' = {}
  /\ UNCHANGED <<val, funId, readers, writer, pc, arg, todo, history>>

-----------------------------------------------------------------------------
SetStep(t) ==
  \/ \E id \in Id : Notify(t, id)
  \/ ListenerThrows(t)
  \/ NotifyDone(t)
  \/ Store(t)

Next ==
  \E t \in Thread :
    \/ \E v \in Value : SetBegin(t, v)
    \/ SetStep(t)
    \/ StoreLock(t)
    \/ GetValue(t)
    \/ CopyDone(t)
    \/ ToStringBegin(t)
    \/ ToStringEnd(t)
    \/ AddListener(t)
    \/ \E id \in Id : DelListenner(t, id)
    \/ ClearListener(t)

Spec == Init /\ [][Next]_vars

(* A thread that is running keeps running.  A thread that waits for the    *)
(* write lock gets it if the lock can be granted again and again.  Nobody  *)
(* is obliged to start a call.                                             *)
Fairness ==
  \A t \in Thread :
    /\ WF_vars(SetStep(t))
    /\ WF_vars(ToStringEnd(t))
    /\ SF_vars(StoreLock(t))

FairSpec == Spec /\ Fairness

-----------------------------------------------------------------------------
(* Type invariant: where each thread is and what each variable may hold.   *)
TypeOK ==
  /\ val \in Value
  /\ cbs \subseteq Id
  /\ funId \in 0..MaxId
  /\ readers \subseteq Thread
  /\ writer \in Thread \cup {NoThread}
  /\ pc \in [Thread -> Where]
  /\ arg \in [Thread -> Value \cup {NoVal}]
  /\ todo \in [Thread -> SUBSET Id]
  /\ told \in [Id -> Value \cup {NoVal}]
  /\ serial \in BOOLEAN

(* Every listener of setValue (config.h:298-300) is called with two values *)
(* that differ, the old one being the current value: between the           *)
(* comparison and the last callback no other thread may change m_val.      *)
CallbacksSeeAChange == \A t \in Thread : pc[t] = "notify" => arg[t] # val

(* A listener whose delListenner or clearListener call has returned is     *)
(* never called again, not even by a setValue that was already in its loop *)
(* (config.h:313-323): what a loop still has to call is registered.        *)
OnlyRegisteredAreCalled == \A t \in Thread : todo[t] \subseteq cbs

(* m_val is never assigned while toString converts it or a listener holds  *)
(* references to it (config.h:269-271, 298-303).                           *)
NoStoreUnderReaders ==
  \A t, u \in Thread :
    pc[t] = "writing" => u = t \/ pc[u] \notin {"writing", "notify", "dumping"}

(* When no setValue is in progress, every registered listener knows the    *)
(* value of the variable (config.h:291-304): the value is the one it found *)
(* when it registered or was told last, so that a listener that mirrors    *)
(* the variable, as the logging one does (log.cc:480-528), is up to date.  *)
(* One registered between the loop and the store of a setValue, which is   *)
(* not told of that change, is excused until the next.                     *)
ListenersAgreeAtRest ==
  (\A t \in Thread : ~InSet(t)) =>
     \A id \in cbs : told[id] \in {NoVal, val}

(* That holds of every history in which no two setValue calls overlapped   *)
(* and no listener threw (config.h:291-304, 277-286), whatever was         *)
(* registered and removed meanwhile.                                       *)
SerialListenersAgree == serial => ListenersAgreeAtRest

(* Readers do not hold the lock for ever by taking turns.  POSIX leaves to *)
(* the lock whether a waiting writer holds new readers back.               *)
ReadersPause == []<>(\A t \in Thread : pc[t] \notin {"notify", "dumping"})

(* A setValue that started its loop returns (config.h:291-304), unless an  *)
(* unbroken chain of overlapping readers starves its write lock.           *)
SetReturns ==
  ReadersPause => \A t \in Thread : pc[t] = "notify" ~> pc[t] = "idle"

-----------------------------------------------------------------------------
(* The inductive invariant behind the safety properties above.             *)

(* The lock variables say who is inside which critical section. *)
LockInv ==
  /\ \A t \in Thread : t \in readers <=> pc[t] \in {"notify", "dumping"}
  /\ \A t \in Thread : writer = t <=> pc[t] = "writing"
  /\ writer # NoThread => readers = {}

(* What a setValue call carries from one of its steps to the next. *)
CallInv ==
  \A t \in Thread :
    /\ InSet(t) => t \in Setters /\ arg[t] \in Value
    /\ pc[t] = "notify" => arg[t] # val /\ todo[t] \subseteq cbs
    /\ pc[t] # "notify" => todo[t] = {}

(* Ids are handed out in order, and nobody tells an unused one. *)
FreshIds ==
  /\ cbs \subseteq 1..funId
  /\ \A id \in Id : id > funId => told[id] = NoVal

(* Safety of every run: locks, calls and ids are consistent                *)
(* (config.h:291-323).                                                     *)
IInv == TypeOK /\ LockInv /\ CallInv /\ FreshIds

(* As long as setValue calls do not overlap, the listeners the loop has    *)
(* passed know the new value and all others the current one                *)
(* (config.h:298-303).                                                     *)
SerialInv ==
  serial =>
    /\ \A t, u \in Thread : InSet(t) /\ InSet(u) => t = u
    /\ \A t \in Thread : InSet(t) =>
         \A id \in cbs \ todo[t] : told[id] \in {NoVal, arg[t]}
    /\ \A id \in cbs :
         (\A t \in Thread : InSet(t) => id \in todo[t]) => told[id] \in {NoVal, val}
=============================================================================
