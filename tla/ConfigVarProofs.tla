--------------------------- MODULE ConfigVarProofs ---------------------------
(***************************************************************************)
(* Machine-checked proofs about ConfigVar, for any number of threads,      *)
(* values and listeners.  Everything follows from the inductive invariant  *)
(* IInv: who holds s_mutex, what a setValue call carries between two of    *)
(* its steps, and which listener ids are in use.                           *)
(***************************************************************************)
EXTENDS ConfigVar, TLAPS

USE DEF Id, Where, InSet, history

(* Unfolds one step into the actions of one thread. *)
Step(t) ==
  \/ \E v \in Value : SetBegin(t, v)
  \/ \E id \in Id : Notify(t, id)
  \/ ListenerThrows(t)
  \/ NotifyDone(t)
  \/ StoreLock(t)
  \/ Store(t)
  \/ GetValue(t)
  \/ CopyDone(t)
  \/ ToStringBegin(t)
  \/ ToStringEnd(t)
  \/ AddListener(t)
  \/ \E id \in Id : DelListenner(t, id)
  \/ ClearListener(t)

(* Every step of the system is a step of one thread (config.h:264-323).    *)
LEMMA NextIsStep == Next => \E t \in Thread : Step(t)
  BY DEF Next, SetStep, Step

(* The constructor establishes the invariant (config.h:264-265).           *)
LEMMA InitIInv == Init => IInv
  <1> SUFFICES ASSUME Init PROVE IInv
    OBVIOUS
  <1>1. TypeOK
    BY ConstantsOK DEF Init, LockInit, TypeOK
  <1>2. LockInv /\ CallInv /\ FreshIds
    BY ConstantsOK DEF Init, LockInit, LockInv, CallInv, FreshIds
  <1> QED
    BY <1>1, <1>2 DEF IInv

(* Type correctness is preserved by every step.                            *)
LEMMA StepTypeOK ==
  ASSUME IInv, NEW t \in Thread, Step(t)
  PROVE  TypeOK'
  <1> USE ConstantsOK DEF IInv, TypeOK, Goto
  <1>1. CASE \E v \in Value : SetBegin(t, v)
    BY <1>1 DEF SetBegin, RdLock, RdFree
  <1>2. CASE \E id \in Id : Notify(t, id)
    BY <1>2 DEF Notify
  <1>3. CASE ListenerThrows(t)
    BY <1>3 DEF ListenerThrows, RdUnlock
  <1>4. CASE NotifyDone(t)
    BY <1>4 DEF NotifyDone, RdUnlock
  <1>5. CASE StoreLock(t)
    BY <1>5 DEF StoreLock, WrLock, WrFree
  <1>6. CASE Store(t)
    BY <1>6 DEF Store, WrUnlock, CallInv
  <1>7. CASE GetValue(t) \/ CopyDone(t)
    BY <1>7 DEF GetValue, CopyDone
  <1>8. CASE ToStringBegin(t) \/ ToStringEnd(t)
    BY <1>8 DEF ToStringBegin, ToStringEnd, RdLock, RdUnlock, RdFree
  <1>9. CASE AddListener(t)
    BY <1>9 DEF AddListener, NextId, Found
  <1>10. CASE (\E id \in Id : DelListenner(t, id)) \/ ClearListener(t)
    BY <1>10 DEF DelListenner, ClearListener
  <1> QED
    BY <1>1, <1>2, <1>3, <1>4, <1>5, <1>6, <1>7, <1>8, <1>9, <1>10 DEF Step

(* The lock variables keep saying who is inside which critical section.    *)
LEMMA StepLockInv ==
  ASSUME IInv, NEW t \in Thread, Step(t)
  PROVE  LockInv'
  <1> USE ConstantsOK DEF IInv, TypeOK, LockInv, Goto
  <1>1. CASE \E v \in Value : SetBegin(t, v)
    BY <1>1 DEF SetBegin, RdLock, RdFree
  <1>2. CASE \E id \in Id : Notify(t, id)
    BY <1>2 DEF Notify
  <1>3. CASE ListenerThrows(t)
    BY <1>3 DEF ListenerThrows, RdUnlock
  <1>4. CASE NotifyDone(t)
    BY <1>4 DEF NotifyDone, RdUnlock
  <1>5. CASE StoreLock(t)
    BY <1>5 DEF StoreLock, WrLock, WrFree
  <1>6. CASE Store(t)
    BY <1>6 DEF Store, WrUnlock
  <1>7. CASE GetValue(t)
    BY <1>7 DEF GetValue
  <1>8. CASE CopyDone(t)
    BY <1>8 DEF CopyDone
  <1>9. CASE ToStringBegin(t)
    BY <1>9 DEF ToStringBegin, RdLock, RdFree
  <1>10. CASE ToStringEnd(t)
    BY <1>10 DEF ToStringEnd, RdUnlock
  <1>11. CASE AddListener(t)
    BY <1>11 DEF AddListener
  <1>12. CASE (\E id \in Id : DelListenner(t, id)) \/ ClearListener(t)
    BY <1>12 DEF DelListenner, ClearListener
  <1> QED
    BY <1>1, <1>2, <1>3, <1>4, <1>5, <1>6, <1>7, <1>8, <1>9, <1>10, <1>11,
       <1>12 DEF Step

(* While a thread is in its loop nobody holds the write lock, so a step    *)
(* that assigns m_val or changes the listener table finds no loop running. *)
LEMMA NoLoopUnderWriter ==
  ASSUME LockInv, NEW t \in Thread,
         WrFree \/ pc[t] = "writing"
  PROVE  \A u \in Thread : pc[u] # "notify"
  BY ConstantsOK DEF LockInv, WrFree

(* What the calls in progress carry stays consistent with the variable.    *)
LEMMA StepCallInv ==
  ASSUME IInv, NEW t \in Thread, Step(t)
  PROVE  CallInv'
  <1> USE ConstantsOK DEF IInv, TypeOK, CallInv, Goto
  <1>1. CASE \E v \in Value : SetBegin(t, v)
    BY <1>1 DEF SetBegin
  <1>2. CASE \E id \in Id : Notify(t, id)
    BY <1>2 DEF Notify
  <1>3. CASE ListenerThrows(t)
    BY <1>3 DEF ListenerThrows
  <1>4. CASE NotifyDone(t)
    BY <1>4 DEF NotifyDone
  <1>5. CASE StoreLock(t)
    BY <1>5 DEF StoreLock
  <1>6. CASE Store(t)
    BY <1>6, NoLoopUnderWriter DEF Store
  <1>7. CASE GetValue(t) \/ CopyDone(t)
    BY <1>7 DEF GetValue, CopyDone
  <1>8. CASE ToStringBegin(t) \/ ToStringEnd(t)
    BY <1>8 DEF ToStringBegin, ToStringEnd
  <1>9. CASE AddListener(t)
    BY <1>9 DEF AddListener
  <1>10. CASE (\E id \in Id : DelListenner(t, id)) \/ ClearListener(t)
    BY <1>10, NoLoopUnderWriter DEF DelListenner, ClearListener
  <1> QED
    BY <1>1, <1>2, <1>3, <1>4, <1>5, <1>6, <1>7, <1>8, <1>9, <1>10 DEF Step

(* Listener ids stay unique: the table holds handed-out ids only.          *)
LEMMA StepFreshIds ==
  ASSUME IInv, NEW t \in Thread, Step(t)
  PROVE  FreshIds'
  <1> USE ConstantsOK DEF IInv, TypeOK, FreshIds
  <1>1. CASE \E id \in Id : Notify(t, id)
    <2>1. PICK id \in Id : Notify(t, id)
      BY <1>1
    <2>2. id \in cbs
      BY <2>1 DEF Notify, CallInv
    <2> QED
      BY <2>1, <2>2 DEF Notify
  <1>2. CASE AddListener(t)
    BY <1>2 DEF AddListener, NextId
  <1>3. CASE (\E id \in Id : DelListenner(t, id)) \/ ClearListener(t)
    BY <1>3 DEF DelListenner, ClearListener
  <1>4. CASE UNCHANGED <<cbs, funId, told>>
    BY <1>4
  <1> QED
    BY <1>1, <1>2, <1>3, <1>4
    DEF Step, SetBegin, ListenerThrows, NotifyDone, StoreLock, Store, GetValue,
        CopyDone, ToStringBegin, ToStringEnd

(* The invariant is inductive. *)
LEMMA NextIInv == IInv /\ [Next]_vars => IInv'
  <1> SUFFICES ASSUME IInv, [Next]_vars PROVE IInv'
    OBVIOUS
  <1>1. CASE Next
    <2>1. PICK t \in Thread : Step(t)
      BY <1>1, NextIsStep
    <2> QED
      BY <2>1, StepTypeOK, StepLockInv, StepCallInv, StepFreshIds DEF IInv
  <1>2. CASE UNCHANGED vars
    BY <1>2 DEF vars, IInv, TypeOK, LockInv, CallInv, FreshIds
  <1> QED
    BY <1>1, <1>2

-----------------------------------------------------------------------------
(* Locks, calls and listener ids are consistent in every reachable state   *)
(* of a ConfigVar (config.h:264-323), whatever its threads and values.     *)
THEOREM Inductive == Spec => []IInv
  BY InitIInv, NextIInv, PTL DEF Spec

(* A listener is called with two different values, the old one being the   *)
(* variable's (config.h:294-300).                                          *)
THEOREM CallbacksSafe == Spec => []CallbacksSeeAChange
  <1>1. IInv => CallbacksSeeAChange
    BY DEF IInv, CallInv, CallbacksSeeAChange
  <1> QED
    BY <1>1, Inductive, PTL

(* A removed listener is never called again (config.h:298-300, 313-323).   *)
THEOREM RemovalSafe == Spec => []OnlyRegisteredAreCalled
  <1>1. IInv => OnlyRegisteredAreCalled
    BY DEF IInv, TypeOK, CallInv, OnlyRegisteredAreCalled
  <1> QED
    BY <1>1, Inductive, PTL

(* m_val is not assigned while toString or a listener reads it, nor by two *)
(* threads at once (config.h:269-271, 293-303).                            *)
THEOREM StoreExclusive == Spec => []NoStoreUnderReaders
  <1>1. IInv => NoStoreUnderReaders
    BY ConstantsOK DEF IInv, LockInv, NoStoreUnderReaders
  <1> QED
    BY <1>1, Inductive, PTL

-----------------------------------------------------------------------------
(* Histories in which setValue calls do not overlap and no listener throws. *)

(* The split holds at first: there is no listener and no call.             *)
LEMMA InitSerial == Init => SerialInv
  BY ConstantsOK DEF Init, SerialInv

(* In a history without overlap one thread at most is inside setValue, so  *)
(* what listeners were told stays split at the position of its loop.       *)
LEMMA StepSerial ==
  ASSUME IInv, SerialInv, NEW t \in Thread, Step(t)
  PROVE  SerialInv'
  <1> USE ConstantsOK DEF IInv, TypeOK, SerialInv, CallInv, Goto
  <1>1. CASE \E v \in Value : SetBegin(t, v)
    <2> SUFFICES ASSUME serial' PROVE SerialInv'
      OBVIOUS
    <2>1. /\ serial /\ \A u \in Thread : ~InSet(u)
          /\ todo' = [todo EXCEPT ![t] = cbs]
          /\ pc' = [pc EXCEPT ![t] = "notify"]
          /\ UNCHANGED <<val, cbs, told>>
      BY <1>1 DEF SetBegin
    <2>2. \A u \in Thread : InSet(u)' => u = t
      BY <2>1
    <2>3. cbs' \ todo'[t] = {}
      BY <2>1
    <2>4. \A id \in cbs : told[id] \in {NoVal, val}
      BY <2>1
    <2> QED
      BY <2>1, <2>2, <2>3, <2>4
  <1>2. CASE \E id \in Id : Notify(t, id)
    <2> SUFFICES ASSUME serial PROVE SerialInv'
      BY <1>2 DEF Notify
    <2>1. PICK j \in Id : Notify(t, j)
      BY <1>2
    <2>2. /\ told' = [told EXCEPT ![j] = arg[t]]
          /\ todo' = [todo EXCEPT ![t] = @ \ {j}]
          /\ UNCHANGED <<val, cbs, pc, arg>>
          /\ pc[t] = "notify"
      BY <2>1 DEF Notify
    <2>3. \A u \in Thread : InSet(u) => u = t
      BY <2>2
    <2>4. ASSUME NEW id \in cbs, id \notin todo'[t]
          PROVE  told'[id] \in {NoVal, arg[t]}
      <3>1. CASE id = j
        BY <2>2, <3>1
      <3>2. CASE id # j
        BY <2>2, <3>2, <2>4
      <3> QED
        BY <3>1, <3>2
    <2>5. ASSUME NEW id \in cbs, id \in todo'[t]
          PROVE  told'[id] \in {NoVal, val}
      BY <2>2, <2>3, <2>5
    <2> QED
      BY <2>2, <2>3, <2>4, <2>5
  <1>3. CASE ListenerThrows(t)
    BY <1>3 DEF ListenerThrows
  <1>4. CASE NotifyDone(t)
    BY <1>4 DEF NotifyDone
  <1>5. CASE StoreLock(t)
    BY <1>5 DEF StoreLock
  <1>6. CASE Store(t)
    BY <1>6 DEF Store
  <1>7. CASE GetValue(t) \/ CopyDone(t) \/ ToStringBegin(t) \/ ToStringEnd(t)
    <2>1. /\ UNCHANGED <<val, cbs, arg, todo, told, serial>>
          /\ ~InSet(t) /\ ~InSet(t)'
          /\ \A u \in Thread \ {t} : pc'[u] = pc[u]
      BY <1>7 DEF GetValue, CopyDone, ToStringBegin, ToStringEnd
    <2>2. \A u \in Thread : InSet(u)' <=> InSet(u)
      BY <2>1
    <2> QED
      BY <2>1, <2>2
  <1>8. CASE AddListener(t)
    <2>1. /\ cbs' = cbs \cup {funId + 1} /\ WrFree
          /\ funId + 1 \in Id
          /\ told' = [told EXCEPT ![funId + 1] = Found]
          /\ UNCHANGED <<val, pc, arg, todo, serial>>
      BY <1>8 DEF AddListener, NextId
    <2>2. CASE \E u \in Thread : InSet(u)
      <3>1. told'[funId + 1] = NoVal
        BY <2>1, <2>2 DEF Found
      <3> QED
        BY <2>1, <2>2, <3>1
    <2>3. CASE \A u \in Thread : ~InSet(u)
      <3>1. told'[funId + 1] = val
        BY <2>1, <2>3 DEF Found
      <3> QED
        BY <2>1, <2>3, <3>1
    <2> QED
      BY <2>2, <2>3
  <1>9. CASE (\E id \in Id : DelListenner(t, id)) \/ ClearListener(t)
    BY <1>9 DEF DelListenner, ClearListener
  <1> QED
    BY <1>1, <1>2, <1>3, <1>4, <1>5, <1>6, <1>7, <1>8, <1>9 DEF Step

(* What listeners were told stays split at the position of the loop that   *)
(* is running (config.h:298-303).                                          *)
THEOREM SerialInductive == Spec => []SerialInv
  <1>1. IInv /\ SerialInv /\ [Next]_vars => SerialInv'
    <2> SUFFICES ASSUME IInv, SerialInv, [Next]_vars PROVE SerialInv'
      OBVIOUS
    <2>1. CASE Next
      BY <2>1, NextIsStep, StepSerial
    <2>2. CASE UNCHANGED vars
      BY <2>2 DEF vars, history, SerialInv
    <2> QED
      BY <2>1, <2>2
  <1> QED
    BY <1>1, InitSerial, Inductive, PTL DEF Spec

(* Whenever no setValue is in progress, every registered listener knows    *)
(* the value of the variable, unless it registered behind the loop of the  *)
(* last setValue, as long as no two setValue calls have overlapped and no  *)
(* listener has thrown (config.h:291-304).  The run MCConfigVarRace shows  *)
(* that overlap breaks it.                                                 *)
THEOREM SerialAgreement == Spec => []SerialListenersAgree
  <1>1. SerialInv => SerialListenersAgree
    BY DEF SerialInv, SerialListenersAgree, ListenersAgreeAtRest
  <1> QED
    BY <1>1, SerialInductive, PTL
=============================================================================
