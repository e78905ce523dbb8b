---------------------------- MODULE ThreadProofs ----------------------------
(***************************************************************************)
(* Machine-checked proofs about Thread, for any number of objects: the     *)
(* handshake between the constructor and run() over m_semaphore.           *)
(***************************************************************************)
EXTENDS Thread, TLAPS

USE DEF Becomes

(* One step on behalf of one object. *)
Step(o) ==
  \/ Create(o)
  \/ CreateFails(o)
  \/ Constructed(o)
  \/ Join(o)
  \/ Joined(o)
  \/ Destroy(o)
  \/ SetUp(o)
  \/ Notify(o)
  \/ SetNameEnd(o)
  \/ SetNameBegin(o)
  \/ BodyReturns(o)

(* Before any constructor runs the handshake has not begun.                *)
LEMMA InitIInv == Init => IInv
  BY DEF Init, IInv, TypeOK, Handshake

(* A step for object o keeps o's constructor and thread in step with each  *)
(* other and leaves every other object alone.                              *)
LEMMA StepIInv ==
  ASSUME IInv, NEW o \in Objects, Step(o)
  PROVE  IInv'
  <1> USE DEF IInv, TypeOK, Handshake
  <1>1. CASE Create(o)
    BY <1>1 DEF Create
  <1>2. CASE CreateFails(o)
    BY <1>2 DEF CreateFails
  <1>3. CASE Constructed(o)
    BY <1>3 DEF Constructed
  <1>4. CASE Join(o)
    BY <1>4 DEF Join
  <1>5. CASE Joined(o)
    BY <1>5 DEF Joined
  <1>6. CASE Destroy(o)
    BY <1>6 DEF Destroy, Detach
  <1>7. CASE SetUp(o)
    BY <1>7 DEF SetUp
  <1>8. CASE Notify(o)
    BY <1>8 DEF Notify
  <1>9. CASE SetNameBegin(o) \/ SetNameEnd(o)
    <2>1. naming' \in [Objects -> BOOLEAN]
      BY <1>9, Zenon DEF SetNameBegin, SetNameEnd
    <2>2. UNCHANGED <<object, handle, run, semaphore, idSet, cbTaken, owner>>
      BY <1>9 DEF SetNameBegin, SetNameEnd
    <2>3. \A p \in Objects : naming'[p] => naming[p] \/ run[p] = "body"
      BY <1>9, Zenon DEF SetNameBegin, SetNameEnd
    <2> QED
      BY <2>1, <2>2, <2>3
  <1>10. CASE BodyReturns(o)
    BY <1>10 DEF BodyReturns
  <1> QED
    BY <1>1, <1>2, <1>3, <1>4, <1>5, <1>6, <1>7, <1>8, <1>9, <1>10 DEF Step

(* Constructor and run() stay in step (thread.cc:14-34, 51-62).            *)
THEOREM HandshakeInductive == Spec => []IInv
  <1>1. IInv /\ [Next]_vars => IInv'
    <2> SUFFICES ASSUME IInv, [Next]_vars PROVE IInv'
      OBVIOUS
    <2>1. CASE Next
      <3>1. PICK o \in Objects : Step(o)
        BY <2>1 DEF Next, RunStep, Step
      <3> QED
        BY <3>1, StepIInv
    <2>2. CASE UNCHANGED vars
      BY <2>2 DEF vars, IInv, TypeOK, Handshake
    <2> QED
      BY <2>1, <2>2
  <1> QED
    BY <1>1, InitIInv, PTL DEF Spec

(* When the constructor has returned, the thread's id is set and its       *)
(* callback taken over (thread.cc:19-23, 51-60).                           *)
THEOREM ReadySafe == Spec => []ReadyOnReturn
  <1>1. IInv => ReadyOnReturn
    BY DEF IInv, Handshake, ReadyOnReturn
  <1> QED
    BY <1>1, HandshakeInductive, PTL

(* run() uses the object only while its constructor waits for it           *)
(* (thread.cc:51-59).                                                      *)
THEOREM SetUpSafe == Spec => []SetUpUsesLiveObject
  <1>1. IInv => SetUpUsesLiveObject
    BY DEF IInv, Handshake, SetUpUsesLiveObject
  <1> QED
    BY <1>1, HandshakeInductive, PTL

(* No pthread is leaked (thread.cc:19-29).                                 *)
THEOREM NoThreadLeaked == Spec => []HandleReleased
  <1>1. IInv => HandleReleased
    BY DEF IInv, Handshake, HandleReleased
  <1> QED
    BY <1>1, HandshakeInductive, PTL

(* A thread that was joined writes to its object no more: only a detached  *)
(* one can meet a destroyed object (thread.cc:25-49).                      *)
THEOREM JoinedSafe == Spec => []JoinedIsQuiet
  <1>1. IInv => JoinedIsQuiet
    BY DEF IInv, TypeOK, Handshake, JoinedIsQuiet
  <1> QED
    BY <1>1, HandshakeInductive, PTL
=============================================================================
