-------------------------- MODULE LogSystemProofs --------------------------
(***************************************************************************)
(* Machine-checked proofs about Logger and LogSystem, for any number of    *)
(* threads, loggers and appenders.                                         *)
(*                                                                         *)
(* The first part is about Logger alone: the locks are exclusive,          *)
(* iterators stay valid, the fallback to the root logger happens only      *)
(* while the delegating logger has no appender, and the logs of one logger *)
(* agree on the order of its events.                                       *)
(*                                                                         *)
(* The second is about LogSystem.  Every step of the system is a step of   *)
(* Logger, or changes nothing Logger knows of: what was proved of the path *)
(* of an event holds in the composed system.  And the table gives each     *)
(* name one logger, as long as no two accesses of it overlap.              *)
(*                                                                         *)
(* The third is about a reload that meets an event.  The listener changes  *)
(* only the loggers of the names it was given, so a root that no reload    *)
(* names keeps its appender, and an event that finds its logger's list     *)
(* empty still is written there.                                           *)
(*                                                                         *)
(* The fourth is about what a reload leaves behind.  The listener's calls  *)
(* make every logger what the configuration says of its name, so an event  *)
(* that meets no reload goes to the configured appenders, once to each.    *)
(***************************************************************************)
EXTENDS LogSystem, SequenceLemmas, FiniteSetTheorems, TLAPS

USE DEF Where, config, call

(* One step of one thread. *)
Step(t) ==
  \/ \E l \in Loggers, sev \in Level : Macro(t, l, sev)
  \/ LogStep(t)
  \/ AdminStep(t)

(* std::list::erase leaves a list of appenders.                            *)
LEMMA RemoveAtType ==
  ASSUME NEW S, NEW s \in Seq(S), NEW i \in DOMAIN s
  PROVE  RemoveAt(s, i) \in Seq(S)
  <1>1. SubSeq(s, 1, i - 1) \in Seq(S)
    OBVIOUS
  <1>2. SubSeq(s, i + 1, Len(s)) \in Seq(S)
    OBVIOUS
  <1> QED
    BY <1>1, <1>2 DEF RemoveAt

(* The constructors establish the invariant.                               *)
LEMMA InitIInv == Init => IInv
  <1> SUFFICES ASSUME Init PROVE IInv
    OBVIOUS
  <1>1. TypeOK
    BY LoggerOK DEF Init, NewLevel, TypeOK
  <1>2. LockInv /\ FrameInv /\ FallbackStillDue
    BY LoggerOK DEF Init, LockInv, Holds, FrameInv, FallbackStillDue
  <1> QED
    BY <1>1, <1>2 DEF IInv

(* A thread that returns to the macro has no event, and the others go on.  *)
LEMMA FinishOne ==
  ASSUME IInv, NEW t \in Thread, Finish(t)
  PROVE  /\ pc' \in [Thread -> Where] /\ at' \in [Thread -> Loggers]
         /\ origin' \in [Thread -> Loggers] /\ event' \in [Thread -> Nat]
         /\ severity' \in [Thread -> Level] /\ pos' \in [Thread -> Nat \ {0}]
         /\ pc'[t] = "idle" /\ at'[t] = Root /\ origin'[t] = Root
         /\ \A u \in Thread \ {t} : /\ pc'[u] = pc[u] /\ at'[u] = at[u]
                                    /\ origin'[u] = origin[u] /\ pos'[u] = pos[u]
  BY LoggerOK DEF IInv, TypeOK, Finish

(* The root's log() that returns to the child's leaves the others alone.   *)
LEMMA ResumeOne ==
  ASSUME IInv, NEW t \in Thread, Refuse(t) \/ Leave(t), at[t] # origin[t]
  PROVE  /\ pc[t] \in {"enter", "leave"}
         /\ pc' = [pc EXCEPT ![t] = "leave"]
         /\ at' = [at EXCEPT ![t] = origin[t]]
         /\ lock' = lock \/ lock' = [lock EXCEPT ![at[t]] = NoThread]
         /\ UNCHANGED <<level, appenders, apLevel, origin, event, severity, pos,
                        target, events, out>>
  <1>1. Resume(t)
    BY DEF Refuse, Leave, Return
  <1>2. CASE Refuse(t)
    BY <1>1, <1>2 DEF Refuse, Resume
  <1>3. CASE Leave(t)
    BY <1>1, <1>3 DEF Leave, Resume
  <1> QED
    BY <1>2, <1>3

(* Type correctness is preserved by every step.                            *)
LEMMA StepTypeOK ==
  ASSUME IInv, NEW t \in Thread, Step(t)
  PROVE  TypeOK'
  <1> USE LoggerOK DEF IInv, TypeOK, Goto
  <1>1. CASE \E l \in Loggers, sev \in Level : Macro(t, l, sev)
    BY <1>1 DEF Macro
  <1>2. CASE Enter(t)
    BY <1>2 DEF Enter
  <1>3. CASE Acquire(t)
    BY <1>3 DEF Acquire
  <1>4. CASE Skip(t) \/ Accept(t)
    <2>1. /\ UNCHANGED <<config, lock, at, origin, event, severity, events, out>>
          /\ pc' = pc \/ pc' = [pc EXCEPT ![t] = "write"]
          /\ pos' = pos \/ pos' = [pos EXCEPT ![t] = @ + 1]
          /\ target' = target \/ target' = [target EXCEPT ![t] = Current(t)]
          /\ pos[t] <= Len(List(t))
      BY <1>4 DEF Skip, Accept
    <2>2. Current(t) \in Appender
      BY <2>1 DEF List, Current
    <2>3. target' \in [Thread -> Appender \cup {NoAppender}]
      BY <2>1, <2>2
    <2>4. pos[t] + 1 \in Nat \ {0}
      OBVIOUS
    <2>5. pos' \in [Thread -> Nat \ {0}]
      BY <2>1, <2>4
    <2>6. pc' \in [Thread -> Where]
      BY <2>1
    <2> QED
      BY <2>1, <2>3, <2>5, <2>6
  <1>5. CASE Write(t)
    <2>1. target[t] \in Appender
      <3>1. pos[t] <= Len(appenders[at[t]]) /\ target[t] = appenders[at[t]][pos[t]]
        BY <1>5 DEF Write, FrameInv, List, Current
      <3>2. appenders[at[t]] \in Seq(Appender) /\ pos[t] \in Nat \ {0}
        OBVIOUS
      <3> QED
        BY <3>1, <3>2
    <2>2. Append(out[target[t]], event[t]) \in Seq(Nat)
      BY <2>1
    <2>3. /\ out' = [out EXCEPT ![target[t]] = Append(@, event[t])]
          /\ pos' = [pos EXCEPT ![t] = @ + 1]
          /\ target' = [target EXCEPT ![t] = NoAppender]
          /\ pc' = [pc EXCEPT ![t] = "loop"]
          /\ UNCHANGED <<config, lock, at, origin, event, severity, events>>
      BY <1>5 DEF Write
    <2>4. out' \in [Appender -> Seq(Nat)]
      BY <2>2, <2>3
    <2>5. pos[t] + 1 \in Nat \ {0}
      OBVIOUS
    <2>6. pos' \in [Thread -> Nat \ {0}]
      BY <2>3, <2>5
    <2>7. target' \in [Thread -> Appender \cup {NoAppender}]
      BY <2>3
    <2>8. pc' \in [Thread -> Where]
      BY <2>3
    <2> QED
      BY <2>3, <2>4, <2>6, <2>7, <2>8
  <1>6. CASE LoopDone(t) \/ Delegate(t)
    <2>1. CASE LoopDone(t)
      BY <2>1 DEF LoopDone
    <2>2. CASE Delegate(t)
      BY <2>2 DEF Delegate
    <2> QED
      BY <1>6, <2>1, <2>2
  <1>7. CASE Refuse(t) \/ Leave(t)
    <2>1. CASE at[t] = origin[t]
      <3>1. Finish(t)
        BY <1>7, <2>1 DEF Refuse, Leave, Return
      <3>2. CASE Refuse(t)
        BY <3>1, <3>2, <2>1, FinishOne DEF Refuse
      <3>3. CASE Leave(t)
        BY <3>1, <3>3, <2>1, FinishOne DEF Leave
      <3> QED
        BY <1>7, <3>2, <3>3
    <2>2. CASE at[t] # origin[t]
      <3>1. /\ pc' = [pc EXCEPT ![t] = "leave"]
            /\ at' = [at EXCEPT ![t] = origin[t]]
            /\ lock' = lock \/ lock' = [lock EXCEPT ![at[t]] = NoThread]
            /\ UNCHANGED <<level, appenders, apLevel, origin, event, severity, pos,
                           target, events, out>>
        BY <1>7, <2>2, ResumeOne
      <3>2. pc' \in [Thread -> Where]
        BY <3>1
      <3>3. at' \in [Thread -> Loggers]
        BY <3>1
      <3>4. lock' \in [Loggers -> Thread \cup {NoThread}]
        BY <3>1
      <3> QED
        BY <3>1, <3>2, <3>3, <3>4
    <2> QED
      BY <2>1, <2>2
  <1>8. CASE \E l \in Loggers, sev \in Level : SetLevel(t, l, sev)
    BY <1>8 DEF SetLevel, Admin
  <1>9. CASE \E l \in Loggers, a \in Appender : AddAppender(t, l, a)
    <2>1. PICK l \in Loggers, a \in Appender : AddAppender(t, l, a)
      BY <1>9
    <2>2. appenders' = [appenders EXCEPT ![l] = Append(@, a)]
      BY <2>1 DEF AddAppender
    <2>3. Append(appenders[l], a) \in Seq(Appender)
      OBVIOUS
    <2>4. appenders' \in [Loggers -> Seq(Appender)]
      BY <2>2, <2>3
    <2> QED
      BY <2>1, <2>4 DEF AddAppender, Admin
  <1>10. CASE \E l \in Loggers, a \in Appender : DelAppender(t, l, a)
    <2>1. PICK l \in Loggers, a \in Appender : DelAppender(t, l, a)
      BY <1>10
    <2>2. PICK i \in DOMAIN appenders[l] :
            appenders' = [appenders EXCEPT ![l] = RemoveAt(@, i)]
      BY <2>1 DEF DelAppender
    <2>3. RemoveAt(appenders[l], i) \in Seq(Appender)
      BY RemoveAtType
    <2> QED
      BY <2>1, <2>2, <2>3 DEF DelAppender, Admin
  <1>11. CASE \E l \in Loggers : ClearAppender(t, l)
    BY <1>11 DEF ClearAppender, Admin
  <1>12. CASE \E a \in Appender, sev \in Level : SetAppenderLevel(t, a, sev)
    BY <1>12 DEF SetAppenderLevel
  <1> QED
    BY <1>1, <1>2, <1>3, <1>4, <1>5, <1>6, <1>7, <1>8, <1>9, <1>10, <1>11,
       <1>12 DEF Step, LogStep, AdminStep

(* A logger whose lock is free is nobody's: no thread iterates over its    *)
(* list or delegates for it.                                               *)
LEMMA FreeMeansUnused ==
  ASSUME IInv, NEW l \in Loggers, Free(l), NEW u \in Thread
  PROVE  /\ ~Holds(u, l)
         /\ pc[u] = "write" => at[u] # l
         /\ at[u] # origin[u] => origin[u] # l
  BY LoggerOK DEF IInv, LockInv, Free, Holds

(* Administration changes only lists whose lock is free, and no frame.     *)
LEMMA AdminSteps ==
  ASSUME IInv, NEW t \in Thread, AdminStep(t)
  PROVE  /\ \A l \in Loggers : ~Free(l) => appenders'[l] = appenders[l]
         /\ UNCHANGED <<lock, pc, at, origin, pos, target>>
  <1> USE LoggerOK DEF IInv, TypeOK
  <1>1. CASE \E l \in Loggers, sev \in Level : SetLevel(t, l, sev)
    BY <1>1 DEF SetLevel, Admin
  <1>2. CASE \E l \in Loggers, a \in Appender : AddAppender(t, l, a)
    BY <1>2 DEF AddAppender, Admin
  <1>3. CASE \E l \in Loggers, a \in Appender : DelAppender(t, l, a)
    <2>1. PICK l \in Loggers, a \in Appender : DelAppender(t, l, a)
      BY <1>3
    <2>2. PICK s : appenders' = [appenders EXCEPT ![l] = s]
      BY <2>1 DEF DelAppender
    <2> QED
      BY <2>1, <2>2 DEF DelAppender, Admin
  <1>4. CASE \E l \in Loggers : ClearAppender(t, l)
    BY <1>4 DEF ClearAppender, Admin
  <1>5. CASE \E a \in Appender, sev \in Level : SetAppenderLevel(t, a, sev)
    BY <1>5 DEF SetAppenderLevel
  <1> QED
    BY <1>1, <1>2, <1>3, <1>4, <1>5 DEF AdminStep

(* The lock variables keep saying who is inside which logger.              *)
LEMMA StepLockInv ==
  ASSUME IInv, NEW t \in Thread, Step(t)
  PROVE  LockInv'
  <1> USE LoggerOK DEF IInv, TypeOK, LockInv, Holds, Goto
  <1>1. CASE \E l \in Loggers, sev \in Level : Macro(t, l, sev)
    BY <1>1 DEF Macro, FrameInv
  <1>2. CASE Enter(t)
    BY <1>2 DEF Enter
  <1>4. CASE Acquire(t)
    BY <1>4 DEF Acquire, Free
  <1>5. CASE Skip(t)
    BY <1>5 DEF Skip
  <1>6. CASE Accept(t)
    BY <1>6 DEF Accept
  <1>7. CASE Write(t)
    BY <1>7 DEF Write
  <1>8. CASE LoopDone(t)
    BY <1>8 DEF LoopDone
  <1>9. CASE Delegate(t)
    BY <1>9 DEF Delegate, HasRoot, FallbackStillDue
  <1>10. CASE Refuse(t) \/ Leave(t)
    <2>1. CASE at[t] = origin[t]
      <3>1. Finish(t)
        BY <1>10, <2>1 DEF Refuse, Leave, Return
      <3>2. UNCHANGED <<appenders, target>>
        BY <1>10 DEF Refuse, Leave
      <3>3. \/ lock' = lock /\ pc[t] = "enter"
            \/ lock' = [lock EXCEPT ![at[t]] = NoThread] /\ pc[t] = "leave"
        BY <1>10 DEF Refuse, Leave
      <3>4. ASSUME NEW u \in Thread, u # t
            PROVE  /\ pc'[u] = pc[u] /\ at'[u] = at[u]
                   /\ origin'[u] = origin[u] /\ pos'[u] = pos[u]
        <4>1. \A v \in Thread \ {t} :
                /\ pc'[v] = pc[v] /\ at'[v] = at[v]
                /\ origin'[v] = origin[v] /\ pos'[v] = pos[v]
          BY <3>1, FinishOne
        <4> QED
          BY <3>4, <4>1
      <3>5. pc'[t] = "idle" /\ at'[t] = Root /\ origin'[t] = Root
        BY <3>1, FinishOne
      <3>6. ASSUME NEW l \in Loggers
            PROVE  (lock'[l] = t) <=> Holds(t, l)'
        <4>1. ~Holds(t, l)'
          BY <3>5
        <4>2. lock[l] = t => pc[t] = "leave" /\ l = at[t]
          BY <2>1, <3>3
        <4>3. lock'[l] # t
          BY <3>3, <4>2
        <4> QED
          BY <4>1, <4>3
      <3>7. ASSUME NEW u \in Thread, u # t, NEW l \in Loggers
            PROVE  (lock'[l] = u) <=> Holds(u, l)'
        <4>1. Holds(u, l)' <=> Holds(u, l)
          BY <3>4, <3>7
        <4>2. lock'[l] = u <=> lock[l] = u
          BY <2>1, <3>3, <3>7
        <4> QED
          BY <4>1, <4>2
      <3>8. ASSUME NEW u \in Thread, NEW l \in Loggers
            PROVE  (lock'[l] = u) <=> Holds(u, l)'
        <4>1. CASE u = t
          BY <3>6, <4>1
        <4>2. CASE u # t
          BY <3>7, <4>2
        <4> QED
          BY <4>1, <4>2
      <3> QED
        BY <3>8
    <2>2. CASE at[t] # origin[t]
      <3>1. CASE Refuse(t)
        <4>1. /\ UNCHANGED <<lock, origin>>
              /\ pc[t] = "enter" /\ pc' = [pc EXCEPT ![t] = "leave"]
              /\ at' = [at EXCEPT ![t] = origin[t]]
          BY <3>1, <2>2 DEF Refuse, Return, Resume
        <4>2. ASSUME NEW u \in Thread, NEW l \in Loggers
              PROVE  Holds(u, l)' <=> Holds(u, l)
          BY <2>2, <4>1
        <4> QED
          BY <4>1, <4>2
      <3>2. CASE Leave(t)
        BY <3>2, <2>2 DEF Leave, Return, Resume
      <3> QED
        BY <1>10, <3>1, <3>2
    <2> QED
      BY <2>1, <2>2
  <1>11. CASE AdminStep(t)
    BY SMTT(40), <1>11, AdminSteps
  <1> QED
    BY <1>1, <1>2, <1>4, <1>5, <1>6, <1>7, <1>8, <1>9, <1>10, <1>11
    DEF Step, LogStep

(* An iterator stays valid: the list under it does not change.             *)
LEMMA StepFrameInv ==
  ASSUME IInv, NEW t \in Thread, Step(t)
  PROVE  FrameInv'
  <1> USE LoggerOK DEF IInv, TypeOK, FrameInv, List, Current, Goto
  <1>1. CASE \E l \in Loggers, sev \in Level : Macro(t, l, sev)
    BY <1>1 DEF Macro
  <1>2. CASE Enter(t)
    BY <1>2 DEF Enter
  <1>3. CASE Acquire(t)
    BY <1>3 DEF Acquire
  <1>4. CASE Skip(t)
    BY <1>4 DEF Skip
  <1>5. CASE Accept(t)
    BY <1>5 DEF Accept
  <1>6. CASE Write(t)
    BY <1>6 DEF Write
  <1>7. CASE LoopDone(t) \/ Delegate(t)
    <2>1. CASE LoopDone(t)
      BY <2>1 DEF LoopDone
    <2>2. CASE Delegate(t)
      BY <2>2 DEF Delegate
    <2> QED
      BY <1>7, <2>1, <2>2
  <1>8. CASE Refuse(t) \/ Leave(t)
    <2>1. CASE at[t] = origin[t]
      <3>1. Finish(t)
        BY <1>8, <2>1 DEF Refuse, Leave, Return
      <3>2. UNCHANGED <<appenders, target>>
        BY <1>8 DEF Refuse, Leave
      <3>3. \/ lock' = lock /\ pc[t] = "enter"
            \/ lock' = [lock EXCEPT ![at[t]] = NoThread] /\ pc[t] = "leave"
        BY <1>8 DEF Refuse, Leave
      <3>4. ASSUME NEW u \in Thread, u # t
            PROVE  /\ pc'[u] = pc[u] /\ at'[u] = at[u]
                   /\ origin'[u] = origin[u] /\ pos'[u] = pos[u]
        <4>1. \A v \in Thread \ {t} :
                /\ pc'[v] = pc[v] /\ at'[v] = at[v]
                /\ origin'[v] = origin[v] /\ pos'[v] = pos[v]
          BY <3>1, FinishOne
        <4> QED
          BY <3>4, <4>1
      <3>5. pc'[t] = "idle" /\ at'[t] = Root /\ origin'[t] = Root
        BY <3>1, FinishOne
      <3>6. ASSUME NEW u \in Thread
            PROVE  /\ pc'[u] = "idle" => at'[u] = origin'[u]
                   /\ pc'[u] = "write" => /\ pos'[u] <= Len(List(u)')
                                          /\ target'[u] = Current(u)'
        <4>1. CASE u = t
          BY <4>1, <3>5
        <4>2. CASE u # t
          BY <4>2, <3>2, <3>4
        <4> QED
          BY <4>1, <4>2
      <3> QED
        BY <3>6
    <2>2. CASE at[t] # origin[t]
      <3>1. /\ pc' = [pc EXCEPT ![t] = "leave"]
            /\ at' = [at EXCEPT ![t] = origin[t]]
            /\ UNCHANGED <<appenders, origin, pos, target>>
        BY <1>8, <2>2, ResumeOne
      <3>2. ASSUME NEW u \in Thread
            PROVE  /\ pc'[u] = "idle" => at'[u] = origin'[u]
                   /\ pc'[u] = "write" => /\ pos'[u] <= Len(List(u)')
                                          /\ target'[u] = Current(u)'
        <4>1. CASE u = t
          BY <3>1, <4>1
        <4>2. CASE u # t
          BY <3>1, <4>2
        <4> QED
          BY <4>1, <4>2
      <3> QED
        BY <3>2
    <2> QED
      BY <2>1, <2>2
  <1>9. CASE AdminStep(t)
    <2>1. \A u \in Thread : pc[u] = "write" => appenders'[at[u]] = appenders[at[u]]
      BY <1>9, AdminSteps, FreeMeansUnused
    <2>2. UNCHANGED <<pc, at, origin, pos, target>>
      BY <1>9, AdminSteps
    <2> QED
      BY <2>1, <2>2
  <1> QED
    BY <1>1, <1>2, <1>3, <1>4, <1>5, <1>6, <1>7, <1>8, <1>9 DEF Step, LogStep

(* A logger that delegates keeps its empty list until the root is done.    *)
LEMMA StepFallback ==
  ASSUME IInv, NEW t \in Thread, Step(t)
  PROVE  FallbackStillDue'
  <1> USE LoggerOK DEF IInv, TypeOK, FallbackStillDue, Goto
  <1>1. CASE \E l \in Loggers, sev \in Level : Macro(t, l, sev)
    BY <1>1 DEF Macro
  <1>2. CASE Enter(t)
    BY <1>2 DEF Enter
  <1>3. CASE Acquire(t)
    BY <1>3 DEF Acquire
  <1>4. CASE Skip(t) \/ Accept(t)
    BY <1>4 DEF Skip, Accept
  <1>5. CASE Write(t) \/ LoopDone(t)
    BY <1>5 DEF Write, LoopDone
  <1>6. CASE Delegate(t)
    BY <1>6 DEF Delegate, HasRoot, List
  <1>7. CASE Refuse(t) \/ Leave(t)
    <2>1. CASE at[t] = origin[t]
      <3>1. Finish(t)
        BY <1>7, <2>1 DEF Refuse, Leave, Return
      <3>2. UNCHANGED <<appenders, target>>
        BY <1>7 DEF Refuse, Leave
      <3>3. \/ lock' = lock /\ pc[t] = "enter"
            \/ lock' = [lock EXCEPT ![at[t]] = NoThread] /\ pc[t] = "leave"
        BY <1>7 DEF Refuse, Leave
      <3>4. ASSUME NEW u \in Thread, u # t
            PROVE  /\ pc'[u] = pc[u] /\ at'[u] = at[u]
                   /\ origin'[u] = origin[u] /\ pos'[u] = pos[u]
        <4>1. \A v \in Thread \ {t} :
                /\ pc'[v] = pc[v] /\ at'[v] = at[v]
                /\ origin'[v] = origin[v] /\ pos'[v] = pos[v]
          BY <3>1, FinishOne
        <4> QED
          BY <3>4, <4>1
      <3>5. pc'[t] = "idle" /\ at'[t] = Root /\ origin'[t] = Root
        BY <3>1, FinishOne
      <3> QED
        <4>1. ASSUME NEW u \in Thread, at'[u] # origin'[u]
              PROVE  at'[u] = Root /\ appenders'[origin'[u]] = <<>>
          <5>1. u # t
            BY <3>5, <4>1
          <5>2. at[u] # origin[u] /\ at'[u] = at[u] /\ origin'[u] = origin[u]
            BY <3>4, <4>1, <5>1
          <5> QED
            BY <3>2, <5>2
        <4> QED
          BY <4>1
    <2>2. CASE at[t] # origin[t]
      BY <1>7, <2>2, ResumeOne
    <2> QED
      BY <2>1, <2>2
  <1>8. CASE AdminStep(t)
    <2>1. \A u \in Thread :
            at[u] # origin[u] => appenders'[origin[u]] = appenders[origin[u]]
      BY <1>8, AdminSteps, FreeMeansUnused
    <2>2. UNCHANGED <<at, origin>>
      BY <1>8, AdminSteps
    <2> QED
      BY <2>1, <2>2
  <1> QED
    BY <1>1, <1>2, <1>3, <1>4, <1>5, <1>6, <1>7, <1>8 DEF Step, LogStep

(* The invariant is inductive. *)
LEMMA NextIInv == IInv /\ [Next]_vars => IInv'
  <1> SUFFICES ASSUME IInv, [Next]_vars PROVE IInv'
    OBVIOUS
  <1>1. CASE Next
    <2>1. PICK t \in Thread : Step(t)
      BY <1>1 DEF Next, Step
    <2> QED
      BY <2>1, StepTypeOK, StepLockInv, StepFrameInv, StepFallback DEF IInv
  <1>2. CASE UNCHANGED vars
    BY <1>2 DEF vars, IInv, TypeOK, LockInv, Holds, FrameInv, List,
                Current, FallbackStillDue
  <1> QED
    BY <1>1, <1>2

-----------------------------------------------------------------------------
(* Locks, iterators and delegation are consistent in every reachable state *)
(* of the logging path (log.cc:206-235).                                   *)
THEOREM LoggerInductive == Spec => []IInv
  BY InitIInv, NextIInv, PTL DEF Spec

(* The root logger writes for another logger only while that logger has no *)
(* appender of its own (log.cc:226-233).                                   *)
THEOREM FallbackSafe == Spec => []FallbackStillDue
  <1>1. IInv => FallbackStillDue
    BY DEF IInv
  <1> QED
    BY <1>1, LoggerInductive, PTL

(* Every write goes to an appender that is attached at that moment, so a   *)
(* removed appender is never written to (log.cc:206-235, log.h:258-261).   *)
THEOREM RemovalIsFinal == Spec => OnlyAttachedWrite
  <1>1. IInv /\ [Next]_vars =>
          [\A a \in Appender : out'[a] # out[a] => Attached(a)]_vars
    <2> SUFFICES ASSUME IInv, Next, NEW a \in Appender, out'[a] # out[a]
                 PROVE  Attached(a)
      OBVIOUS
    <2>1. PICK t \in Thread : Step(t)
      BY DEF Next, Step
    <2>2. Write(t)
      BY <2>1 DEF Step, LogStep, AdminStep, Macro, Enter, Refuse, Acquire, Skip,
                  Accept, LoopDone, Delegate, Leave, SetLevel, AddAppender,
                  DelAppender, ClearAppender, SetAppenderLevel, Admin
    <2>3. a = Current(t)
      BY <2>2 DEF Write, Goto, IInv, TypeOK, FrameInv
    <2>4. pos[t] \in DOMAIN appenders[at[t]]
      BY <2>2 DEF Write, Goto, IInv, TypeOK, FrameInv, List
    <2> QED
      BY <2>3, <2>4 DEF Attached, Current, List, IInv, TypeOK
  <1> QED
    BY <1>1, LoggerInductive, PTL DEF Spec, OnlyAttachedWrite

-----------------------------------------------------------------------------
(* The order of events.  A call of log() writes its event to the appenders *)
(* of one logger, under that logger's lock.  When no appender belongs to   *)
(* two loggers, the writers of an appender take turns, and the event being *)
(* written is the last one in every appender that has it.                  *)

Active(t) == pc[t] # "idle"
Inside(t) == pc[t] \in {"loop", "write"}

Wrote(a, e) == \E i \in 1..Len(out[a]) : out[a][i] = e

(* Every call has an event of its own, and appenders have only events.     *)
CallInv ==
  /\ \A t \in Thread : Active(t) => event[t] \in 1..events
  /\ \A t, u \in Thread : t # u /\ Active(t) /\ Active(u) => event[t] # event[u]
  /\ \A a \in Appender : \A i \in 1..Len(out[a]) : out[a][i] \in 1..events

(* Appenders are where they may be.                                        *)
HomeInv ==
  \A l \in Loggers : \A i \in 1..Len(appenders[l]) : l \in Homes[appenders[l][i]]

(* Before it has the lock, a call has written nothing, ...                 *)
FreshInv ==
  \A t \in Thread : pc[t] \in {"enter", "wait"} =>
    \A a \in Appender : ~Wrote(a, event[t])

(* ... and with the lock only to the logger's own appenders, as the last   *)
(* one that did.                                                           *)
InsideInv ==
  \A t \in Thread : Inside(t) =>
    \A a \in Appender :
      /\ Wrote(a, event[t]) => at[t] \in Homes[a] /\ List(t) # <<>>
      /\ \A i, j \in 1..Len(out[a]) :
           i < j /\ out[a][i] = event[t] => out[a][j] = event[t]

OrderInv == CallInv /\ HomeInv /\ FreshInv /\ InsideInv /\ SameOrder

(* The constructors establish it.                                          *)
LEMMA InitOrderInv == Init => OrderInv
  <1> SUFFICES ASSUME Init PROVE OrderInv
    OBVIOUS
  <1>1. CallInv /\ FreshInv /\ InsideInv /\ SameOrder
    BY DEF Init, CallInv, FreshInv, InsideInv, SameOrder, Before, Active, Inside
  <1>2. HomeInv
    BY LoggerOK DEF Init, HomeInv
  <1> QED
    BY <1>1, <1>2 DEF OrderInv

(* A thread that neither begins a call nor writes.                         *)
Calm(u) ==
  pc'[u] # "idle" =>
    /\ Active(u) /\ event'[u] = event[u]
    /\ pc'[u] \in {"enter", "wait"} =>
         pc[u] \in {"enter", "wait"} \/ (Inside(u) /\ List(u) = <<>>)
    /\ pc'[u] \in {"loop", "write"} =>
         pc[u] = "wait" \/ (Inside(u) /\ at'[u] = at[u] /\ List(u)' = List(u))

(* A step that writes nothing keeps the order if no call under way loses   *)
(* ground.                                                                 *)
LEMMA CalmStep ==
  ASSUME IInv, OrderInv, HomeInv', UNCHANGED <<out, events>>,
         \A u \in Thread : Calm(u)
  PROVE  OrderInv'
  <1> USE DEF OrderInv, Calm, Active, Wrote
  <1>1. CallInv'
    BY DEF CallInv
  <1>2. FreshInv'
    BY DEF FreshInv, InsideInv
  <1>3. InsideInv'
    <2> SUFFICES ASSUME NEW u \in Thread, Inside(u)', NEW a \in Appender
                 PROVE  /\ Wrote(a, event[u])' => at'[u] \in Homes[a] /\ List(u)' # <<>>
                        /\ \A i, j \in 1..Len(out'[a]) :
                             i < j /\ out'[a][i] = event'[u] => out'[a][j] = event'[u]
      BY DEF InsideInv
    <2>1. event'[u] = event[u] /\ Active(u)
      BY DEF Inside
    <2>2. CASE pc[u] = "wait"
      <3>1. ~Wrote(a, event[u])
        BY <2>2 DEF FreshInv
      <3> QED
        BY <2>1, <3>1
    <2>3. CASE Inside(u) /\ at'[u] = at[u] /\ List(u)' = List(u)
      BY <2>1, <2>3 DEF InsideInv
    <2> QED
      BY <2>2, <2>3 DEF Inside
  <1>4. SameOrder'
    BY DEF SameOrder, Before
  <1> QED
    BY <1>1, <1>2, <1>3, <1>4

(* What is left of a list has the list's elements.                         *)
LEMMA RemoveAtElements ==
  ASSUME NEW S, NEW s \in Seq(S), NEW i \in DOMAIN s,
         NEW j \in 1..Len(RemoveAt(s, i))
  PROVE  \E n \in 1..Len(s) : RemoveAt(s, i)[j] = s[n]
  <1>1. SubSeq(s, 1, i - 1) \in Seq(S) /\ SubSeq(s, i + 1, Len(s)) \in Seq(S)
    OBVIOUS
  <1>2. CASE j <= i - 1
    <2>1. RemoveAt(s, i)[j] = s[j] /\ j \in 1..Len(s)
      BY <1>1, <1>2 DEF RemoveAt
    <2> QED
      BY <2>1
  <1>3. CASE j > i - 1
    <2> DEFINE f == SubSeq(s, 1, i - 1)
               g == SubSeq(s, i + 1, Len(s))
    <2>1. Len(f) = i - 1 /\ Len(g) = Len(s) - i
      OBVIOUS
    <2>9. \A k \in 1..(Len(s) - i) : g[k] = s[i + k]
      OBVIOUS
    <2>2. f \in Seq(S) /\ g \in Seq(S) /\ RemoveAt(s, i) = f \o g
      BY <1>1 DEF RemoveAt
    <2>3. Len(s) \in Nat /\ i \in 1..Len(s)
      OBVIOUS
    <2> HIDE DEF f, g
    <2>4. j \in 1..(Len(s) - 1)
      BY <2>1, <2>2, <2>3
    <2>5. (f \o g)[j] = g[j - Len(f)]
      <3>1. j \in (Len(f) + 1)..(Len(f) + Len(g))
        BY <1>3, <2>1, <2>3, <2>4
      <3> QED
        BY <2>2, <3>1
    <2>6. j - (i - 1) \in 1..(Len(s) - i) /\ i + (j - (i - 1)) = j + 1
      BY <1>3, <2>3, <2>4
    <2>7. RemoveAt(s, i)[j] = s[i + (j - (i - 1))]
      BY <2>1, <2>2, <2>5, <2>6, <2>9
    <2>8. j + 1 \in 1..Len(s)
      BY <2>3, <2>4
    <2> QED
      BY <2>6, <2>7, <2>8
  <1> QED
    BY <1>2, <1>3

(* An appender is only ever in the lists of its homes.                     *)
LEMMA StepHomeInv ==
  ASSUME IInv, HomeInv, NEW t \in Thread, Step(t)
  PROVE  HomeInv'
  <1> USE DEF HomeInv, IInv, TypeOK
  <1>1. CASE \E l \in Loggers, a \in Appender : AddAppender(t, l, a)
    <2>1. PICK l \in Loggers, a \in Appender : AddAppender(t, l, a)
      BY <1>1
    <2>2. /\ appenders' = [appenders EXCEPT ![l] = Append(@, a)]
          /\ l \in Homes[a]
      BY <2>1 DEF AddAppender
    <2>3. ASSUME NEW i \in 1..Len(Append(appenders[l], a))
          PROVE  l \in Homes[Append(appenders[l], a)[i]]
      <3>1. appenders[l] \in Seq(Appender)
        OBVIOUS
      <3>2. CASE i = Len(appenders[l]) + 1
        <4>1. Append(appenders[l], a)[i] = a
          BY <3>1, <3>2
        <4> QED
          BY <2>2, <4>1
      <3>3. CASE i # Len(appenders[l]) + 1
        <4>1. /\ i \in 1..Len(appenders[l])
              /\ Append(appenders[l], a)[i] = appenders[l][i]
          BY <2>3, <3>1, <3>3
        <4> QED
          BY <4>1
      <3> QED
        BY <3>2, <3>3
    <2>4. ASSUME NEW m \in Loggers, NEW i \in 1..Len(appenders'[m])
          PROVE  m \in Homes[appenders'[m][i]]
      <3>1. CASE m = l
        BY <2>2, <2>3, <3>1
      <3>2. CASE m # l
        BY <2>2, <3>2
      <3> QED
        BY <3>1, <3>2
    <2> QED
      BY <2>4
  <1>2. CASE \E l \in Loggers, a \in Appender : DelAppender(t, l, a)
    <2>1. PICK l \in Loggers, a \in Appender : DelAppender(t, l, a)
      BY <1>2
    <2>2. PICK i \in DOMAIN appenders[l] :
            appenders' = [appenders EXCEPT ![l] = RemoveAt(@, i)]
      BY <2>1 DEF DelAppender
    <2>3. ASSUME NEW j \in 1..Len(RemoveAt(appenders[l], i))
          PROVE  l \in Homes[RemoveAt(appenders[l], i)[j]]
      <3>1. appenders[l] \in Seq(Appender)
        OBVIOUS
      <3>2. PICK n \in 1..Len(appenders[l]) : RemoveAt(appenders[l], i)[j] = appenders[l][n]
        BY <3>1, RemoveAtElements
      <3> QED
        BY <3>2
    <2> QED
      BY <2>2, <2>3
  <1>3. CASE \E l \in Loggers : ClearAppender(t, l)
    BY <1>3 DEF ClearAppender
  <1>4. CASE UNCHANGED appenders
    BY <1>4
  <1> QED
    BY <1>1, <1>2, <1>3, <1>4
    DEF Step, LogStep, AdminStep, Macro, Enter, Refuse, Acquire, Skip, Accept,
        Write, LoopDone, Delegate, Leave, SetLevel, SetAppenderLevel

(* A new event is in no appender, and no other call has it.                *)
LEMMA MacroOrder ==
  ASSUME IInv, OrderInv, NEW t \in Thread,
         NEW l \in Loggers, NEW sev \in Level, Macro(t, l, sev)
  PROVE  OrderInv'
  <1>1. /\ events' = events + 1 /\ events \in Nat
        /\ UNCHANGED <<out, appenders>>
    BY DEF Macro, IInv, TypeOK
  <1>2. pc'[t] = "enter" /\ event'[t] = events + 1
    BY DEF Macro, Goto, IInv, TypeOK
  <1>3. ASSUME NEW u \in Thread, u # t
        PROVE  pc'[u] = pc[u] /\ event'[u] = event[u] /\ at'[u] = at[u]
    BY <1>3 DEF Macro, Goto, IInv, TypeOK
  <1>4. CallInv /\ HomeInv /\ FreshInv /\ InsideInv /\ SameOrder
    BY DEF OrderInv
  <1>5. \A u \in Thread : Active(u) => event[u] \in 1..events
    BY <1>4 DEF CallInv
  <1>6. CallInv'
    <2>1. ASSUME NEW u \in Thread, Active(u)'
          PROVE  event'[u] \in 1..events'
      <3>1. CASE u = t
        BY <1>1, <1>2, <3>1
      <3>2. CASE u # t
        BY <1>1, <1>3, <1>5, <2>1, <3>2 DEF Active
      <3> QED
        BY <3>1, <3>2
    <2>2. ASSUME NEW u \in Thread, NEW w \in Thread, u # w, Active(u)', Active(w)'
          PROVE  event'[u] # event'[w]
      <3>1. CASE u # t /\ w # t
        BY <1>3, <1>4, <2>2, <3>1 DEF CallInv, Active
      <3>2. CASE u = t
        <4>1. event[w] \in 1..events /\ event'[w] = event[w]
          BY <1>3, <1>5, <2>2, <3>2 DEF Active
        <4> QED
          BY <1>1, <1>2, <3>2, <4>1
      <3>3. CASE w = t
        <4>1. event[u] \in 1..events /\ event'[u] = event[u]
          BY <1>3, <1>5, <2>2, <3>3 DEF Active
        <4> QED
          BY <1>1, <1>2, <3>3, <4>1
      <3> QED
        BY <3>1, <3>2, <3>3
    <2>3. \A a \in Appender : \A i \in 1..Len(out'[a]) : out'[a][i] \in 1..events'
      BY <1>1, <1>4 DEF CallInv
    <2> QED
      BY <2>1, <2>2, <2>3 DEF CallInv
  <1>7. FreshInv'
    <2> SUFFICES ASSUME NEW u \in Thread, pc'[u] \in {"enter", "wait"},
                        NEW a \in Appender
                 PROVE  ~Wrote(a, event'[u])
      BY <1>1 DEF FreshInv, Wrote
    <2>1. CASE u = t
      <3>1. ~Wrote(a, events + 1)
        BY <1>1, <1>4 DEF CallInv, Wrote
      <3> QED
        BY <1>2, <2>1, <3>1
    <2>2. CASE u # t
      BY <1>3, <1>4, <2>2 DEF FreshInv
    <2> QED
      BY <2>1, <2>2
  <1>8. InsideInv'
    <2>1. \A u \in Thread : Inside(u)' => /\ Inside(u) /\ event'[u] = event[u]
                                        /\ at'[u] = at[u] /\ List(u)' = List(u)
      BY <1>1, <1>2, <1>3 DEF Inside, List
    <2> QED
      BY <1>1, <1>4, <2>1 DEF InsideInv, Wrote
  <1>9. SameOrder'
    <2> SUFFICES ASSUME NEW a \in Appender, NEW b \in Appender,
                        NEW e \in 1..events', NEW f \in 1..events',
                        Before(a, e, f)', Before(b, f, e)', e # f
                 PROVE  FALSE
      BY DEF SameOrder
    <2>0. Before(a, e, f) /\ Before(b, f, e)
      BY <1>1 DEF Before
    <2>1. e \in 1..events /\ f \in 1..events
      BY <1>4, <2>0 DEF Before, CallInv
    <2> QED
      BY <1>4, <2>0, <2>1 DEF SameOrder
  <1>10. HomeInv'
    BY <1>1, <1>4 DEF HomeInv
  <1> QED
    BY <1>6, <1>7, <1>8, <1>9, <1>10 DEF OrderInv

(* Every appender belongs to one logger, as those that LogIniter makes do. *)
OneHome == \A a \in Appender : \A l, m \in Homes[a] : l = m

(* The event that is written comes after all others in its appender, and   *)
(* no other writer has begun with this appender.                           *)
LEMMA WriteOrder ==
  ASSUME OneHome, IInv, OrderInv, NEW t \in Thread, Write(t), HomeInv'
  PROVE  OrderInv'
  <1> USE DEF OrderInv
  <1> DEFINE c == Current(t)
             e == event[t]
  <1>1. /\ pc[t] = "write" /\ List(t) # <<>> /\ at[t] \in Loggers
        /\ c \in Appender /\ at[t] \in Homes[c] /\ target[t] = c
    <2>1. /\ pc[t] = "write" /\ pos[t] \in 1..Len(List(t)) /\ target[t] = c
          /\ List(t) \in Seq(Appender) /\ at[t] \in Loggers
      BY DEF Write, Goto, IInv, FrameInv, TypeOK, List
    <2>2. c \in Appender /\ at[t] \in Homes[c] /\ List(t) # <<>>
      BY <2>1 DEF Current, HomeInv, List
    <2> QED
      BY <2>1, <2>2
  <1>2. /\ UNCHANGED <<appenders, at, event, events>>
        /\ pc'[t] = "loop" /\ \A u \in Thread \ {t} : pc'[u] = pc[u]
    BY DEF Write, Goto, IInv, TypeOK
  <1>3. /\ \A a \in Appender : out[a] \in Seq(Nat)
        /\ out'[c] = Append(out[c], e) /\ \A a \in Appender \ {c} : out'[a] = out[a]
        /\ e \in 1..events
    BY <1>1 DEF Write, IInv, TypeOK, CallInv, Active
  <1> HIDE DEF c, e
  <1>4. /\ Len(out'[c]) = Len(out[c]) + 1 /\ out'[c][Len(out[c]) + 1] = e
        /\ \A i \in 1..Len(out[c]) : out'[c][i] = out[c][i]
        /\ Len(out[c]) \in Nat
    BY <1>1, <1>3
  <1>12. ASSUME NEW a \in Appender, NEW i \in 1..Len(out'[a])
         PROVE  \/ i \in 1..Len(out[a]) /\ out'[a][i] = out[a][i]
                \/ a = c /\ i = Len(out[c]) + 1 /\ out'[a][i] = e
    <2>1. CASE a = c
      BY <1>4, <1>12, <2>1
    <2>2. CASE a # c
      BY <1>3, <1>12, <2>2
    <2> QED
      BY <2>1, <2>2
  <1>5. \A u \in Thread : (Active(u)' <=> Active(u)) /\ (Inside(u)' <=> Inside(u))
    BY <1>1, <1>2 DEF Active, Inside
  <1>6. \A u \in Thread \ {t} : Active(u) => event[u] # e
    BY <1>1, <1>5 DEF CallInv, e, Active
  <1>7. CallInv'
    <2>1. ASSUME NEW a \in Appender, NEW i \in 1..Len(out'[a])
          PROVE  out'[a][i] \in 1..events
      <3>1. \A k \in 1..Len(out[a]) : out[a][k] \in 1..events
        BY DEF CallInv
      <3> QED
        BY <1>3, <1>12, <3>1
    <2> QED
      BY <1>2, <1>5, <2>1 DEF CallInv
  <1>8. ASSUME NEW a \in Appender, NEW f, f # e, NEW i \in 1..Len(out'[a]),
               out'[a][i] = f
        PROVE  Wrote(a, f)
    <2>1. i \in 1..Len(out[a]) /\ out'[a][i] = out[a][i]
      BY <1>8, <1>12
    <2> QED
      BY <1>8, <2>1 DEF Wrote
  <1>9. FreshInv'
    <2> SUFFICES ASSUME NEW u \in Thread, pc'[u] \in {"enter", "wait"},
                        NEW a \in Appender
                 PROVE  ~Wrote(a, event[u])'
      BY <1>2 DEF FreshInv, Wrote
    <2>1. u # t /\ pc[u] \in {"enter", "wait"}
      BY <1>2
    <2>2. event[u] # e /\ ~Wrote(a, event[u])
      BY <1>6, <2>1 DEF FreshInv, Active
    <2>3. \A i \in 1..Len(out'[a]) : out'[a][i] # event[u]
      BY <1>8, <2>2
    <2> QED
      BY <1>2, <2>3 DEF Wrote
  <1>10. InsideInv'
    <2> SUFFICES ASSUME NEW u \in Thread, Inside(u), NEW a \in Appender
                 PROVE  /\ Wrote(a, event[u])' => at[u] \in Homes[a] /\ List(u) # <<>>
                        /\ \A i, j \in 1..Len(out'[a]) :
                             i < j /\ out'[a][i] = event[u] => out'[a][j] = event[u]
      BY <1>2, <1>5 DEF InsideInv, List
    <2>1. CASE u = t
      <3>1. Wrote(a, e)' => at[t] \in Homes[a] /\ List(t) # <<>>
        <4>1. CASE a = c
          BY <1>1, <4>1
        <4>2. CASE a # c
          BY <1>2, <1>3, <2>1, <4>2 DEF Wrote, InsideInv, e
        <4> QED
          BY <4>1, <4>2
      <3>2. ASSUME NEW i \in 1..Len(out'[a]), NEW j \in 1..Len(out'[a]),
                   i < j, out'[a][i] = e
            PROVE  out'[a][j] = e
        <4>1. CASE a = c /\ j = Len(out[c]) + 1
          BY <1>4, <4>1
        <4>2. CASE ~(a = c /\ j = Len(out[c]) + 1)
          <5>1. /\ i \in 1..Len(out[a]) /\ j \in 1..Len(out[a])
                /\ out'[a][i] = out[a][i] /\ out'[a][j] = out[a][j]
            <6>1. /\ i \in 1..Len(out[a]) /\ out'[a][i] = out[a][i]
                  /\ i \in Nat /\ j \in Nat
              BY <1>4, <1>12, <3>2, <4>2
            <6>2. j \in 1..Len(out[a]) /\ out'[a][j] = out[a][j]
              BY <1>12, <4>2
            <6> QED
              BY <6>1, <6>2
          <5> QED
            BY <2>1, <3>2, <5>1 DEF InsideInv, e
        <4> QED
          BY <4>1, <4>2
      <3>3. event[u] = e /\ event'[u] = e
        BY <1>2, <2>1 DEF e
      <3>4. Wrote(a, event[u])' <=> Wrote(a, e)'
        BY <1>2, <2>1 DEF Wrote, e
      <3> QED
        BY <2>1, <3>1, <3>2, <3>3, <3>4
    <2>2. CASE u # t
      <3>1. event[u] # e /\ event'[u] = event[u]
        BY <1>2, <1>6, <2>2 DEF Active, Inside
      <3>2. CASE a # c
        <4>1. out'[a] = out[a]
          BY <1>3, <3>2
        <4>2. Wrote(a, event[u])' <=> Wrote(a, event[u])
          BY <3>1, <4>1 DEF Wrote
        <4> QED
          BY <4>1, <4>2 DEF InsideInv
      <3>3. CASE a = c
        <4>1. ~Wrote(c, event[u])
          <5>1. SUFFICES ASSUME at[u] \in Homes[c] PROVE FALSE
            BY <1>1 DEF InsideInv
          <5>2. at[u] = at[t]
            BY <1>1, <5>1 DEF OneHome
          <5>3. lock[at[t]] = u /\ lock[at[t]] = t
            BY <1>1, <5>2 DEF IInv, LockInv, Holds, Inside
          <5> QED
            BY <2>2, <5>3
        <4>2. \A i \in 1..Len(out'[c]) : out'[c][i] # event[u]
          BY <1>1, <1>8, <3>1, <4>1
        <4>3. ~Wrote(a, event[u])'
          BY <3>1, <3>3, <4>2 DEF Wrote
        <4> QED
          BY <3>3, <4>2, <4>3
      <3> QED
        BY <3>2, <3>3
    <2> QED
      BY <2>1, <2>2
  <1>11. SameOrder'
    <2> SUFFICES ASSUME NEW a \in Appender, NEW b \in Appender,
                        NEW f \in 1..events, NEW g \in 1..events,
                        Before(a, f, g)', Before(b, g, f)', f # g
                 PROVE  FALSE
      BY <1>2 DEF SameOrder
    <2>1. ASSUME NEW d \in Appender, NEW x \in 1..events, NEW y \in 1..events,
                 Before(d, x, y)', x # y
          PROVE  x # e /\ (y # e => Before(d, x, y))
      <3>1. PICK i, j \in 1..Len(out'[d]) :
              i < j /\ out'[d][i] = x /\ out'[d][j] = y
        BY <2>1 DEF Before
      <3>2. x # e
        BY <1>1, <1>10, <1>2, <1>5, <2>1, <3>1 DEF InsideInv, Inside, e
      <3>3. ASSUME y # e PROVE Before(d, x, y)
        <4>1. /\ i \in 1..Len(out[d]) /\ j \in 1..Len(out[d])
              /\ out'[d][i] = out[d][i] /\ out'[d][j] = out[d][j]
          <5>1. j \in 1..Len(out[d]) /\ out'[d][j] = out[d][j]
            BY <1>12, <3>1, <3>3
          <5>2. i \in 1..Len(out[d]) /\ out'[d][i] = out[d][i]
            BY <1>12, <3>1, <3>2
          <5> QED
            BY <5>1, <5>2
        <4> QED
          BY <3>1, <4>1 DEF Before
      <3> QED
        BY <3>2, <3>3
    <2>2. f # e /\ g # e
      BY <2>1
    <2> QED
      BY <2>1, <2>2 DEF SameOrder
  <1> QED
    BY <1>7, <1>9, <1>10, <1>11

(* Every step of a thread preserves the order, ...                         *)
LEMMA StepOrder ==
  ASSUME OneHome, IInv, OrderInv, NEW t \in Thread, Step(t)
  PROVE  OrderInv'
  <1> USE DEF IInv, TypeOK
  <1>1. HomeInv'
    BY StepHomeInv DEF OrderInv
  <1>2. CASE \E l \in Loggers, sev \in Level : Macro(t, l, sev)
    BY <1>2, MacroOrder
  <1>3. CASE Write(t)
    BY <1>1, <1>3, WriteOrder
  <1>4. CASE LogStep(t) /\ ~Write(t)
    <2>1. UNCHANGED <<out, events, appenders>>
      BY <1>4 DEF LogStep, Enter, Refuse, Acquire, Skip, Accept, LoopDone,
                  Delegate, Leave
    <2>2. ASSUME NEW u \in Thread, u # t
          PROVE  pc'[u] = pc[u] /\ event'[u] = event[u] /\ at'[u] = at[u]
      BY <1>4, <2>2 DEF LogStep, Enter, Refuse, Acquire, Skip, Accept, LoopDone,
                        Delegate, Leave, Goto, Return, Finish, Resume
    <2>3. \A u \in Thread \ {t} : Calm(u)
      BY <2>1, <2>2 DEF Calm, Active, Inside, List
    <2>4. Calm(t)
      <3>1. CASE Enter(t) \/ Acquire(t)
        BY <3>1 DEF Enter, Acquire, Goto, Calm, Active
      <3>2. CASE Skip(t) \/ Accept(t)
        BY <3>2 DEF Skip, Accept, Goto, Calm, Active, Inside, List
      <3>3. CASE LoopDone(t)
        BY <3>3 DEF LoopDone, Goto, Calm, Active
      <3>4. CASE Delegate(t)
        BY <3>4 DEF Delegate, Goto, Calm, Active, Inside
      <3>5. CASE Refuse(t) \/ Leave(t)
        BY <3>5 DEF Refuse, Leave, Return, Finish, Resume, Calm, Active
      <3> QED
        BY <1>4, <3>1, <3>2, <3>3, <3>4, <3>5 DEF LogStep
    <2> QED
      BY <1>1, <2>1, <2>3, <2>4, CalmStep
  <1>5. CASE AdminStep(t)
    <2>1. UNCHANGED <<pc, at, event, out, events>>
      BY <1>5 DEF AdminStep, Admin, SetLevel, AddAppender, DelAppender,
                  ClearAppender, SetAppenderLevel
    <2>2. ASSUME NEW u \in Thread, Inside(u)
          PROVE  List(u)' = List(u)
      <3>1. Holds(u, at[u])
        BY <2>2 DEF Holds, Inside
      <3>2. ~Free(at[u])
        BY <3>1, FreeMeansUnused
      <3> QED
        BY <1>5, <2>1, <3>2, AdminSteps DEF List
    <2>3. \A u \in Thread : Calm(u)
      BY <2>1, <2>2 DEF Calm, Active, Inside
    <2> QED
      BY <1>1, <2>1, <2>3, CalmStep
  <1> QED
    BY <1>2, <1>3, <1>4, <1>5 DEF Step

(* ... and so does every step of Logger.                                   *)
LEMMA NextOrder == OneHome /\ IInv /\ OrderInv /\ [Next]_vars => OrderInv'
  <1> SUFFICES ASSUME OneHome, IInv, OrderInv, [Next]_vars PROVE OrderInv'
    OBVIOUS
  <1>1. CASE Next
    <2>1. PICK t \in Thread : Step(t)
      BY <1>1 DEF Next, Step
    <2> QED
      BY <2>1, StepOrder
  <1>2. CASE UNCHANGED vars
    <2>1. UNCHANGED <<out, events, appenders, pc, event, at>>
      BY <1>2 DEF vars
    <2>2. HomeInv'
      BY <2>1 DEF OrderInv, HomeInv
    <2>3. \A u \in Thread : Calm(u)
      BY <2>1 DEF Calm, Active, Inside, List, IInv, TypeOK
    <2> QED
      BY <2>1, <2>2, <2>3, CalmStep
  <1> QED
    BY <1>1, <1>2

(* When no appender belongs to two loggers, two appenders never show two   *)
(* events in opposite orders, whoever logs them and however the lists      *)
(* change meanwhile (log.cc:225-230).                                      *)
THEOREM EventsInOneOrder == ASSUME OneHome PROVE Spec => []SameOrder
  <1>1. OrderInv => SameOrder
    BY DEF OrderInv
  <1>2. IInv /\ OrderInv /\ [Next]_vars => OrderInv'
    BY NextOrder
  <1> QED
    BY <1>1, <1>2, InitOrderInv, LoggerInductive, PTL DEF Spec

-----------------------------------------------------------------------------

(* Constructors first: the system starts as Logger does. *)
LEMMA SystemStarts == SysInit => Init
  BY DEF SysInit

(* The table, the objects made, and what the threads hold of them.         *)
ManagerOK ==
  /\ table \in [Name -> Loggers \cup {NoLogger}]
  /\ made \subseteq Loggers
  /\ want \in [Thread -> Name \cup {NoName}]
  /\ handle \in [Thread -> Loggers]

(* As long as accesses have not overlapped, at most one thread is between  *)
(* its search and its insertion, and the name it inserts is still free.    *)
CalmInv ==
  calm => /\ \A l \in made : table[KeyOf[l]] = l
          /\ \A t \in Thread : want[t] # NoName =>
               /\ table[want[t]] = NoLogger
               /\ \A u \in Thread \ {t} : want[u] = NoName

TableInv == ManagerOK /\ CalmInv

(* What a step of the system is: a call on the table by some thread, or    *)
(* nothing the table knows of.                                             *)
TableStep(t) ==
  \/ \E n \in Name : Found(t, n) \/ Missed(t, n) \/ Erase(t, n)
  \/ \E l \in Loggers : Insert(t, l) \/ Push(t, l)

(* Every step of the system is of one of these kinds.                      *)
LEMMA StepKinds ==
  ASSUME SysNext
  PROVE  (\E t \in Thread : TableStep(t)) \/ UNCHANGED manager
  <1>1. CASE \E new \in Configs : ReloadBegin(new)
    BY <1>1 DEF ReloadBegin, manager
  <1>2. CASE ReloadStep
    <2>1. CASE Announce \/ ReloadCall \/ Logging(Reloader)
      BY <2>1 DEF Announce, ReloadCall, Logging
    <2>2. CASE ReloadGet
      BY <2>2, SystemOK DEF ReloadGet, TableStep
    <2> QED
      BY <1>2, <2>1, <2>2 DEF ReloadStep
  <1>3. ASSUME NEW t \in User, UseTable(t) \/ Made(t) \/ StartEvent(t) \/ Logging(t)
        PROVE  TableStep(t) \/ UNCHANGED manager
    BY <1>3 DEF UseTable, Made, StartEvent, Logging, TableStep
  <1> QED
    BY <1>1, <1>2, <1>3 DEF SysNext, User

(* The LoggerManager's constructor puts the root into the table.           *)
LEMMA TableStarts == SysInit => TableInv
  BY SystemOK, LoggerOK DEF SysInit, TableInv, ManagerOK, CalmInv

(* One lemma per property of the table: its type, ... *)
LEMMA StepManagerOK ==
  ASSUME TableInv, NEW t \in Thread, TableStep(t)
  PROVE  ManagerOK'
  <1> USE SystemOK DEF TableInv, ManagerOK
  <1>1. ASSUME NEW n \in Name, Found(t, n)
        PROVE  ManagerOK'
    BY <1>1 DEF Found
  <1>2. ASSUME NEW n \in Name, Missed(t, n)
        PROVE  ManagerOK'
    BY <1>2 DEF Missed
  <1>3. ASSUME NEW n \in Name, Erase(t, n)
        PROVE  ManagerOK'
    BY <1>3 DEF Erase
  <1>4. ASSUME NEW l \in Loggers, Insert(t, l) \/ Push(t, l)
        PROVE  ManagerOK'
    BY <1>4 DEF Insert, Push
  <1> QED
    BY <1>1, <1>2, <1>3, <1>4 DEF TableStep

(* ... and its agreement with the loggers that exist.                      *)
LEMMA StepCalmInv ==
  ASSUME TableInv, NEW t \in Thread, TableStep(t)
  PROVE  CalmInv'
  <1> USE SystemOK DEF TableInv, ManagerOK, CalmInv, Inserting, Outside
  <1>1. ASSUME NEW n \in Name, Found(t, n)
        PROVE  CalmInv'
    BY <1>1 DEF Found
  <1>2. ASSUME NEW n \in Name, Missed(t, n)
        PROVE  CalmInv'
    BY <1>2 DEF Missed, NotThere
  <1>3. ASSUME NEW n \in Name, Erase(t, n)
        PROVE  CalmInv'
    BY <1>3 DEF Erase
  <1>4. ASSUME NEW l \in Loggers, Insert(t, l)
        PROVE  CalmInv'
    <2> SUFFICES ASSUME calm'
                 PROVE  /\ \A k \in made' : table'[KeyOf[k]] = k
                        /\ \A u \in Thread : want'[u] = NoName
      OBVIOUS
    <2>1. /\ want[t] \in Name /\ KeyOf[l] = want[t] /\ calm
          /\ table' = [table EXCEPT ![want[t]] = l]
          /\ made' = made \cup {l}
          /\ want' = [want EXCEPT ![t] = NoName]
      BY <1>4 DEF Insert, Fresh
    <2>2. table'[KeyOf[l]] = l
      BY <2>1
    <2>3. ASSUME NEW k \in made
          PROVE  table'[KeyOf[k]] = k
      <3>1. table[KeyOf[k]] = k /\ k # NoLogger /\ table[want[t]] = NoLogger
        BY <2>1
      <3>2. KeyOf[k] # want[t]
        BY <3>1
      <3>3. KeyOf[k] \in Name
        OBVIOUS
      <3> QED
        BY <2>1, <3>1, <3>2, <3>3
    <2>4. \A u \in Thread : want'[u] = NoName
      BY <2>1
    <2> QED
      BY <2>1, <2>2, <2>3, <2>4
  <1>5. ASSUME NEW l \in Loggers, Push(t, l)
        PROVE  CalmInv'
    <2> SUFFICES ASSUME calm' PROVE CalmInv'
      OBVIOUS
    <2>1. /\ calm /\ \A u \in Thread : want[u] = NoName
          /\ table[KeyOf[l]] = NoLogger
          /\ table' = [table EXCEPT ![KeyOf[l]] = l]
          /\ made' = made \cup {l}
          /\ want' = want
      BY <1>5 DEF Push
    <2>2. ASSUME NEW k \in made
          PROVE  table'[KeyOf[k]] = k
      <3>1. table[KeyOf[k]] = k /\ k # NoLogger
        BY <2>1
      <3>2. KeyOf[k] # KeyOf[l]
        BY <2>1, <3>1
      <3> QED
        BY <2>1, <3>1, <3>2
    <2>3. table'[KeyOf[l]] = l
      BY <2>1
    <2> QED
      BY <2>1, <2>2, <2>3
  <1> QED
    BY <1>1, <1>2, <1>3, <1>4, <1>5 DEF TableStep

(* Every step of the system preserves the table's invariant.               *)
LEMMA NextTableInv == TableInv /\ [SysNext]_sysvars => TableInv'
  <1> SUFFICES ASSUME TableInv, [SysNext]_sysvars PROVE TableInv'
    OBVIOUS
  <1>1. CASE SysNext
    <2>1. CASE UNCHANGED manager
      BY <2>1 DEF manager, TableInv, ManagerOK, CalmInv
    <2>2. CASE \E t \in Thread : TableStep(t)
      BY <2>2, StepManagerOK, StepCalmInv DEF TableInv
    <2> QED
      BY <1>1, <2>1, <2>2, StepKinds
  <1>2. CASE UNCHANGED sysvars
    BY <1>2 DEF sysvars, manager, TableInv, ManagerOK, CalmInv
  <1> QED
    BY <1>1, <1>2

(* Every step of the system is one of Logger's, or none of its business.   *)
LEMMA SystemStepsLog ==
  ASSUME TableInv, [SysNext]_sysvars
  PROVE  [Next]_vars
  <1> USE SystemOK, LoggerOK
  <1>1. CASE \E new \in Configs : ReloadBegin(new)
    BY <1>1 DEF ReloadBegin
  <1>2. CASE ReloadStep
    <2>1. CASE Announce
      BY <2>1 DEF Announce, Next
    <2>2. CASE ReloadGet
      BY <2>2 DEF ReloadGet, Found, Missed, Insert
    <2>3. CASE ReloadCall
      <3>1. handle[Reloader] \in Loggers
        BY DEF TableInv, ManagerOK
      <3>2. AdminStep(Reloader)
        BY <2>3, <3>1 DEF ReloadCall, AdminStep
      <3> QED
        BY <3>2 DEF Next
    <2>4. CASE Logging(Reloader)
      BY <2>4 DEF Logging, Next
    <2> QED
      BY <1>2, <2>1, <2>2, <2>3, <2>4 DEF ReloadStep
  <1>3. ASSUME NEW t \in User, UseTable(t) \/ Made(t)
        PROVE  UNCHANGED vars
    BY <1>3 DEF UseTable, Made, Found, Missed, Erase, Insert, Push
  <1>4. ASSUME NEW t \in User, StartEvent(t)
        PROVE  Next
    <2>1. handle[t] \in Loggers /\ t \in Thread
      BY DEF TableInv, ManagerOK, User
    <2>2. PICK l \in {Root, handle[t]}, sev \in Level \ {Unknow} : Macro(t, l, sev)
      BY <1>4 DEF StartEvent
    <2>3. l \in Loggers /\ sev \in Level
      BY <2>1
    <2> QED
      BY <2>1, <2>2, <2>3 DEF Next
  <1>5. ASSUME NEW t \in User, Logging(t)
        PROVE  Next
    BY <1>5 DEF Logging, User, Next
  <1>6. CASE UNCHANGED sysvars
    BY <1>6 DEF sysvars
  <1> QED
    BY <1>1, <1>2, <1>3, <1>4, <1>5, <1>6 DEF SysNext

-----------------------------------------------------------------------------
(* The table stays consistent with the loggers that exist (log.cc:645-672). *)
THEOREM TableConsistent == SysSpec => []TableInv
  BY TableStarts, NextTableInv, PTL DEF SysSpec

(* A name has one logger while accesses of the table do not overlap and    *)
(* nothing is erased (log.cc:645-656).                                     *)
THEOREM OneLogger == SysSpec => []OneLoggerPerName
  <1>1. TableInv => OneLoggerPerName
    BY DEF TableInv, CalmInv, OneLoggerPerName
  <1> QED
    BY <1>1, TableConsistent, PTL

(* The composed system implements the specification of the logging path:   *)
(* reloads and the table use it as any thread does (log.cc:480-528).       *)
THEOREM SystemIsLogging == SysSpec => Spec
  BY SystemStarts, SystemStepsLog, TableConsistent, PTL DEF SysSpec, Spec

(* So the fallback to the root is safe in the composed system too          *)
(* (log.cc:226-233).                                                       *)
THEOREM SystemFallbackSafe == SysSpec => []FallbackStillDue
  BY SystemIsLogging, FallbackSafe, PTL

(* Here too, every write goes to an appender that is attached at that      *)
(* moment, the listener's clearAppender notwithstanding, ...               *)
THEOREM SystemRemovalIsFinal == SysSpec => OnlyAttachedWrite
  BY SystemIsLogging, RemovalIsFinal, PTL

(* ... and the logs of one logger agree on the order of its events, across *)
(* reloads, as long as no two loggers share an appender.                   *)
THEOREM SystemEventsInOneOrder == ASSUME OneHome PROVE SysSpec => []SameOrder
  BY SystemIsLogging, EventsInOneOrder, PTL

-----------------------------------------------------------------------------
(* The third part: events and reloads.                                     *)

(* The calls of the listener. *)
Arguments ==
  Name \cup Level \cup {"all", Root} \cup Appender
    \cup [appender : Appender, level : Level]
JobCalls ==
  [op : {"announce", "get", "level", "clear", "aplevel", "add"}, x : Arguments]

Changes(c) == c.op \in {"level", "clear", "aplevel", "add"}

(* Every change follows a getLogger, unless the listener has called it     *)
(* already, and it asks for the given names only.                          *)
Led(s, names, called) ==
  \A k \in 1..Len(s) :
    /\ s[k].op = "get" => s[k].x \in names
    /\ Changes(s[k]) => called \/ \E j \in 1..(k - 1) : s[j].op = "get"

(* A sequence without getLogger, and one that begins with it. *)
Silent(s) == \A k \in 1..Len(s) : s[k].op # "get"
Opened(s, names) == Led(s, names, FALSE) /\ Len(s) > 0 /\ s[1].op = "get"

(* One call is a sequence of calls. *)
LEMMA OneCall ==
  ASSUME NEW op \in {"announce", "get", "level", "clear", "aplevel", "add"},
         NEW x \in Arguments
  PROVE  /\ Call(op, x) \in Seq(JobCalls) /\ Len(Call(op, x)) = 1
         /\ Call(op, x)[1].op = op /\ Call(op, x)[1].x = x
  <1>1. [op |-> op, x |-> x] \in JobCalls
    BY DEF JobCalls
  <1> QED
    BY <1>1 DEF Call

(* A sequence is a function of its indices, ... *)
LEMMA ElementsOf ==
  ASSUME NEW S, NEW s \in Seq(S)
  PROVE  /\ DOMAIN s = 1..Len(s) /\ Len(s) \in Nat
         /\ \A i \in 1..Len(s) : s[i] \in S
  OBVIOUS

(* ... and such a function is a sequence. *)
LEMMA SequenceOf ==
  ASSUME NEW S, NEW n \in Nat, NEW s, s = [i \in 1..n |-> s[i]],
         \A i \in 1..n : s[i] \in S
  PROVE  s \in Seq(S) /\ Len(s) = n
  <1>1. s \in [1..n -> S]
    OBVIOUS
  <1> QED
    BY <1>1

(* The elements of two sequences, one after the other. *)
LEMMA TwoParts ==
  ASSUME NEW S, NEW p \in Seq(S), NEW q \in Seq(S)
  PROVE  /\ p \o q \in Seq(S) /\ Len(p \o q) = Len(p) + Len(q)
         /\ Len(p) \in Nat /\ Len(q) \in Nat
         /\ \A k \in 1..Len(p) : (p \o q)[k] = p[k]
         /\ \A k \in 1..Len(q) : (p \o q)[Len(p) + k] = q[k]
         /\ \A k \in 1..Len(p \o q) :
              k \in 1..Len(p) \/ (k - Len(p) \in 1..Len(q) /\ k = Len(p) + (k - Len(p)))
  OBVIOUS

(* Sequences of calls may be put one after the other. *)
LEMMA LedConcat ==
  ASSUME NEW names, NEW p \in Seq(JobCalls), NEW q \in Seq(JobCalls),
         Led(p, names, FALSE), Led(q, names, FALSE)
  PROVE  Led(p \o q, names, FALSE)
  <1> DEFINE r == p \o q
  <1>1. /\ Len(p) \in Nat /\ Len(q) \in Nat
        /\ \A k \in 1..Len(p) : r[k] = p[k]
        /\ \A k \in 1..Len(q) : r[Len(p) + k] = q[k]
        /\ \A k \in 1..Len(r) :
             k \in 1..Len(p) \/ (k - Len(p) \in 1..Len(q) /\ k = Len(p) + (k - Len(p)))
    BY TwoParts
  <1> HIDE DEF r
  <1>2. ASSUME NEW k \in 1..Len(r)
        PROVE  /\ r[k].op = "get" => r[k].x \in names
               /\ Changes(r[k]) => \E j \in 1..(k - 1) : r[j].op = "get"
    <2>1. CASE k \in 1..Len(p)
      <3>1. r[k] = p[k] /\ \A j \in 1..(k - 1) : r[j] = p[j]
        BY <1>1, <2>1
      <3>2. /\ p[k].op = "get" => p[k].x \in names
            /\ Changes(p[k]) => \E j \in 1..(k - 1) : p[j].op = "get"
        BY <2>1 DEF Led
      <3> QED
        BY <3>1, <3>2
    <2>2. ASSUME NEW m \in 1..Len(q), k = Len(p) + m
          PROVE  /\ r[k].op = "get" => r[k].x \in names
                 /\ Changes(r[k]) => \E j \in 1..(k - 1) : r[j].op = "get"
      <3>1. r[k] = q[m]
        BY <1>1, <2>2
      <3>2. /\ q[m].op = "get" => q[m].x \in names
            /\ Changes(q[m]) => \E j \in 1..(m - 1) : q[j].op = "get"
        BY <2>2 DEF Led
      <3>3. ASSUME NEW j \in 1..(m - 1), q[j].op = "get"
            PROVE  \E i \in 1..(k - 1) : r[i].op = "get"
        <4>1. j \in 1..Len(q) /\ Len(p) + j \in 1..(k - 1)
          BY <1>1, <2>2, <3>3
        <4> QED
          BY <1>1, <3>3, <4>1
      <3> QED
        BY <3>1, <3>2, <3>3
    <2> QED
      BY <1>1, <2>1, <2>2
  <1>3. Led(r, names, FALSE)
    BY <1>2 DEF Led
  <1> QED
    BY <1>3 DEF r

(* A change may follow when getLogger has been called. *)
LEMMA OpenedThen ==
  ASSUME NEW names, NEW p \in Seq(JobCalls), NEW q \in Seq(JobCalls),
         Opened(p, names), Silent(q)
  PROVE  p \o q \in Seq(JobCalls) /\ Opened(p \o q, names)
  <1> DEFINE r == p \o q
  <1>1. /\ r \in Seq(JobCalls) /\ Len(r) = Len(p) + Len(q)
        /\ Len(p) \in Nat /\ Len(q) \in Nat
        /\ \A k \in 1..Len(p) : r[k] = p[k]
        /\ \A k \in 1..Len(q) : r[Len(p) + k] = q[k]
        /\ \A k \in 1..Len(r) :
             k \in 1..Len(p) \/ (k - Len(p) \in 1..Len(q) /\ k = Len(p) + (k - Len(p)))
    BY TwoParts
  <1> HIDE DEF r
  <1>2. r[1].op = "get" /\ Len(r) > 0
    BY <1>1 DEF Opened
  <1>3. ASSUME NEW k \in 1..Len(r)
        PROVE  /\ r[k].op = "get" => r[k].x \in names
               /\ Changes(r[k]) => \E j \in 1..(k - 1) : r[j].op = "get"
    <2>1. CASE k \in 1..Len(p)
      <3>1. r[k] = p[k] /\ \A j \in 1..(k - 1) : r[j] = p[j]
        BY <1>1, <2>1
      <3>2. /\ p[k].op = "get" => p[k].x \in names
            /\ Changes(p[k]) => \E j \in 1..(k - 1) : p[j].op = "get"
        BY <2>1 DEF Opened, Led
      <3> QED
        BY <3>1, <3>2
    <2>2. ASSUME NEW m \in 1..Len(q), k = Len(p) + m
          PROVE  /\ r[k].op # "get"
                 /\ \E j \in 1..(k - 1) : r[j].op = "get"
      <3>1. r[k] = q[m] /\ 1 \in 1..(k - 1)
        BY <1>1, <2>2 DEF Opened
      <3> QED
        BY <1>2, <3>1 DEF Silent
    <2> QED
      BY <1>1, <2>1, <2>2
  <1>4. Opened(r, names)
    BY <1>2, <1>3 DEF Opened, Led
  <1> QED
    BY <1>1, <1>4 DEF r

(* Any number of them, too. *)
LEMMA LedFlatten ==
  ASSUME NEW names, NEW s \in Seq(Seq(JobCalls)),
         \A n \in 1..Len(s) : Led(s[n], names, FALSE)
  PROVE  Led(FlattenSeq(s), names, FALSE)
  <1> DEFINE P == {q \in Seq(Seq(JobCalls)) :
                     (\A n \in 1..Len(q) : Led(q[n], names, FALSE))
                       => Led(FlattenSeq(q), names, FALSE)}
  <1>1. <<>> \in P
    <2>1. <<>> \in Seq(Seq(JobCalls)) /\ Led(<<>>, names, FALSE)
      BY DEF Led
    <2> QED
      BY <2>1, FlattenEmpty
  <1>2. ASSUME NEW q \in Seq(Seq(JobCalls)), NEW e \in Seq(JobCalls), q \in P
        PROVE  Append(q, e) \in P
    <2> DEFINE r == Append(q, e)
    <2>1. /\ r \in Seq(Seq(JobCalls)) /\ Len(r) = Len(q) + 1 /\ r[Len(q) + 1] = e
          /\ \A n \in 1..Len(q) : r[n] = q[n]
          /\ Len(q) \in Nat
      OBVIOUS
    <2>2. FlattenSeq(r) = FlattenSeq(q) \o e /\ FlattenSeq(q) \in Seq(JobCalls)
      BY FlattenAppend, FlattenType
    <2> HIDE DEF r
    <2>3. ASSUME \A n \in 1..Len(r) : Led(r[n], names, FALSE)
          PROVE  Led(FlattenSeq(r), names, FALSE)
      <3>1. ASSUME NEW n \in 1..Len(q)
            PROVE  Led(q[n], names, FALSE)
        <4>1. n \in 1..Len(r) /\ r[n] = q[n]
          BY <2>1
        <4> QED
          BY <2>3, <4>1
      <3>2. Led(e, names, FALSE)
        <4>1. Len(q) + 1 \in 1..Len(r)
          BY <2>1
        <4> QED
          BY <2>1, <2>3, <4>1
      <3>3. Led(FlattenSeq(q), names, FALSE)
        BY <1>2, <3>1
      <3> QED
        BY <2>2, <3>2, <3>3, LedConcat
    <2>4. r \in P
      BY <2>1, <2>3
    <2> QED
      BY <2>4 DEF r
  <1>3. Seq(Seq(JobCalls)) \subseteq P
    <2> HIDE DEF P
    <2> QED
      BY <1>1, <1>2, SeqInduction
  <1> QED
    BY <1>3

(* The calls for one definition begin with getLogger; none follows. *)
LEMMA DefineOpened ==
  ASSUME NEW n \in Name, NEW d \in Definition, NEW names, n \in names
  PROVE  Define(n, d) \in Seq(JobCalls) /\ Opened(Define(n, d), names)
  <1> DEFINE L == Len(d.appenders)
             s == [i \in DOMAIN d.appenders |-> AddOne(d.appenders[i])]
  <1>1. /\ d.level \in Level
        /\ d.appenders \in Seq([appender : Appender, level : Level])
    BY DEF Definition
  <1>2. ASSUME NEW a \in [appender : Appender, level : Level]
        PROVE  AddOne(a) \in Seq(JobCalls) /\ Silent(AddOne(a))
    <2>1. a \in Arguments /\ a.appender \in Arguments
      BY DEF Arguments
    <2>2. /\ Call("aplevel", a) \in Seq(JobCalls)
          /\ Call("add", a.appender) \in Seq(JobCalls)
          /\ Silent(Call("aplevel", a)) /\ Silent(Call("add", a.appender))
      BY <2>1, OneCall DEF Silent
    <2> QED
      BY <2>2, TwoParts DEF AddOne, Silent
  <1>3. /\ s \in Seq(Seq(JobCalls)) /\ Len(s) = L
        /\ \A i \in 1..Len(s) : Silent(s[i])
    <2>1. /\ DOMAIN d.appenders = 1..L /\ L \in Nat
          /\ \A i \in 1..L : d.appenders[i] \in [appender : Appender, level : Level]
      BY <1>1, ElementsOf
    <2>2. s = [i \in 1..L |-> s[i]] /\ \A i \in 1..L : s[i] = AddOne(d.appenders[i])
      BY <2>1
    <2> HIDE DEF L, s
    <2>3. \A i \in 1..L : s[i] \in Seq(JobCalls) /\ Silent(s[i])
      BY <1>2, <2>1, <2>2
    <2>4. s \in Seq(Seq(JobCalls)) /\ Len(s) = L
      BY <2>1, <2>2, <2>3, SequenceOf
    <2> QED
      BY <2>3, <2>4
  <1> HIDE DEF s
  <1>4. FlattenSeq(s) \in Seq(JobCalls) /\ Silent(FlattenSeq(s))
    <2>1. ASSUME NEW k \in 1..Len(FlattenSeq(s))
          PROVE  FlattenSeq(s)[k].op # "get"
      <3>1. PICK m \in 1..Len(s) : \E j \in 1..Len(s[m]) : FlattenSeq(s)[k] = s[m][j]
        BY <1>3, FlattenElements DEF Among
      <3> QED
        BY <1>3, <3>1 DEF Silent
    <2> QED
      BY <1>3, <2>1, FlattenType DEF Silent
  <1>5. Call("get", n) \in Seq(JobCalls) /\ Opened(Call("get", n), names)
    <2>1. n \in Arguments
      BY DEF Arguments
    <2>2. /\ Call("get", n) \in Seq(JobCalls) /\ Len(Call("get", n)) = 1
          /\ Call("get", n)[1].op = "get" /\ Call("get", n)[1].x = n
      BY <2>1, OneCall
    <2>3. \A k \in 1..1 : k = 1
      OBVIOUS
    <2> QED
      BY <2>2, <2>3 DEF Opened, Led, Changes
  <1>6. /\ Call("level", d.level) \in Seq(JobCalls) /\ Silent(Call("level", d.level))
        /\ Call("clear", "all") \in Seq(JobCalls) /\ Silent(Call("clear", "all"))
    <2>1. d.level \in Arguments /\ "all" \in Arguments
      BY <1>1 DEF Arguments
    <2> QED
      BY <2>1, OneCall DEF Silent
  <1>7. /\ Call("get", n) \o Call("level", d.level) \in Seq(JobCalls)
        /\ Opened(Call("get", n) \o Call("level", d.level), names)
    BY <1>5, <1>6, OpenedThen
  <1>8. /\ Call("get", n) \o Call("level", d.level) \o Call("clear", "all")
             \in Seq(JobCalls)
        /\ Opened(Call("get", n) \o Call("level", d.level) \o Call("clear", "all"), names)
    BY <1>6, <1>7, OpenedThen
  <1>9. Define(n, d) = Call("get", n) \o Call("level", d.level) \o Call("clear", "all")
                         \o FlattenSeq(s)
    BY DEF Define, s
  <1> QED
    BY <1>4, <1>8, <1>9, OpenedThen

(* So do those for a name that is gone. *)
LEMMA UndefineOpened ==
  ASSUME NEW n \in Name, NEW names, n \in names
  PROVE  Undefine(n) \in Seq(JobCalls) /\ Opened(Undefine(n), names)
  <1>1. n \in Arguments /\ Unknow \in Arguments /\ "all" \in Arguments
    BY SystemOK DEF Arguments
  <1>2. Call("get", n) \in Seq(JobCalls) /\ Opened(Call("get", n), names)
    <2>1. /\ Call("get", n) \in Seq(JobCalls) /\ Len(Call("get", n)) = 1
          /\ Call("get", n)[1].op = "get" /\ Call("get", n)[1].x = n
      BY <1>1, OneCall
    <2>2. \A k \in 1..1 : k = 1
      OBVIOUS
    <2> QED
      BY <2>1, <2>2 DEF Opened, Led, Changes
  <1>3. /\ Call("level", Unknow) \in Seq(JobCalls) /\ Silent(Call("level", Unknow))
        /\ Call("clear", "all") \in Seq(JobCalls) /\ Silent(Call("clear", "all"))
    BY <1>1, OneCall DEF Silent
  <1>4. /\ Call("get", n) \o Call("level", Unknow) \in Seq(JobCalls)
        /\ Opened(Call("get", n) \o Call("level", Unknow), names)
    BY <1>2, <1>3, OpenedThen
  <1> QED
    BY <1>3, <1>4, OpenedThen DEF Undefine

(* The listener asks for the loggers of the names it changes, and changes  *)
(* what it asked for.                                                      *)
LEMMA PlanLed ==
  ASSUME NEW old, NEW new \in [Name -> Definition \cup {NoDef}], NEW names,
         Changed(old, new) \cup Removed(old, new) \subseteq names
  PROVE  Plan(old, new) \in Seq(JobCalls) /\ Led(Plan(old, new), names, FALSE)
  <1> DEFINE s == [i \in DOMAIN Names |->
                     IF Names[i] \in Changed(old, new)
                       THEN Define(Names[i], new[Names[i]]) ELSE <<>>]
             r == [i \in DOMAIN Names |->
                     IF Names[i] \in Removed(old, new)
                       THEN Undefine(Names[i]) ELSE <<>>]
             a == Call("announce", Root)
  <1>1. DOMAIN Names = 1..Len(Names) /\ Len(Names) \in Nat
    BY SystemOK
  <1>2. <<>> \in Seq(JobCalls) /\ Led(<<>>, names, FALSE)
    BY DEF Led
  <1>3. ASSUME NEW i \in 1..Len(Names)
        PROVE  /\ s[i] \in Seq(JobCalls) /\ Led(s[i], names, FALSE)
               /\ r[i] \in Seq(JobCalls) /\ Led(r[i], names, FALSE)
    <2>1. Names[i] \in Name
      BY SystemOK
    <2>2. CASE Names[i] \in Changed(old, new)
      <3>1. Names[i] \in names /\ new[Names[i]] \in Definition
        BY <2>1, <2>2 DEF Changed
      <3>2. /\ Define(Names[i], new[Names[i]]) \in Seq(JobCalls)
            /\ Led(Define(Names[i], new[Names[i]]), names, FALSE)
        BY <2>1, <3>1, DefineOpened DEF Opened
      <3>3. Names[i] \notin Removed(old, new)
        BY <2>2 DEF Changed, Removed
      <3> QED
        BY <1>1, <1>2, <2>2, <3>2, <3>3
    <2>3. CASE Names[i] \in Removed(old, new)
      <3>1. Undefine(Names[i]) \in Seq(JobCalls) /\ Led(Undefine(Names[i]), names, FALSE)
        BY <2>1, <2>3, UndefineOpened DEF Opened
      <3>2. Names[i] \notin Changed(old, new)
        BY <2>3 DEF Changed, Removed
      <3> QED
        BY <1>1, <1>2, <2>3, <3>1, <3>2
    <2>4. CASE Names[i] \notin Changed(old, new) /\ Names[i] \notin Removed(old, new)
      BY <1>1, <1>2, <2>4
    <2> QED
      BY <2>2, <2>3, <2>4
  <1>4. /\ s \in Seq(Seq(JobCalls)) /\ Len(s) = Len(Names)
        /\ r \in Seq(Seq(JobCalls)) /\ Len(r) = Len(Names)
    <2>1. /\ s = [i \in 1..Len(Names) |-> s[i]]
          /\ r = [i \in 1..Len(Names) |-> r[i]]
      BY <1>1
    <2> HIDE DEF s, r
    <2> QED
      BY <1>1, <1>3, <2>1, SequenceOf
  <1>5. a \in Seq(JobCalls) /\ Led(a, names, FALSE)
    <2>1. Root \in Arguments
      BY DEF Arguments
    <2>2. /\ a \in Seq(JobCalls) /\ Len(a) = 1 /\ a[1].op = "announce"
      BY <2>1, OneCall
    <2>3. \A k \in 1..1 : k = 1
      OBVIOUS
    <2> HIDE DEF a
    <2> QED
      BY <2>2, <2>3 DEF Led, Changes
  <1>6. Plan(old, new) = (a \o FlattenSeq(s)) \o FlattenSeq(r)
    BY DEF Plan
  <1> HIDE DEF s, r, a
  <1>7. /\ FlattenSeq(s) \in Seq(JobCalls) /\ Led(FlattenSeq(s), names, FALSE)
        /\ FlattenSeq(r) \in Seq(JobCalls) /\ Led(FlattenSeq(r), names, FALSE)
    BY <1>3, <1>4, FlattenType, LedFlatten
  <1>8. a \o FlattenSeq(s) \in Seq(JobCalls) /\ Led(a \o FlattenSeq(s), names, FALSE)
    BY <1>5, <1>7, LedConcat, TwoParts
  <1>9. /\ (a \o FlattenSeq(s)) \o FlattenSeq(r) \in Seq(JobCalls)
        /\ Led((a \o FlattenSeq(s)) \o FlattenSeq(r), names, FALSE)
    BY <1>7, <1>8, LedConcat, TwoParts
  <1> QED
    BY <1>6, <1>9

-----------------------------------------------------------------------------
(* The table's names are those its loggers were made for.                  *)
NamedInv == \A n \in Name : table[n] # NoLogger => KeyOf[table[n]] = n

(* What the listener has still to do: it holds the logger of a name that   *)
(* reloads have changed whenever it changes one, and the logger it is      *)
(* making is the one it asked for.                                         *)
JobInv ==
  /\ job \in Seq(JobCalls)
  /\ Led(job, touched, KeyOf[handle[Reloader]] \in touched)
  /\ want[Reloader] # NoName => Calls("get", want[Reloader])

(* Only reloads change the appenders of a logger. *)
RootKept == RootName \notin touched => appenders[Root] = <<Stdout>>

ReloadInv == NamedInv /\ JobInv /\ RootKept

(* The call that has been made leaves the others in order. *)
LEMMA TailLed ==
  ASSUME NEW s \in Seq(JobCalls), s # <<>>, NEW names, NEW called \in BOOLEAN,
         NEW after \in BOOLEAN, Led(s, names, called),
         (s[1].op = "get" \/ called) => after
  PROVE  Tail(s) \in Seq(JobCalls) /\ Led(Tail(s), names, after)
  <1> DEFINE r == Tail(s)
  <1>1. /\ r \in Seq(JobCalls) /\ Len(r) = Len(s) - 1 /\ Len(s) \in Nat
        /\ \A k \in 1..Len(r) : r[k] = s[k + 1] /\ k + 1 \in 1..Len(s)
    OBVIOUS
  <1> HIDE DEF r
  <1>2. ASSUME NEW k \in 1..Len(r)
        PROVE  /\ r[k].op = "get" => r[k].x \in names
               /\ Changes(r[k]) => after \/ \E j \in 1..(k - 1) : r[j].op = "get"
    <2>1. r[k] = s[k + 1] /\ k + 1 \in 1..Len(s)
      BY <1>1
    <2>2. /\ s[k + 1].op = "get" => s[k + 1].x \in names
          /\ Changes(s[k + 1]) => called \/ \E j \in 1..((k + 1) - 1) : s[j].op = "get"
      BY <2>1 DEF Led
    <2>3. ASSUME NEW j \in 1..((k + 1) - 1), s[j].op = "get", j # 1
          PROVE  \E i \in 1..(k - 1) : r[i].op = "get"
      <3>1. j - 1 \in 1..(k - 1) /\ j - 1 \in 1..Len(r) /\ (j - 1) + 1 = j
        BY <1>1, <2>3
      <3>2. r[j - 1] = s[j]
        BY <1>1, <3>1
      <3> QED
        BY <2>3, <3>1, <3>2
    <2> QED
      BY <2>1, <2>2, <2>3
  <1>3. Led(r, names, after)
    BY <1>2 DEF Led
  <1> QED
    BY <1>1, <1>3 DEF r

(* No reload has begun at first. *)
LEMMA ReloadStarts == SysInit => ReloadInv
  <1> SUFFICES ASSUME SysInit PROVE ReloadInv
    OBVIOUS
  <1>1. NamedInv
    BY SystemOK DEF SysInit, NamedInv
  <1>2. JobInv
    BY SystemOK DEF SysInit, JobInv, Led
  <1>3. RootKept
    BY LoggerOK DEF SysInit, Init, RootKept
  <1> QED
    BY <1>1, <1>2, <1>3 DEF ReloadInv

(* The table keeps to the names. *)
LEMMA StepNamed ==
  ASSUME TableInv, NamedInv, NEW t \in Thread, TableStep(t)
  PROVE  NamedInv'
  <1> USE SystemOK DEF TableInv, ManagerOK, NamedInv
  <1>1. ASSUME NEW n \in Name, Found(t, n) \/ Missed(t, n)
        PROVE  NamedInv'
    BY <1>1 DEF Found, Missed
  <1>2. ASSUME NEW n \in Name, Erase(t, n)
        PROVE  NamedInv'
    BY <1>2 DEF Erase
  <1>3. ASSUME NEW l \in Loggers, Insert(t, l) \/ Push(t, l)
        PROVE  NamedInv'
    <2>1. PICK n \in Name : KeyOf[l] = n /\ table' = [table EXCEPT ![n] = l]
      BY <1>3 DEF Insert, Push, Fresh
    <2> QED
      BY <2>1
  <1> QED
    BY <1>1, <1>2, <1>3 DEF TableStep

(* The next call of the listener. *)
LEMMA HeadIs ==
  ASSUME JobInv, job # <<>>
  PROVE  /\ Head(job) = job[1] /\ 1 \in 1..Len(job)
         /\ job[1].op = "get" => job[1].x \in touched
         /\ Changes(job[1]) => KeyOf[handle[Reloader]] \in touched
  <1>1. Head(job) = job[1] /\ 1 \in 1..Len(job)
    BY DEF JobInv
  <1>2. \A j \in 1..(1 - 1) : FALSE
    OBVIOUS
  <1> QED
    BY <1>1, <1>2 DEF JobInv, Led

(* After a call that gets no logger. *)
LEMMA NextOfJob ==
  ASSUME JobInv, job # <<>>, job' = Tail(job), job[1].op # "get",
         UNCHANGED <<manager, touched>>
  PROVE  JobInv'
  <1> DEFINE h == KeyOf[handle[Reloader]] \in touched
  <1>1. /\ job \in Seq(JobCalls) /\ Led(job, touched, h) /\ h \in BOOLEAN
    BY DEF JobInv
  <1> HIDE DEF h
  <1>2. Tail(job) \in Seq(JobCalls) /\ Led(Tail(job), touched, h)
    BY <1>1, TailLed
  <1>3. want[Reloader] = NoName
    BY HeadIs DEF JobInv, Calls
  <1>4. handle' = handle /\ want' = want
    BY DEF manager
  <1> QED
    BY <1>2, <1>3, <1>4 DEF JobInv, h

(* After getLogger. *)
LEMMA GotOne ==
  ASSUME JobInv, job # <<>>, job' = Tail(job), UNCHANGED touched,
         KeyOf[handle'[Reloader]] \in touched, want'[Reloader] = NoName
  PROVE  JobInv'
  <1> DEFINE h == KeyOf[handle[Reloader]] \in touched
  <1>1. job \in Seq(JobCalls) /\ Led(job, touched, h) /\ h \in BOOLEAN
    BY DEF JobInv
  <1> HIDE DEF h
  <1>2. Tail(job) \in Seq(JobCalls) /\ Led(Tail(job), touched, TRUE)
    BY <1>1, TailLed
  <1> QED
    BY <1>2 DEF JobInv, Led

(* The listener keeps to its plan, whatever the other threads do to the   *)
(* table meanwhile.                                                        *)
LEMMA StepJob ==
  ASSUME TableInv, NamedInv, JobInv, SysNext
  PROVE  JobInv'
  <1>1. ASSUME NEW new \in Configs, ReloadBegin(new)
        PROVE  JobInv'
    <2>1. new \in [Name -> Definition \cup {NoDef}]
      BY SystemOK
    <2>2. /\ job' = Plan(conf, new) /\ want' = want /\ want[Reloader] = NoName
          /\ Changed(conf, new) \cup Removed(conf, new) \subseteq touched'
      BY <1>1 DEF ReloadBegin, Outside, manager
    <2>3. job' \in Seq(JobCalls) /\ Led(job', touched', FALSE)
      BY <2>1, <2>2, PlanLed
    <2> QED
      BY <2>2, <2>3 DEF JobInv, Led
  <1>2. CASE Announce \/ ReloadCall
    <2>1. /\ job # <<>> /\ job' = Tail(job) /\ UNCHANGED <<manager, touched>>
          /\ Head(job).op # "get"
      BY <1>2 DEF Announce, ReloadCall, Calls
    <2> QED
      BY <2>1, HeadIs, NextOfJob
  <1>3. CASE ReloadGet
    <2>1. UNCHANGED touched
      BY <1>3 DEF ReloadGet
    <2>2. PICK n \in Name :
            /\ Calls("get", n)
            /\ \/ Found(Reloader, n) /\ job' = Tail(job)
               \/ Missed(Reloader, n) /\ UNCHANGED job
               \/ (\E l \in Loggers : Insert(Reloader, l)) /\ job' = Tail(job)
      BY <1>3 DEF ReloadGet
    <2>3. job # <<>> /\ n \in touched
      BY <2>2, HeadIs DEF Calls
    <2>4. CASE Found(Reloader, n) /\ job' = Tail(job)
      <3>1. /\ handle'[Reloader] = table[n] /\ want'[Reloader] = NoName
            /\ KeyOf[table[n]] = n
        BY <2>4, SystemOK DEF Found, Outside, TableInv, ManagerOK, NamedInv
      <3> QED
        BY <2>1, <2>3, <2>4, <3>1, GotOne
    <2>5. CASE Missed(Reloader, n) /\ UNCHANGED job
      <3>1. want'[Reloader] = n /\ handle' = handle
        BY <2>5, SystemOK DEF Missed, TableInv, ManagerOK
      <3> QED
        BY <2>1, <2>2, <2>5, <3>1 DEF JobInv, Calls
    <2>6. CASE (\E l \in Loggers : Insert(Reloader, l)) /\ job' = Tail(job)
      <3>1. PICK l \in Loggers : Insert(Reloader, l)
        BY <2>6
      <3>2. /\ handle'[Reloader] = l /\ want'[Reloader] = NoName
            /\ KeyOf[l] = want[Reloader] /\ want[Reloader] # NoName
        BY <3>1, SystemOK DEF Insert, Fresh, TableInv, ManagerOK
      <3>3. want[Reloader] = n
        BY <2>2, <3>2 DEF JobInv, Calls
      <3> QED
        BY <2>1, <2>3, <2>6, <3>2, <3>3, GotOne
    <2> QED
      BY <2>2, <2>4, <2>5, <2>6
  <1>4. CASE \E t \in User : UseTable(t) \/ Made(t)
    <2>1. PICK t \in User : UseTable(t) \/ Made(t)
      BY <1>4
    <2>2. t # Reloader /\ t \in Thread /\ UNCHANGED <<job, touched>>
      BY <2>1 DEF User, UseTable, Made, reload
    <2>3. handle'[Reloader] = handle[Reloader] /\ want'[Reloader] = want[Reloader]
      BY <2>1, <2>2, SystemOK
      DEF UseTable, Made, Found, Missed, Erase, Push, Insert, TableInv, ManagerOK
    <2> QED
      BY <2>2, <2>3 DEF JobInv, Calls
  <1>5. CASE Logging(Reloader) \/ \E t \in User : StartEvent(t) \/ Logging(t)
    <2>1. UNCHANGED <<manager, reload>>
      BY <1>5 DEF Logging, StartEvent
    <2> QED
      BY <2>1 DEF manager, reload, JobInv, Calls
  <1> QED
    BY <1>1, <1>2, <1>3, <1>4, <1>5 DEF SysNext, ReloadStep

(* Its changes reach the root only when the root is one of the names.     *)
LEMMA StepRootKept ==
  ASSUME TableInv, JobInv, RootKept, IInv, SysNext
  PROVE  RootKept' /\ touched \subseteq touched'
  <1>1. CASE ReloadCall
    <2>1. job # <<>> /\ Changes(Head(job))
      BY <1>1 DEF ReloadCall, Calls, Changes
    <2>2. UNCHANGED touched /\ handle[Reloader] \in Loggers
      BY <1>1, SystemOK DEF ReloadCall, TableInv, ManagerOK
    <2>3. RootName \notin touched => handle[Reloader] # Root
      BY <2>1, HeadIs, SystemOK
    <2>4. \A l \in Loggers \ {handle[Reloader]} : appenders'[l] = appenders[l]
      BY <1>1, <2>2 DEF ReloadCall, SetLevel, ClearAppender, SetAppenderLevel,
                        AddAppender, IInv, TypeOK
    <2> QED
      BY <2>3, <2>4, <2>2, LoggerOK DEF RootKept
  <1>2. CASE ~ReloadCall
    <2>1. appenders' = appenders
      BY <1>2 DEF SysNext, ReloadBegin, ReloadStep, Announce, ReloadGet, UseTable, Made,
                  StartEvent, Logging, Found, Missed, Erase, Push, Insert, Macro, vars,
                  LogStep, Enter, Refuse, Acquire, Skip, Accept, Write, LoopDone,
                  Delegate, Leave
    <2>2. touched \subseteq touched'
      BY <1>2 DEF SysNext, ReloadBegin, ReloadStep, Announce, ReloadGet, UseTable, Made,
                  StartEvent, Logging, reload
    <2> QED
      BY <2>1, <2>2 DEF RootKept
  <1> QED
    BY <1>1, <1>2

(* One step of the system. *)
LEMMA NextReloadInv == TableInv /\ IInv /\ ReloadInv /\ [SysNext]_sysvars => ReloadInv'
  <1> SUFFICES ASSUME TableInv, IInv, ReloadInv, [SysNext]_sysvars PROVE ReloadInv'
    OBVIOUS
  <1>1. CASE SysNext
    <2>1. NamedInv'
      <3>1. CASE UNCHANGED manager
        BY <3>1 DEF manager, ReloadInv, NamedInv
      <3>2. CASE \E t \in Thread : TableStep(t)
        BY <3>2, StepNamed DEF ReloadInv
      <3> QED
        BY <1>1, <3>1, <3>2, StepKinds
    <2>2. JobInv' /\ RootKept'
      BY <1>1, StepJob, StepRootKept DEF ReloadInv
    <2> QED
      BY <2>1, <2>2 DEF ReloadInv
  <1>2. CASE UNCHANGED sysvars
    BY <1>2 DEF sysvars, vars, manager, reload, ReloadInv, NamedInv, JobInv, Calls,
                RootKept
  <1> QED
    BY <1>1, <1>2

(* What the listener holds and has still to do is consistent in every     *)
(* reachable state (log.cc:480-528).                                      *)
LEMMA ReloadKept == SysSpec => []ReloadInv
  BY ReloadStarts, NextReloadInv, TableConsistent, SystemIsLogging, LoggerInductive, PTL
  DEF SysSpec

-----------------------------------------------------------------------------
(* Nothing refuses the event of that thread. *)
Sure(t) ==
  /\ severity[t] \in Loudest
  /\ RootName \notin touched
  /\ origin[t] \notin Rootless \ {Root}

(* A call that has gone past an appender, or through its list, has written *)
(* the event somewhere.                                                    *)
Told(t) == pc[t] = "leave" \/ (Inside(t) /\ pos[t] > 1)
SaidInv ==
  \A t \in Thread : Sure(t) /\ Told(t) => \E a \in Appender : Wrote(a, event[t])

(* What is written stays written. *)
LEMMA WrittenStays ==
  ASSUME IInv, NEW t \in Thread, Step(t), NEW a \in Appender, NEW e,
         \E i \in 1..Len(out[a]) : out[a][i] = e
  PROVE  \E i \in 1..Len(out'[a]) : out'[a][i] = e
  <1> USE LoggerOK DEF IInv, TypeOK
  <1>1. CASE Write(t)
    <2>1. out' = [out EXCEPT ![target[t]] = Append(@, event[t])]
      BY <1>1 DEF Write
    <2>2. out'[a] = out[a] \/ out'[a] = Append(out[a], event[t])
      BY <2>1
    <2>3. out[a] \in Seq(Nat) /\ event[t] \in Nat
      OBVIOUS
    <2>4. \A i \in 1..Len(out[a]) :
            /\ i \in 1..Len(Append(out[a], event[t]))
            /\ Append(out[a], event[t])[i] = out[a][i]
      BY <2>3
    <2> QED
      BY <2>2, <2>4
  <1>2. CASE ~Write(t)
    <2>1. out' = out
      BY <1>2 DEF Step, LogStep, AdminStep, Macro, Enter, Refuse, Acquire, Skip,
                  Accept, LoopDone, Delegate, Leave, SetLevel, AddAppender,
                  DelAppender, ClearAppender, SetAppenderLevel, Admin
    <2> QED
      BY <2>1
  <1> QED
    BY <1>1, <1>2

(* A step of one thread leaves the calls of the others alone. *)
LEMMA OthersStay ==
  ASSUME IInv, NEW t \in Thread, Step(t), NEW u \in Thread, u # t
  PROVE  /\ pc'[u] = pc[u] /\ pos'[u] = pos[u] /\ event'[u] = event[u]
         /\ severity'[u] = severity[u] /\ origin'[u] = origin[u]
  <1> USE DEF IInv, TypeOK, Goto
  <1>1. CASE \E l \in Loggers, sev \in Level : Macro(t, l, sev)
    BY <1>1 DEF Macro
  <1>2. CASE LogStep(t)
    BY <1>2 DEF LogStep, Enter, Refuse, Acquire, Skip, Accept, Write, LoopDone,
                Delegate, Leave, Return, Finish, Resume
  <1>3. CASE AdminStep(t)
    BY <1>3 DEF AdminStep, Admin, SetLevel, AddAppender, DelAppender,
                ClearAppender, SetAppenderLevel
  <1> QED
    BY <1>1, <1>2, <1>3 DEF Step

(* The loudest events pass every level. *)
LEMMA NoneRefuses ==
  ASSUME IInv, NEW t \in Thread, Sure(t)
  PROVE  /\ ~Refuse(t) /\ ~Skip(t)
         /\ LoopDone(t) /\ RootKept => pos[t] > 1
  <1> USE LoggerOK DEF IInv, TypeOK, Sure, Loudest
  <1>1. ASSUME NEW r \in Level, r > severity[t] PROVE FALSE
    <2>1. r \in Nat /\ severity[t] \in Nat /\ r <= severity[t]
      OBVIOUS
    <2> QED
      BY <1>1, <2>1
  <1>2. ASSUME Refuse(t) PROVE FALSE
    <2>1. level[at[t]] \in Level /\ level[at[t]] > severity[t]
      BY <1>2 DEF Refuse
    <2> QED
      BY <1>1, <2>1
  <1>3. ASSUME Skip(t) PROVE FALSE
    <2>1. Current(t) \in Appender
      BY <1>3 DEF Skip, List, Current
    <2>2. apLevel[Current(t)] \in Level /\ apLevel[Current(t)] > severity[t]
      BY <1>3, <2>1 DEF Skip
    <2> QED
      BY <1>1, <2>2
  <1>4. ASSUME LoopDone(t), RootKept PROVE pos[t] > 1
    <2>1. List(t) \in Seq(Appender) /\ pos[t] > Len(List(t))
      BY <1>4 DEF LoopDone, List
    <2>2. CASE List(t) # <<>>
      BY <2>1, <2>2
    <2>3. CASE List(t) = <<>> /\ at[t] \in Rootless
      <3>1. at[t] = Root
        BY <2>3 DEF FallbackStillDue
      <3> QED
        BY <1>4, <2>3, <3>1 DEF RootKept, List
    <2> QED
      BY <1>4, <2>2, <2>3 DEF LoopDone, HasRoot
  <1> QED
    BY <1>2, <1>3, <1>4

(* A call keeps what it has said, ...                                      *)
LEMMA StepSaid ==
  ASSUME IInv, RootKept, SaidInv, touched \subseteq touched', NEW t \in Thread, Step(t)
  PROVE  SaidInv'
  <1> USE DEF IInv, TypeOK, Goto
  <1> SUFFICES ASSUME NEW u \in Thread, Sure(u)', Told(u)'
               PROVE  \E a \in Appender : Wrote(a, event[u])'
    BY DEF SaidInv
  <1>1. ASSUME event'[u] = event[u], \E a \in Appender : Wrote(a, event[u])
        PROVE  \E a \in Appender : Wrote(a, event[u])'
    <2>1. PICK a \in Appender : \E i \in 1..Len(out[a]) : out[a][i] = event[u]
      BY <1>1 DEF Wrote
    <2>2. \E i \in 1..Len(out'[a]) : out'[a][i] = event[u]
      BY <2>1, WrittenStays
    <2> QED
      BY <1>1, <2>2 DEF Wrote
  <1>2. CASE u # t
    <2>1. event'[u] = event[u] /\ Sure(u) /\ Told(u)
      BY <1>2, OthersStay DEF Sure, Told, Inside
    <2> QED
      BY <1>1, <2>1 DEF SaidInv
  <1>3. CASE u = t
    <2>1. CASE AdminStep(t)
      <3>1. /\ UNCHANGED <<pc, pos, event, severity, origin>>
        BY <2>1 DEF AdminStep, Admin, SetLevel, AddAppender, DelAppender,
                    ClearAppender, SetAppenderLevel
      <3>2. event'[u] = event[u] /\ Sure(u) /\ Told(u)
        BY <3>1 DEF Sure, Told, Inside
      <3> QED
        BY <1>1, <3>2 DEF SaidInv
    <2>2. CASE \E l \in Loggers, sev \in Level : Macro(t, l, sev)
      <3>1. pc'[u] = "enter"
        BY <1>3, <2>2 DEF Macro
      <3> QED
        BY <3>1 DEF Told, Inside
    <2>3. CASE Enter(t) \/ Delegate(t)
      <3>1. pc'[u] \in {"enter", "wait"}
        BY <1>3, <2>3 DEF Enter, Delegate
      <3> QED
        BY <3>1 DEF Told, Inside
    <2>4. CASE Acquire(t)
      <3>1. pc'[u] = "loop" /\ pos'[u] = 1
        BY <1>3, <2>4 DEF Acquire
      <3> QED
        BY <3>1 DEF Told, Inside
    <2>5. CASE Write(t)
      <3>1. /\ target[t] \in Appender
            /\ out' = [out EXCEPT ![target[t]] = Append(@, event[t])]
            /\ event' = event
        <4>1. pos[t] <= Len(List(t)) /\ target[t] = Current(t)
          BY <2>5 DEF Write, FrameInv
        <4> QED
          BY <2>5, <4>1, LoggerOK DEF Write, List, Current
      <3>2. out'[target[t]] = Append(out[target[t]], event[t])
        BY <3>1
      <3>3. out[target[t]] \in Seq(Nat) /\ event[t] \in Nat
        BY <3>1
      <3>4. /\ Len(out[target[t]]) + 1 \in 1..Len(Append(out[target[t]], event[t]))
            /\ Append(out[target[t]], event[t])[Len(out[target[t]]) + 1] = event[t]
        BY <3>3
      <3>5. \E i \in 1..Len(out'[target[t]]) : out'[target[t]][i] = event'[u]
        BY <1>3, <3>1, <3>2, <3>4
      <3> QED
        BY <3>1, <3>5 DEF Wrote
    <2>6. CASE Refuse(t) \/ Leave(t)
      <3>1. Resume(t)
        <4>1. ~Finish(t)
          BY <1>3 DEF Finish, Told, Inside
        <4> QED
          BY <2>6, <4>1 DEF Refuse, Leave, Return
      <3>2. event'[u] = event[u] /\ Sure(u)
        BY <3>1 DEF Resume, Sure
      <3>3. Told(u)
        BY <1>3, <2>6, <3>2, NoneRefuses DEF Leave, Told
      <3> QED
        BY <1>1, <3>2, <3>3 DEF SaidInv
    <2>7. CASE Skip(t) \/ Accept(t) \/ LoopDone(t)
      <3>1. event'[u] = event[u] /\ Sure(u)
        BY <2>7 DEF Skip, Accept, LoopDone, Sure
      <3>2. Told(u)
        <4>1. CASE Accept(t)
          BY <1>3, <4>1 DEF Accept, Told, Inside
        <4>2. CASE LoopDone(t)
          BY <1>3, <3>1, <4>2, NoneRefuses DEF LoopDone, Told, Inside
        <4> QED
          BY <1>3, <2>7, <3>1, <4>1, <4>2, NoneRefuses
      <3> QED
        BY <1>1, <3>1, <3>2 DEF SaidInv
    <2> QED
      BY <2>1, <2>2, <2>3, <2>4, <2>5, <2>6, <2>7 DEF Step, LogStep
  <1> QED
    BY <1>2, <1>3

(* ... whatever the system does meanwhile.                                 *)
LEMMA NextSaid ==
  TableInv /\ IInv /\ ReloadInv /\ SaidInv /\ [SysNext]_sysvars => SaidInv'
  <1> SUFFICES ASSUME TableInv, IInv, ReloadInv, SaidInv, [SysNext]_sysvars
               PROVE  SaidInv'
    OBVIOUS
  <1>1. touched \subseteq touched'
    BY StepRootKept DEF ReloadInv, sysvars, reload
  <1>2. [Next]_vars
    BY SystemStepsLog
  <1>3. CASE Next
    <2>1. PICK t \in Thread : Step(t)
      BY <1>3 DEF Next, Step
    <2> QED
      BY <1>1, <2>1, StepSaid DEF ReloadInv
  <1>4. CASE UNCHANGED vars
    BY <1>1, <1>4 DEF vars, SaidInv, Sure, Told, Inside, Wrote
  <1> QED
    BY <1>2, <1>3, <1>4

(* A call that returns has written an event nothing refuses. *)
LEMMA ReturnSaid ==
  ASSUME TableInv, IInv, RootKept, SaidInv, SysNext,
         NEW t \in Thread, Returns(t), Sure(t)
  PROVE  \E a \in Appender : Count(a, event[t]) > 0
  <1> USE DEF IInv, TypeOK, Returns
  <1>1. [Next]_vars
    BY SystemStepsLog
  <1>2. Next
    BY <1>1 DEF vars
  <1>3. PICK u \in Thread : Step(u)
    BY <1>2 DEF Next, Step
  <1>4. u = t
    BY <1>3, OthersStay
  <1>5. Leave(t)
    BY <1>3, <1>4, NoneRefuses
    DEF Step, LogStep, AdminStep, Macro, Goto, Enter, Acquire, Skip, Accept, Write,
        LoopDone, Delegate, SetLevel, AddAppender, DelAppender, ClearAppender,
        SetAppenderLevel, Admin
  <1>6. out' = out /\ Told(t)
    BY <1>5 DEF Leave, Told
  <1>7. PICK a \in Appender : \E i \in 1..Len(out[a]) : out[a][i] = event[t]
    BY <1>6 DEF SaidInv, Wrote
  <1> DEFINE I == {i \in DOMAIN out'[a] : out'[a][i] = event[t]}
  <1>8. out'[a] \in Seq(Nat) /\ DOMAIN out'[a] = 1..Len(out'[a]) /\ Len(out'[a]) \in Nat
    BY <1>6
  <1>9. IsFiniteSet(I)
    <2>1. I \subseteq 1..Len(out'[a])
      BY <1>8
    <2>2. IsFiniteSet(1..Len(out'[a]))
      <3>1. 1 \in Int /\ Len(out'[a]) \in Int
        BY <1>8
      <3> QED
        BY <3>1, FS_Interval
    <2> HIDE DEF I
    <2> QED
      BY <2>1, <2>2, FS_Subset
  <1>10. I # {}
    BY <1>6, <1>7, <1>8
  <1>11. Cardinality(I) \in Nat /\ Cardinality(I) # 0
    <2> HIDE DEF I
    <2> QED
      BY <1>9, <1>10, FS_CardinalityType, FS_EmptySet
  <1>12. Count(a, event[t]) = Cardinality(I)
    BY DEF Count
  <1> HIDE DEF I
  <1> QED
    BY <1>11, <1>12

(* An event that no level refuses is written, whatever reloads do to its   *)
(* logger meanwhile, as long as they leave the root alone and the logger   *)
(* has one (log.cc:222-235, 480-528).                                      *)
THEOREM NothingVanishes == SysSpec => NeverVanishes
  <1>1. SysInit => SaidInv
    BY DEF SysInit, Init, SaidInv, Told, Inside
  <1>2. SysSpec => []SaidInv
    BY <1>1, NextSaid, ReloadKept, TableConsistent, SystemIsLogging, LoggerInductive, PTL
    DEF SysSpec
  <1>3. TableInv /\ IInv /\ ReloadInv /\ SaidInv /\ [SysNext]_sysvars =>
          [\A t \in User :
             /\ Returns(t) /\ severity[t] \in Loudest
             /\ RootName \notin touched /\ origin[t] \notin Rootless \ {Root}
             => \E a \in Appender : Count(a, event[t]) > 0]_sysvars
    BY ReturnSaid DEF Sure, ReloadInv, User
  <1> QED
    BY <1>2, <1>3, ReloadKept, TableConsistent, SystemIsLogging, LoggerInductive, PTL
    DEF SysSpec, NeverVanishes

-----------------------------------------------------------------------------
(* The fourth part: what a reload leaves behind.  The calls of the         *)
(* listener are read as a program on the configuration by name, whatever   *)
(* logger objects stand for the names.                                     *)

ApDefs == [appender : Appender, level : Level]

(* Levels and appenders of each name, levels of the appenders, and the     *)
(* name of the logger the listener holds.                                  *)
Named ==
  [lev : [Name -> Level], list : [Name -> Seq(Appender)],
   ap : [Appender -> Level], cur : Name]

(* What one call of the listener makes of it. *)
After(v, c) ==
  [lev  |-> IF c.op = "level" THEN [v.lev EXCEPT ![v.cur] = c.x] ELSE v.lev,
   list |-> IF c.op = "clear" THEN [v.list EXCEPT ![v.cur] = <<>>]
            ELSE IF c.op = "add"
              THEN [v.list EXCEPT ![v.cur] = Append(v.list[v.cur], c.x)]
            ELSE v.list,
   ap   |-> IF c.op = "aplevel" THEN [v.ap EXCEPT ![c.x.appender] = c.x.level]
            ELSE v.ap,
   cur  |-> IF c.op = "get" THEN c.x ELSE v.cur]

(* The calls of p lead from v to w. *)
Leads(v, p, w) ==
  \E h : /\ h[0] = v /\ h[Len(p)] = w
         /\ \A i \in 1..Len(p) : h[i] = After(h[i - 1], p[i])

(* No call changes nothing. *)
LEMMA LeadsNone ==
  ASSUME NEW v, NEW w
  PROVE  Leads(v, <<>>, w) <=> v = w
  <1>1. Len(<<>>) = 0
    OBVIOUS
  <1>2. ASSUME v = w PROVE Leads(v, <<>>, w)
    <2> DEFINE h == [i \in {0} |-> v]
    <2>1. h[0] = v
      OBVIOUS
    <2> HIDE DEF h
    <2> QED
      BY <1>1, <1>2, <2>1 DEF Leads
  <1> QED
    BY <1>1, <1>2 DEF Leads

(* One call. *)
LEMMA LeadsOne ==
  ASSUME NEW v, NEW op, NEW x
  PROVE  Leads(v, Call(op, x), After(v, [op |-> op, x |-> x]))
  <1> DEFINE p == Call(op, x)
             c == [op |-> op, x |-> x]
             h == [i \in 0..1 |-> IF i = 0 THEN v ELSE After(v, c)]
  <1>1. Len(p) = 1 /\ p[1] = c
    BY DEF Call
  <1>2. h[0] = v /\ h[1] = After(v, c) /\ \A i \in 1..1 : i = 1 /\ i - 1 = 0
    OBVIOUS
  <1> HIDE DEF p, c, h
  <1>3. \A i \in 1..Len(p) : h[i] = After(h[i - 1], p[i])
    BY <1>1, <1>2
  <1>4. Leads(v, p, After(v, c))
    BY <1>1, <1>2, <1>3 DEF Leads
  <1> QED
    BY <1>4 DEF p, c

(* Calls, and then others. *)
LEMMA LeadsThen ==
  ASSUME NEW S, NEW p \in Seq(S), NEW q \in Seq(S), NEW v, NEW w, NEW x,
         Leads(v, p, w), Leads(w, q, x)
  PROVE  Leads(v, p \o q, x)
  <1>1. PICK f : /\ f[0] = v /\ f[Len(p)] = w
                 /\ \A i \in 1..Len(p) : f[i] = After(f[i - 1], p[i])
    BY DEF Leads
  <1>2. PICK g : /\ g[0] = w /\ g[Len(q)] = x
                 /\ \A i \in 1..Len(q) : g[i] = After(g[i - 1], q[i])
    BY DEF Leads
  <1> DEFINE m == Len(p)
             r == p \o q
             h == [i \in 0..(m + Len(q)) |-> IF i <= m THEN f[i] ELSE g[i - m]]
  <1>3. /\ m \in Nat /\ Len(q) \in Nat /\ Len(r) = m + Len(q)
        /\ \A k \in 1..m : r[k] = p[k]
        /\ \A k \in 1..Len(q) : r[m + k] = q[k]
    BY TwoParts
  <1> HIDE DEF m, r
  <1>4. /\ \A i \in 0..m : h[i] = f[i]
        /\ \A i \in 1..Len(q) : h[m + i] = g[i]
    BY <1>3
  <1> HIDE DEF h
  <1>5. h[m] = g[0]
    BY <1>1, <1>2, <1>3, <1>4 DEF m
  <1>6. h[0] = v /\ h[Len(r)] = x
    <2>1. CASE Len(q) = 0
      BY <1>1, <1>2, <1>3, <1>4, <1>5, <2>1
    <2>2. CASE Len(q) # 0
      BY <1>1, <1>2, <1>3, <1>4, <2>2
    <2> QED
      BY <2>1, <2>2
  <1>7. ASSUME NEW i \in 1..Len(r)
        PROVE  h[i] = After(h[i - 1], r[i])
    <2>1. CASE i <= m
      <3>1. i \in 1..m /\ i - 1 \in 0..m /\ i \in 0..m
        BY <1>3, <2>1
      <3>2. f[i] = After(f[i - 1], p[i])
        BY <1>1, <3>1 DEF m
      <3> QED
        BY <1>3, <1>4, <3>1, <3>2
    <2>2. ASSUME NEW k \in 1..Len(q), i = m + k
          PROVE  h[i] = After(h[i - 1], r[i])
      <3>1. h[i] = g[k] /\ r[i] = q[k] /\ g[k] = After(g[k - 1], q[k])
        BY <1>2, <1>3, <1>4, <2>2
      <3>2. h[i - 1] = g[k - 1]
        <4>1. CASE k = 1
          BY <1>3, <1>5, <2>2, <4>1
        <4>2. CASE k # 1
          <5>1. k - 1 \in 1..Len(q) /\ m + (k - 1) = i - 1
            BY <1>3, <2>2, <4>2
          <5> QED
            BY <1>4, <5>1
        <4> QED
          BY <4>1, <4>2
      <3> QED
        BY <3>1, <3>2
    <2>3. i <= m \/ (i - m \in 1..Len(q) /\ i = m + (i - m))
      BY <1>3
    <2> QED
      BY <2>1, <2>2, <2>3
  <1> QED
    BY <1>6, <1>7 DEF Leads, r

(* All but the first call, after it. *)
LEMMA LeadsOn ==
  ASSUME NEW S, NEW p \in Seq(S), p # <<>>, NEW v, NEW w, Leads(v, p, w)
  PROVE  Leads(After(v, p[1]), Tail(p), w)
  <1>1. PICK f : /\ f[0] = v /\ f[Len(p)] = w
                 /\ \A i \in 1..Len(p) : f[i] = After(f[i - 1], p[i])
    BY DEF Leads
  <1> DEFINE q == Tail(p)
             h == [i \in 0..Len(q) |-> f[i + 1]]
  <1>2. /\ Len(q) \in Nat /\ Len(p) = Len(q) + 1
        /\ \A i \in 1..Len(q) : q[i] = p[i + 1]
    OBVIOUS
  <1> HIDE DEF q
  <1>3. \A i \in 0..Len(q) : h[i] = f[i + 1]
    OBVIOUS
  <1> HIDE DEF h
  <1>4. h[0] = After(v, p[1]) /\ h[Len(q)] = w
    <2>1. 1 \in 1..Len(p) /\ 0 \in 0..Len(q) /\ Len(q) \in 0..Len(q)
          /\ 0 + 1 = 1 /\ 1 - 1 = 0
      BY <1>2
    <2>2. f[1] = After(f[0], p[1]) /\ h[0] = f[1] /\ h[Len(q)] = f[Len(p)]
      BY <1>1, <1>2, <1>3, <2>1
    <2> QED
      BY <1>1, <2>2
  <1>5. ASSUME NEW i \in 1..Len(q)
        PROVE  h[i] = After(h[i - 1], q[i])
    <2>1. /\ i \in 0..Len(q) /\ i - 1 \in 0..Len(q) /\ (i - 1) + 1 = i
          /\ i + 1 \in 1..Len(p) /\ (i + 1) - 1 = i
      BY <1>2
    <2>2. h[i] = f[i + 1] /\ h[i - 1] = f[i] /\ q[i] = p[i + 1]
      BY <1>2, <1>3, <2>1
    <2>3. f[i + 1] = After(f[i], p[i + 1])
      BY <1>1, <2>1
    <2> QED
      BY <2>2, <2>3
  <1>6. Leads(After(v, p[1]), q, w)
    BY <1>4, <1>5 DEF Leads
  <1> QED
    BY <1>6 DEF q

-----------------------------------------------------------------------------
(* The appenders of a definition, in order. *)
Listing(as) == [i \in DOMAIN as |-> as[i].appender]

(* No two definitions of the list are of the same appender. *)
Distinct(as) ==
  \A i, j \in DOMAIN as : as[i].appender = as[j].appender => i = j

(* A list of definitions as a function of its positions. *)
LEMMA ListingType ==
  ASSUME NEW as \in Seq(ApDefs)
  PROVE  /\ DOMAIN as = 1..Len(as) /\ Len(as) \in Nat
         /\ \A i \in 1..Len(as) : /\ as[i] \in ApDefs /\ as[i].level \in Level
                                  /\ as[i].appender \in Appender
         /\ Listing(as) \in Seq(Appender) /\ Len(Listing(as)) = Len(as)
         /\ DOMAIN Listing(as) = 1..Len(as)
         /\ \A i \in 1..Len(as) : Listing(as)[i] = as[i].appender
  <1> DEFINE r == Listing(as)
  <1>1. /\ DOMAIN as = 1..Len(as) /\ Len(as) \in Nat
        /\ \A i \in 1..Len(as) : as[i] \in ApDefs
    BY ElementsOf
  <1>2. \A i \in 1..Len(as) : as[i].level \in Level /\ as[i].appender \in Appender
    BY <1>1 DEF ApDefs
  <1>3. r = [i \in 1..Len(as) |-> as[i].appender]
    BY <1>1 DEF Listing
  <1> HIDE DEF r
  <1>4. r = [i \in 1..Len(as) |-> r[i]] /\ \A i \in 1..Len(as) : r[i] = as[i].appender
    BY <1>3
  <1>5. r \in Seq(Appender) /\ Len(r) = Len(as)
    <2> DEFINE n == Len(as)
    <2>1. /\ n \in Nat /\ r = [i \in 1..n |-> r[i]]
          /\ \A i \in 1..n : r[i] \in Appender
      BY <1>1, <1>2, <1>4
    <2> HIDE DEF n
    <2>2. r \in Seq(Appender) /\ Len(r) = n
      BY <2>1, SequenceOf
    <2> QED
      BY <2>2 DEF n
  <1> QED
    BY <1>1, <1>2, <1>4, <1>5 DEF r

(* An appender is made, given its level, and added. *)
LEMMA AddOneLeads ==
  ASSUME NEW v \in Named, NEW e \in ApDefs
  PROVE  LET w == [lev |-> v.lev,
                   list |-> [v.list EXCEPT ![v.cur] = Append(v.list[v.cur], e.appender)],
                   ap |-> [v.ap EXCEPT ![e.appender] = e.level],
                   cur |-> v.cur]
         IN  /\ w \in Named
             /\ AddOne(e) \in Seq(JobCalls)
             /\ Leads(v, AddOne(e), w)
  <1> DEFINE c == [op |-> "aplevel", x |-> e]
             d == [op |-> "add", x |-> e.appender]
             w == [lev |-> v.lev,
                   list |-> [v.list EXCEPT ![v.cur] = Append(v.list[v.cur], e.appender)],
                   ap |-> [v.ap EXCEPT ![e.appender] = e.level],
                   cur |-> v.cur]
  <1>1. e.appender \in Appender /\ e.level \in Level
    BY DEF ApDefs
  <1>2. /\ v.lev \in [Name -> Level] /\ v.list \in [Name -> Seq(Appender)]
        /\ v.ap \in [Appender -> Level] /\ v.cur \in Name
    BY DEF Named
  <1>3. Append(v.list[v.cur], e.appender) \in Seq(Appender)
    <2>1. v.list[v.cur] \in Seq(Appender)
      BY <1>2
    <2> QED
      BY <1>1, <2>1
  <1>4. w \in Named
    BY <1>1, <1>2, <1>3 DEF Named
  <1>5. /\ Call("aplevel", e) \in Seq(JobCalls) /\ Call("add", e.appender) \in Seq(JobCalls)
    <2>1. e \in Arguments /\ e.appender \in Arguments
      BY <1>1 DEF Arguments, ApDefs
    <2> QED
      BY <2>1, OneCall
  <1>6. After(After(v, c), d) = w
    BY DEF After
  <1>7. Leads(v, Call("aplevel", e), After(v, c))
        /\ Leads(After(v, c), Call("add", e.appender), w)
    BY <1>6, LeadsOne
  <1> HIDE DEF w, c, d
  <1>8. AddOne(e) \in Seq(JobCalls) /\ Leads(v, AddOne(e), w)
    BY <1>5, <1>7, LeadsThen, TwoParts DEF AddOne
  <1> QED
    BY <1>4, <1>8 DEF w

(* The calls for a list of appenders, one after the other. *)
Adding(as) == [i \in DOMAIN as |-> AddOne(as[i])]

(* They are sequences of calls. *)
LEMMA AddingType ==
  ASSUME NEW as \in Seq(ApDefs)
  PROVE  /\ Adding(as) \in Seq(Seq(JobCalls)) /\ Len(Adding(as)) = Len(as)
         /\ FlattenSeq(Adding(as)) \in Seq(JobCalls)
  <1> DEFINE s == Adding(as)
  <1>1. /\ DOMAIN as = 1..Len(as) /\ Len(as) \in Nat
        /\ \A i \in 1..Len(as) : as[i] \in ApDefs /\ as[i].appender \in Appender
    BY ListingType
  <1>2. ASSUME NEW i \in 1..Len(as)
        PROVE  AddOne(as[i]) \in Seq(JobCalls)
    <2>1. as[i] \in Arguments /\ as[i].appender \in Arguments
      BY <1>1 DEF Arguments, ApDefs
    <2>2. /\ Call("aplevel", as[i]) \in Seq(JobCalls)
          /\ Call("add", as[i].appender) \in Seq(JobCalls)
      BY <2>1, OneCall
    <2> QED
      BY <2>2, TwoParts DEF AddOne
  <1>3. s = [i \in 1..Len(as) |-> s[i]] /\ \A i \in 1..Len(as) : s[i] = AddOne(as[i])
    BY <1>1 DEF Adding
  <1> HIDE DEF s
  <1>4. s \in Seq(Seq(JobCalls)) /\ Len(s) = Len(as)
    <2> DEFINE n == Len(as)
    <2>1. /\ n \in Nat /\ s = [i \in 1..n |-> s[i]]
          /\ \A i \in 1..n : s[i] \in Seq(JobCalls)
      BY <1>1, <1>2, <1>3
    <2> HIDE DEF n
    <2>2. s \in Seq(Seq(JobCalls)) /\ Len(s) = n
      BY <2>1, SequenceOf
    <2> QED
      BY <2>2 DEF n
  <1> QED
    BY <1>4, FlattenType DEF s

(* One appender more. *)
LEMMA OneMore ==
  ASSUME NEW q \in Seq(ApDefs), NEW e \in ApDefs
  PROVE  /\ Append(q, e) \in Seq(ApDefs) /\ Len(Append(q, e)) = Len(q) + 1
         /\ Adding(Append(q, e)) = Append(Adding(q), AddOne(e))
         /\ Listing(Append(q, e)) = Append(Listing(q), e.appender)
         /\ Append(q, e)[Len(q) + 1] = e
         /\ \A i \in 1..Len(q) : Append(q, e)[i] = q[i]
  <1> DEFINE r == Append(q, e)
             n == Len(q)
  <1>1. /\ r \in Seq(ApDefs) /\ Len(r) = n + 1 /\ n \in Nat
        /\ r[n + 1] = e /\ \A i \in 1..n : r[i] = q[i]
    OBVIOUS
  <1>2. DOMAIN r = 1..(n + 1) /\ DOMAIN q = 1..n
    OBVIOUS
  <1>3. /\ e.appender \in Appender /\ AddOne(e) \in Seq(JobCalls)
    <2>1. e.appender \in Appender /\ e \in Arguments /\ e.appender \in Arguments
      BY DEF Arguments, ApDefs
    <2>2. /\ Call("aplevel", e) \in Seq(JobCalls)
          /\ Call("add", e.appender) \in Seq(JobCalls)
      BY <2>1, OneCall
    <2> QED
      BY <2>1, <2>2, TwoParts DEF AddOne
  <1> DEFINE A == Append(Adding(q), AddOne(e))
             B == Append(Listing(q), e.appender)
  <1>4. /\ A = [i \in 1..(n + 1) |-> A[i]] /\ A[n + 1] = AddOne(e)
        /\ \A i \in 1..n : A[i] = Adding(q)[i]
    <2>1. Adding(q) \in Seq(Seq(JobCalls)) /\ Len(Adding(q)) = n /\ n \in Nat
      BY AddingType
    <2> HIDE DEF n
    <2> QED
      BY <1>3, <2>1, AppendIs
  <1>5. /\ B = [i \in 1..(n + 1) |-> B[i]] /\ B[n + 1] = e.appender
        /\ \A i \in 1..n : B[i] = Listing(q)[i]
    <2>1. Listing(q) \in Seq(Appender) /\ Len(Listing(q)) = n /\ n \in Nat
      BY ListingType
    <2> HIDE DEF n
    <2> QED
      BY <1>3, <2>1, AppendIs
  <1> HIDE DEF r, n, A, B
  <1>6. \A i \in 1..(n + 1) : i = n + 1 \/ i \in 1..n
    BY <1>1
  <1>7. Adding(r) = A
    <2>1. \A i \in 1..n : Adding(q)[i] = AddOne(q[i])
      BY <1>2 DEF Adding
    <2>2. \A i \in 1..(n + 1) : A[i] = AddOne(r[i])
      BY <1>1, <1>4, <1>6, <2>1
    <2> QED
      BY <1>2, <1>4, <2>2 DEF Adding
  <1>8. Listing(r) = B
    <2>1. \A i \in 1..n : Listing(q)[i] = q[i].appender
      BY <1>2 DEF Listing
    <2>2. \A i \in 1..(n + 1) : B[i] = r[i].appender
      BY <1>1, <1>5, <1>6, <2>1
    <2> QED
      BY <1>2, <1>5, <2>2 DEF Listing
  <1> QED
    BY <1>1, <1>7, <1>8 DEF r, n, A, B

(* What adding the appenders of a list makes of v. *)
Added(v, as, w) ==
  /\ Leads(v, FlattenSeq(Adding(as)), w)
  /\ w.lev = v.lev /\ w.cur = v.cur
  /\ w.list = [v.list EXCEPT ![v.cur] = Listing(as)]
  /\ \A i \in 1..Len(as) : w.ap[as[i].appender] = as[i].level
  /\ \A x \in Appender :
       (\A i \in 1..Len(as) : as[i].appender # x) => w.ap[x] = v.ap[x]

(* An empty list gets the appenders one by one, with their levels. *)
LEMMA AddsLead ==
  ASSUME NEW as \in Seq(ApDefs), Distinct(as),
         NEW v \in Named, v.list[v.cur] = <<>>
  PROVE  \E w \in Named : Added(v, as, w)
  <1> DEFINE P == {q \in Seq(ApDefs) : Distinct(q) =>
                     \A x \in Named :
                       x.list[x.cur] = <<>> => \E w \in Named : Added(x, q, w)}
  <1>1. <<>> \in P
    <2>1. <<>> \in Seq(ApDefs) /\ Len(<<>>) = 0
      OBVIOUS
    <2>2. ASSUME NEW x \in Named, x.list[x.cur] = <<>>
          PROVE  Added(x, <<>>, x)
      <3>1. FlattenSeq(Adding(<<>>)) = <<>>
        <4>1. Adding(<<>>) \in Seq(Seq(JobCalls)) /\ Len(Adding(<<>>)) = 0
          BY <2>1, AddingType
        <4>2. Adding(<<>>) = <<>>
          BY <4>1
        <4> QED
          BY <4>2, FlattenEmpty
      <3>2. Listing(<<>>) = <<>>
        <4>1. Listing(<<>>) \in Seq(Appender) /\ Len(Listing(<<>>)) = 0
          BY <2>1, ListingType
        <4> QED
          BY <4>1
      <3>3. x.list = [x.list EXCEPT ![x.cur] = <<>>]
        <4>1. x.list \in [Name -> Seq(Appender)] /\ x.cur \in Name
          BY DEF Named
        <4> QED
          BY <2>2, <4>1
      <3>4. Leads(x, FlattenSeq(Adding(<<>>)), x)
        BY <3>1, LeadsNone
      <3> QED
        BY <2>1, <3>2, <3>3, <3>4 DEF Added
    <2> QED
      BY <2>1, <2>2
  <1>2. ASSUME NEW q \in Seq(ApDefs), NEW e \in ApDefs, q \in P
        PROVE  Append(q, e) \in P
    <2> DEFINE r == Append(q, e)
    <2>1. /\ r \in Seq(ApDefs) /\ Len(r) = Len(q) + 1
          /\ Adding(r) = Append(Adding(q), AddOne(e))
          /\ Listing(r) = Append(Listing(q), e.appender)
          /\ r[Len(q) + 1] = e /\ \A i \in 1..Len(q) : r[i] = q[i]
      BY OneMore
    <2>2. /\ Len(q) \in Nat /\ DOMAIN r = 1..(Len(q) + 1) /\ DOMAIN q = 1..Len(q)
          /\ e.appender \in Appender /\ e.level \in Level
          /\ \A i \in 1..Len(q) : q[i].appender \in Appender
      BY <2>1, ListingType DEF ApDefs
    <2> HIDE DEF r
    <2>3. ASSUME Distinct(r), NEW x \in Named, x.list[x.cur] = <<>>
          PROVE  \E w \in Named : Added(x, r, w)
      <3>1. Distinct(q) /\ \A i \in 1..Len(q) : q[i].appender # e.appender
        <4>1. \A i \in 1..Len(q) : i \in DOMAIN r /\ Len(q) + 1 \in DOMAIN r
                                   /\ i # Len(q) + 1
          BY <2>2
        <4>2. ASSUME NEW i \in DOMAIN q, NEW j \in DOMAIN q,
                     q[i].appender = q[j].appender
              PROVE  i = j
          <5>1. i \in DOMAIN r /\ j \in DOMAIN r /\ r[i] = q[i] /\ r[j] = q[j]
            BY <2>1, <2>2, <4>1
          <5> QED
            BY <2>3, <4>2, <5>1 DEF Distinct
        <4>3. ASSUME NEW i \in 1..Len(q), q[i].appender = e.appender
              PROVE  FALSE
          <5>1. i = Len(q) + 1
            BY <2>1, <2>3, <4>1, <4>3 DEF Distinct
          <5> QED
            BY <4>1, <5>1
        <4> QED
          BY <4>2, <4>3 DEF Distinct
      <3>2. PICK y \in Named : Added(x, q, y)
        BY <1>2, <2>3, <3>1
      <3> DEFINE w == [lev |-> y.lev,
                       list |-> [y.list EXCEPT ![y.cur] = Append(y.list[y.cur], e.appender)],
                       ap |-> [y.ap EXCEPT ![e.appender] = e.level],
                       cur |-> y.cur]
      <3>3. w \in Named /\ Leads(y, AddOne(e), w) /\ AddOne(e) \in Seq(JobCalls)
        BY AddOneLeads
      <3>4. Leads(x, FlattenSeq(Adding(r)), w)
        <4>1. /\ Adding(q) \in Seq(Seq(JobCalls))
              /\ FlattenSeq(Adding(q)) \in Seq(JobCalls)
          BY AddingType
        <4>2. FlattenSeq(Adding(r)) = FlattenSeq(Adding(q)) \o AddOne(e)
          BY <2>1, <3>3, <4>1, FlattenAppend
        <4>3. Leads(x, FlattenSeq(Adding(q)), y)
          BY <3>2 DEF Added
        <4> HIDE DEF w
        <4> QED
          BY <3>3, <4>1, <4>2, <4>3, LeadsThen
      <3>5. w.lev = x.lev /\ w.cur = x.cur
        BY <3>2 DEF Added
      <3>6. w.list = [x.list EXCEPT ![x.cur] = Listing(r)]
        <4>1. /\ x.list \in [Name -> Seq(Appender)] /\ x.cur \in Name
              /\ y.list = [x.list EXCEPT ![x.cur] = Listing(q)] /\ y.cur = x.cur
          BY <3>2 DEF Added, Named
        <4>2. y.list[y.cur] = Listing(q)
          BY <4>1
        <4>3. w.list = [y.list EXCEPT ![x.cur] = Listing(r)]
          BY <2>1, <4>1, <4>2
        <4> QED
          BY <4>1, <4>3
      <3>7. ASSUME NEW i \in 1..Len(r)
            PROVE  w.ap[r[i].appender] = r[i].level
        <4>1. y.ap \in [Appender -> Level]
          BY DEF Named
        <4>2. CASE i = Len(q) + 1
          BY <2>1, <2>2, <4>1, <4>2
        <4>3. CASE i \in 1..Len(q)
          <5>1. y.ap[q[i].appender] = q[i].level
            BY <3>2, <4>3 DEF Added
          <5>2. q[i].appender # e.appender /\ r[i] = q[i] /\ q[i].appender \in Appender
            BY <2>1, <2>2, <3>1, <4>3
          <5> QED
            BY <4>1, <5>1, <5>2
        <4> QED
          BY <2>1, <2>2, <4>2, <4>3
      <3>8. ASSUME NEW z \in Appender, \A i \in 1..Len(r) : r[i].appender # z
            PROVE  w.ap[z] = x.ap[z]
        <4>1. /\ z # e.appender
              /\ \A i \in 1..Len(q) : q[i].appender # z
          <5>1. /\ Len(q) + 1 \in 1..Len(r)
                /\ \A i \in 1..Len(q) : i \in 1..Len(r) /\ r[i] = q[i]
            BY <2>1, <2>2
          <5> QED
            BY <2>1, <3>8, <5>1
        <4>2. y.ap[z] = x.ap[z] /\ y.ap \in [Appender -> Level]
          BY <3>2, <4>1 DEF Added, Named
        <4> QED
          BY <4>1, <4>2
      <3> HIDE DEF w
      <3>9. Added(x, r, w)
        BY <3>4, <3>5, <3>6, <3>7, <3>8 DEF Added
      <3> QED
        BY <3>3, <3>9
    <2>4. r \in P
      BY <2>1, <2>3
    <2> QED
      BY <2>4 DEF r
  <1>3. Seq(ApDefs) \subseteq P
    <2> HIDE DEF P
    <2> QED
      BY <1>1, <1>2, SeqInduction
  <1>4. as \in P
    BY <1>3
  <1> QED
    BY <1>4

(* The configuration v gives the name n the definition d. *)
Fits(v, n, d) ==
  /\ v.lev[n] = d.level
  /\ v.list[n] = Listing(d.appenders)
  /\ \A i \in 1..Len(d.appenders) :
       v.ap[d.appenders[i].appender] = d.appenders[i].level

(* The calls for a definition make the configuration fit it, and disturb   *)
(* no definition of other appenders.                                       *)
LEMMA DefineLeads ==
  ASSUME NEW n \in Name, NEW d \in Definition, Distinct(d.appenders), NEW v \in Named
  PROVE  \E w \in Named :
           /\ Leads(v, Define(n, d), w)
           /\ Fits(w, n, d)
           /\ \A m \in Name \ {n} : \A e \in Definition :
                /\ Fits(v, m, e)
                /\ \A i \in 1..Len(d.appenders), j \in 1..Len(e.appenders) :
                     d.appenders[i].appender # e.appenders[j].appender
                => Fits(w, m, e)
  <1> DEFINE c1 == [op |-> "get", x |-> n]
             c2 == [op |-> "level", x |-> d.level]
             c3 == [op |-> "clear", x |-> "all"]
             x == [lev |-> [v.lev EXCEPT ![n] = d.level],
                   list |-> [v.list EXCEPT ![n] = <<>>],
                   ap |-> v.ap, cur |-> n]
             p == Call("get", n) \o Call("level", d.level) \o Call("clear", "all")
  <1>1. d.level \in Level /\ d.appenders \in Seq(ApDefs)
    BY DEF Definition, ApDefs
  <1>2. /\ v.lev \in [Name -> Level] /\ v.list \in [Name -> Seq(Appender)]
        /\ v.ap \in [Appender -> Level] /\ v.cur \in Name
    BY DEF Named
  <1>3. x \in Named /\ x.list[x.cur] = <<>>
    <2>1. <<>> \in Seq(Appender)
      OBVIOUS
    <2> QED
      BY <1>1, <1>2, <2>1 DEF Named
  <1>4. After(After(After(v, c1), c2), c3) = x
    BY DEF After
  <1>5. p \in Seq(JobCalls) /\ Leads(v, p, x)
    <2>1. /\ Call("get", n) \in Seq(JobCalls)
          /\ Call("level", d.level) \in Seq(JobCalls)
          /\ Call("clear", "all") \in Seq(JobCalls)
      <3>1. n \in Arguments /\ d.level \in Arguments /\ "all" \in Arguments
        BY <1>1 DEF Arguments
      <3> QED
        BY <3>1, OneCall
    <2>2. /\ Leads(v, Call("get", n), After(v, c1))
          /\ Leads(After(v, c1), Call("level", d.level), After(After(v, c1), c2))
          /\ Leads(After(After(v, c1), c2), Call("clear", "all"), x)
      BY <1>4, LeadsOne
    <2> HIDE DEF c1, c2, c3, x
    <2>3. /\ Call("get", n) \o Call("level", d.level) \in Seq(JobCalls)
          /\ Leads(v, Call("get", n) \o Call("level", d.level), After(After(v, c1), c2))
      BY <2>1, <2>2, LeadsThen, TwoParts
    <2> QED
      BY <2>1, <2>2, <2>3, LeadsThen, TwoParts
  <1>6. Define(n, d) = p \o FlattenSeq(Adding(d.appenders))
    BY DEF Define, Adding
  <1>7. FlattenSeq(Adding(d.appenders)) \in Seq(JobCalls)
    BY <1>1, AddingType
  <1> HIDE DEF p
  <1>8. PICK w \in Named : Added(x, d.appenders, w)
    <2> HIDE DEF x
    <2> QED
      BY <1>1, <1>3, AddsLead
  <1>9. Leads(v, Define(n, d), w)
    <2>1. Leads(x, FlattenSeq(Adding(d.appenders)), w)
      BY <1>8 DEF Added
    <2> HIDE DEF x
    <2> QED
      BY <1>5, <1>6, <1>7, <2>1, LeadsThen
  <1>10. /\ w.lev = [v.lev EXCEPT ![n] = d.level]
         /\ w.list = [v.list EXCEPT ![n] = Listing(d.appenders)]
         /\ \A i \in 1..Len(d.appenders) :
              w.ap[d.appenders[i].appender] = d.appenders[i].level
         /\ \A z \in Appender :
              (\A i \in 1..Len(d.appenders) : d.appenders[i].appender # z)
                => w.ap[z] = v.ap[z]
    <2>1. w.list = [x.list EXCEPT ![n] = Listing(d.appenders)]
      BY <1>8 DEF Added
    <2>2. w.list = [v.list EXCEPT ![n] = Listing(d.appenders)]
      BY <1>2, <2>1
    <2> QED
      BY <1>8, <2>2 DEF Added
  <1>11. Fits(w, n, d)
    BY <1>2, <1>10 DEF Fits
  <1>12. ASSUME NEW m \in Name \ {n}, NEW e \in Definition, Fits(v, m, e),
                \A i \in 1..Len(d.appenders), j \in 1..Len(e.appenders) :
                  d.appenders[i].appender # e.appenders[j].appender
         PROVE  Fits(w, m, e)
    <2>1. w.lev[m] = v.lev[m] /\ w.list[m] = v.list[m]
      BY <1>2, <1>10
    <2>2. ASSUME NEW j \in 1..Len(e.appenders)
          PROVE  w.ap[e.appenders[j].appender] = v.ap[e.appenders[j].appender]
      <3>1. e.appenders \in Seq(ApDefs)
        BY DEF Definition, ApDefs
      <3>2. e.appenders[j].appender \in Appender
        BY <3>1, ListingType
      <3> QED
        BY <1>10, <1>12, <3>2
    <2> QED
      BY <1>12, <2>1, <2>2 DEF Fits
  <1> QED
    BY <1>9, <1>11, <1>12

-----------------------------------------------------------------------------
(* Definitions for all names, no two of the same appender. *)
Apart(ds) ==
  \A n, m \in Name :
    \A i \in 1..Len(ds[n].appenders), j \in 1..Len(ds[m].appenders) :
      ds[n].appenders[i].appender = ds[m].appenders[j].appender => n = m /\ i = j

(* The calls for those of the names ns that are in T. *)
Defining(ns, T, ds) ==
  [i \in DOMAIN ns |-> IF ns[i] \in T THEN Define(ns[i], ds[ns[i]]) ELSE <<>>]

(* They are sequences of calls. *)
LEMMA DefiningType ==
  ASSUME NEW ns \in Seq(Name), NEW T, NEW ds \in [Name -> Definition]
  PROVE  /\ Defining(ns, T, ds) \in Seq(Seq(JobCalls))
         /\ Len(Defining(ns, T, ds)) = Len(ns)
         /\ FlattenSeq(Defining(ns, T, ds)) \in Seq(JobCalls)
  <1> DEFINE s == Defining(ns, T, ds)
             k == Len(ns)
  <1>1. DOMAIN ns = 1..k /\ k \in Nat /\ \A i \in 1..k : ns[i] \in Name
    BY ElementsOf
  <1>2. /\ s = [i \in 1..k |-> s[i]]
        /\ \A i \in 1..k : s[i] = IF ns[i] \in T THEN Define(ns[i], ds[ns[i]]) ELSE <<>>
    BY <1>1 DEF Defining
  <1> HIDE DEF s, k
  <1>3. ASSUME NEW i \in 1..k
        PROVE  s[i] \in Seq(JobCalls)
    <2>1. ns[i] \in Name /\ ds[ns[i]] \in Definition
      BY <1>1
    <2>2. Define(ns[i], ds[ns[i]]) \in Seq(JobCalls) /\ <<>> \in Seq(JobCalls)
      BY <2>1, DefineOpened
    <2> QED
      BY <1>2, <2>2
  <1>4. s \in Seq(Seq(JobCalls)) /\ Len(s) = k
    BY <1>1, <1>2, <1>3, SequenceOf
  <1> QED
    BY <1>4, FlattenType DEF s, k

(* One name more. *)
LEMMA DefiningMore ==
  ASSUME NEW q \in Seq(Name), NEW e \in Name, NEW T, NEW ds \in [Name -> Definition]
  PROVE  /\ Append(q, e) \in Seq(Name) /\ Len(Append(q, e)) = Len(q) + 1
         /\ Append(q, e)[Len(q) + 1] = e
         /\ \A i \in 1..Len(q) : Append(q, e)[i] = q[i]
         /\ Defining(Append(q, e), T, ds)
              = Append(Defining(q, T, ds), IF e \in T THEN Define(e, ds[e]) ELSE <<>>)
  <1> DEFINE r == Append(q, e)
             n == Len(q)
             b == IF e \in T THEN Define(e, ds[e]) ELSE <<>>
             A == Append(Defining(q, T, ds), b)
  <1>1. /\ r \in Seq(Name) /\ Len(r) = n + 1 /\ n \in Nat
        /\ r[n + 1] = e /\ \A i \in 1..n : r[i] = q[i]
        /\ DOMAIN r = 1..(n + 1) /\ DOMAIN q = 1..n
    OBVIOUS
  <1>2. b \in Seq(JobCalls)
    <2>1. Define(e, ds[e]) \in Seq(JobCalls) /\ <<>> \in Seq(JobCalls)
      BY DefineOpened
    <2> QED
      BY <2>1
  <1> HIDE DEF b
  <1>3. /\ A = [i \in 1..(n + 1) |-> A[i]] /\ A[n + 1] = b
        /\ \A i \in 1..n : A[i] = Defining(q, T, ds)[i]
    <2>1. Defining(q, T, ds) \in Seq(Seq(JobCalls)) /\ Len(Defining(q, T, ds)) = n
          /\ n \in Nat
      BY DefiningType
    <2> HIDE DEF n
    <2> QED
      BY <1>2, <2>1, AppendIs
  <1> HIDE DEF r, n, A
  <1>4. \A i \in 1..(n + 1) : i = n + 1 \/ i \in 1..n
    BY <1>1
  <1>5. \A i \in 1..n :
          Defining(q, T, ds)[i] = IF q[i] \in T THEN Define(q[i], ds[q[i]]) ELSE <<>>
    BY <1>1 DEF Defining
  <1>6. ASSUME NEW i \in 1..(n + 1)
        PROVE  A[i] = IF r[i] \in T THEN Define(r[i], ds[r[i]]) ELSE <<>>
    <2>1. CASE i = n + 1
      BY <1>1, <1>3, <2>1 DEF b
    <2>2. CASE i \in 1..n
      BY <1>1, <1>3, <1>5, <2>2
    <2> QED
      BY <1>4, <2>1, <2>2
  <1>7. Defining(r, T, ds) = A
    BY <1>1, <1>3, <1>6 DEF Defining
  <1> QED
    BY <1>1, <1>7 DEF r, n, A, b

(* Defining names one after the other makes the configuration fit each.    *)
LEMMA DefiningLeads ==
  ASSUME NEW ds \in [Name -> Definition], Apart(ds), NEW T,
         NEW ns \in Seq(Name), NEW v \in Named
  PROVE  \E w \in Named :
           /\ Leads(v, FlattenSeq(Defining(ns, T, ds)), w)
           /\ \A n \in Name :
                Fits(v, n, ds[n]) \/ (n \in T /\ \E k \in 1..Len(ns) : ns[k] = n)
                  => Fits(w, n, ds[n])
  <1> DEFINE Good(x, q, w) ==
               /\ Leads(x, FlattenSeq(Defining(q, T, ds)), w)
               /\ \A n \in Name :
                    Fits(x, n, ds[n]) \/ (n \in T /\ \E k \in 1..Len(q) : q[k] = n)
                      => Fits(w, n, ds[n])
             P == {q \in Seq(Name) : \A x \in Named : \E w \in Named : Good(x, q, w)}
  <1>1. <<>> \in P
    <2>1. <<>> \in Seq(Name) /\ Len(<<>>) = 0
      OBVIOUS
    <2>2. FlattenSeq(Defining(<<>>, T, ds)) = <<>>
      <3>1. Defining(<<>>, T, ds) \in Seq(Seq(JobCalls)) /\ Len(Defining(<<>>, T, ds)) = 0
        BY <2>1, DefiningType
      <3>2. Defining(<<>>, T, ds) = <<>>
        BY <3>1
      <3> QED
        BY <3>2, FlattenEmpty
    <2>3. ASSUME NEW x \in Named
          PROVE  Good(x, <<>>, x)
      <3>1. Leads(x, FlattenSeq(Defining(<<>>, T, ds)), x)
        BY <2>2, LeadsNone
      <3> QED
        BY <2>1, <3>1
    <2> QED
      BY <2>1, <2>3
  <1>2. ASSUME NEW q \in Seq(Name), NEW e \in Name, q \in P
        PROVE  Append(q, e) \in P
    <2> DEFINE r == Append(q, e)
               b == IF e \in T THEN Define(e, ds[e]) ELSE <<>>
    <2>1. /\ r \in Seq(Name) /\ Len(r) = Len(q) + 1 /\ Len(q) \in Nat
          /\ r[Len(q) + 1] = e /\ \A i \in 1..Len(q) : r[i] = q[i]
          /\ Defining(r, T, ds) = Append(Defining(q, T, ds), b)
      BY DefiningMore
    <2>2. b \in Seq(JobCalls)
      <3>1. Define(e, ds[e]) \in Seq(JobCalls) /\ <<>> \in Seq(JobCalls)
        BY DefineOpened
      <3> QED
        BY <3>1
    <2>3. /\ Defining(q, T, ds) \in Seq(Seq(JobCalls))
          /\ FlattenSeq(Defining(q, T, ds)) \in Seq(JobCalls)
      BY DefiningType
    <2>4. FlattenSeq(Defining(r, T, ds)) = FlattenSeq(Defining(q, T, ds)) \o b
      BY <2>1, <2>2, <2>3, FlattenAppend
    <2>5. ASSUME NEW y \in Named
          PROVE  \E w \in Named :
                   /\ Leads(y, b, w)
                   /\ \A n \in Name : Fits(y, n, ds[n]) \/ (n = e /\ e \in T)
                                        => Fits(w, n, ds[n])
      <3>1. CASE e \notin T
        <4>1. b = <<>>
          BY <3>1
        <4>2. Leads(y, b, y)
          BY <4>1, LeadsNone
        <4> QED
          BY <3>1, <4>2
      <3>2. CASE e \in T
        <4>1. ds[e] \in Definition /\ DOMAIN ds[e].appenders = 1..Len(ds[e].appenders)
          <5>1. ds[e] \in Definition
            OBVIOUS
          <5>2. ds[e].appenders \in Seq(ApDefs)
            BY <5>1 DEF Definition, ApDefs
          <5> QED
            BY <5>1, <5>2, ListingType
        <4>2. Distinct(ds[e].appenders)
          BY <4>1 DEF Distinct, Apart
        <4>3. PICK w \in Named :
                /\ Leads(y, Define(e, ds[e]), w)
                /\ Fits(w, e, ds[e])
                /\ \A m \in Name \ {e} : \A d \in Definition :
                     /\ Fits(y, m, d)
                     /\ \A i \in 1..Len(ds[e].appenders), j \in 1..Len(d.appenders) :
                          ds[e].appenders[i].appender # d.appenders[j].appender
                     => Fits(w, m, d)
          <5> DEFINE d0 == ds[e]
          <5>1. d0 \in Definition /\ Distinct(d0.appenders)
            BY <4>1, <4>2
          <5> HIDE DEF d0
          <5>2. \E w \in Named :
                  /\ Leads(y, Define(e, d0), w)
                  /\ Fits(w, e, d0)
                  /\ \A m \in Name \ {e} : \A d \in Definition :
                       /\ Fits(y, m, d)
                       /\ \A i \in 1..Len(d0.appenders), j \in 1..Len(d.appenders) :
                            d0.appenders[i].appender # d.appenders[j].appender
                       => Fits(w, m, d)
            BY <5>1, DefineLeads, ZenonT(30)
          <5> QED
            BY <5>2 DEF d0
        <4>4. ASSUME NEW n \in Name, Fits(y, n, ds[n]), n # e
              PROVE  Fits(w, n, ds[n])
          <5>1. \A i \in 1..Len(ds[e].appenders), j \in 1..Len(ds[n].appenders) :
                  ds[e].appenders[i].appender # ds[n].appenders[j].appender
            BY <4>4 DEF Apart
          <5>2. ds[n] \in Definition /\ n \in Name \ {e}
            BY <4>4
          <5> QED
            BY <4>3, <4>4, <5>1, <5>2
        <4>5. Leads(y, b, w)
          BY <3>2, <4>3
        <4> HIDE DEF b
        <4> QED
          BY <4>3, <4>4, <4>5
      <3> QED
        BY <3>1, <3>2
    <2> HIDE DEF r, b
    <2>6. ASSUME NEW x \in Named
          PROVE  \E w \in Named : Good(x, r, w)
      <3>1. PICK y \in Named : Good(x, q, y)
        BY <1>2
      <3>2. PICK w \in Named :
              /\ Leads(y, b, w)
              /\ \A n \in Name : Fits(y, n, ds[n]) \/ (n = e /\ e \in T)
                                   => Fits(w, n, ds[n])
        BY <2>5
      <3>3. Leads(x, FlattenSeq(Defining(r, T, ds)), w)
        BY <2>2, <2>3, <2>4, <3>1, <3>2, LeadsThen
      <3>4. ASSUME NEW n \in Name, n \in T, NEW k \in 1..Len(r), r[k] = n
            PROVE  Fits(w, n, ds[n])
        <4>1. CASE k \in 1..Len(q)
          <5>1. q[k] = n
            BY <2>1, <3>4, <4>1
          <5>2. Fits(y, n, ds[n])
            BY <3>1, <3>4, <4>1, <5>1
          <5> QED
            BY <3>2, <5>2
        <4>2. CASE k = Len(q) + 1
          BY <2>1, <3>2, <3>4, <4>2
        <4> QED
          BY <2>1, <4>1, <4>2
      <3>5. Good(x, r, w)
        BY <3>1, <3>2, <3>3, <3>4
      <3> QED
        BY <3>5
    <2>7. r \in P
      BY <2>1, <2>6
    <2> QED
      BY <2>7 DEF r
  <1>3. Seq(Name) \subseteq P
    <2> HIDE DEF P
    <2> QED
      BY <1>1, <1>2, SeqInduction
  <1>4. ns \in P
    BY <1>3
  <1> QED
    BY <1>4

(* A name that is gone is defined as nothing. *)
Undefined == [level |-> Unknow, appenders |-> <<>>]

(* The calls for it are those of that definition. *)
LEMMA UndefineIs ==
  ASSUME NEW n \in Name
  PROVE  Undefine(n) = Define(n, Undefined) /\ Undefined \in Definition
  <1>1. <<>> \in Seq(ApDefs) /\ Len(<<>>) = 0 /\ Unknow \in Level
    BY SystemOK
  <1>2. Undefined \in Definition
    BY <1>1 DEF Undefined, Definition, ApDefs
  <1>3. FlattenSeq(Adding(<<>>)) = <<>>
    <2>1. Adding(<<>>) \in Seq(Seq(JobCalls)) /\ Len(Adding(<<>>)) = 0
      BY <1>1, AddingType
    <2>2. Adding(<<>>) = <<>>
      BY <2>1
    <2> QED
      BY <2>2, FlattenEmpty
  <1>4. Define(n, Undefined) = Undefine(n) \o FlattenSeq(Adding(<<>>))
    BY DEF Define, Undefine, Undefined, Adding
  <1>5. Undefine(n) \in Seq(JobCalls)
    BY UndefineOpened
  <1>6. \A s \in Seq(JobCalls) : s \o <<>> = s
    OBVIOUS
  <1> QED
    BY <1>2, <1>3, <1>4, <1>5, <1>6

(* The calls of a reload make the configuration fit the definitions ds, if *)
(* these are the new ones, and it fits the others already.                 *)
LEMMA PlanLeads ==
  ASSUME NEW old, NEW new, NEW ds \in [Name -> Definition], Apart(ds), NEW v \in Named,
         \A n \in Changed(old, new) : ds[n] = new[n],
         \A n \in Removed(old, new) : ds[n] = Undefined,
         \A n \in Name \ (Changed(old, new) \cup Removed(old, new)) : Fits(v, n, ds[n])
  PROVE  \E w \in Named : /\ Leads(v, Plan(old, new), w)
                          /\ \A n \in Name : Fits(w, n, ds[n])
  <1> DEFINE C == Changed(old, new)
             R == Removed(old, new)
             a == Call("announce", Root)
             c == [op |-> "announce", x |-> Root]
  <1>1. Names \in Seq(Name) /\ C \subseteq Name /\ R \subseteq Name
        /\ DOMAIN Names = 1..Len(Names)
    BY SystemOK DEF Changed, Removed
  <1>2. Defining(Names, C, ds) =
          [i \in DOMAIN Names |-> IF Names[i] \in C THEN Define(Names[i], new[Names[i]])
                                                    ELSE <<>>]
    BY DEF Defining
  <1>3. Defining(Names, R, ds) =
          [i \in DOMAIN Names |-> IF Names[i] \in R THEN Undefine(Names[i]) ELSE <<>>]
    <2>1. \A i \in DOMAIN Names :
            Names[i] \in R => Undefine(Names[i]) = Define(Names[i], ds[Names[i]])
      <3>1. \A n \in R : Undefine(n) = Define(n, ds[n])
        BY <1>1, UndefineIs
      <3> QED
        BY <3>1
    <2> HIDE DEF R
    <2> QED
      BY <2>1 DEF Defining
  <1>4. Plan(old, new) =
          (a \o FlattenSeq(Defining(Names, C, ds))) \o FlattenSeq(Defining(Names, R, ds))
    BY <1>2, <1>3 DEF Plan
  <1>5. a \in Seq(JobCalls) /\ Leads(v, a, v)
    <2>1. Root \in Arguments
      BY DEF Arguments
    <2>2. After(v, c) = v
      <3>1. v = [lev |-> v.lev, list |-> v.list, ap |-> v.ap, cur |-> v.cur]
        BY DEF Named
      <3> QED
        BY <3>1 DEF After
    <2> QED
      BY <2>1, <2>2, OneCall, LeadsOne
  <1>6. PICK x \in Named :
          /\ Leads(v, FlattenSeq(Defining(Names, C, ds)), x)
          /\ \A n \in Name :
               Fits(v, n, ds[n]) \/ (n \in C /\ \E k \in 1..Len(Names) : Names[k] = n)
                 => Fits(x, n, ds[n])
    BY <1>1, DefiningLeads
  <1>7. PICK w \in Named :
          /\ Leads(x, FlattenSeq(Defining(Names, R, ds)), w)
          /\ \A n \in Name :
               Fits(x, n, ds[n]) \/ (n \in R /\ \E k \in 1..Len(Names) : Names[k] = n)
                 => Fits(w, n, ds[n])
    BY <1>1, DefiningLeads
  <1>8. \A n \in Name : \E k \in 1..Len(Names) : Names[k] = n
    BY <1>1 DEF Name
  <1>9. /\ FlattenSeq(Defining(Names, C, ds)) \in Seq(JobCalls)
        /\ FlattenSeq(Defining(Names, R, ds)) \in Seq(JobCalls)
    BY <1>1, DefiningType
  <1> HIDE DEF C, R, a, c
  <1>10. Leads(v, Plan(old, new), w)
    <2>1. /\ a \o FlattenSeq(Defining(Names, C, ds)) \in Seq(JobCalls)
          /\ Leads(v, a \o FlattenSeq(Defining(Names, C, ds)), x)
      BY <1>5, <1>6, <1>9, LeadsThen, TwoParts
    <2> QED
      BY <1>4, <1>7, <1>9, <2>1, LeadsThen
  <1>11. ASSUME NEW n \in Name
         PROVE  Fits(w, n, ds[n])
    <2>1. n \in C \/ n \in R \/ Fits(v, n, ds[n])
      BY DEF C, R
    <2> QED
      BY <1>6, <1>7, <1>8, <2>1
  <1> QED
    BY <1>10, <1>11

-----------------------------------------------------------------------------
(* The loggers that exist are those threads and the table refer to; the    *)
(* others are as their constructor leaves them.                            *)
MadeInv ==
  /\ Root \in made
  /\ \A t \in Thread : handle[t] \in made /\ at[t] \in made /\ origin[t] \in made
  /\ \A n \in Name : table[n] # NoLogger => table[n] \in made
  /\ \A l \in Loggers \ made : level[l] = NewLevel /\ appenders[l] = <<>>

(* A step of log() changes no configuration, and stays among the loggers   *)
(* of its call and the root.                                               *)
LEMMA LogStepKeeps ==
  ASSUME IInv, NEW t \in Thread, LogStep(t)
  PROVE  /\ UNCHANGED config
         /\ \A u \in Thread : /\ at'[u] \in {at[u], origin[u], Root}
                              /\ origin'[u] \in {origin[u], Root}
  <1> USE DEF IInv, TypeOK, Goto
  <1>1. CASE Enter(t) \/ Acquire(t) \/ Skip(t) \/ Accept(t) \/ Write(t) \/ LoopDone(t)
    BY <1>1 DEF Enter, Acquire, Skip, Accept, Write, LoopDone
  <1>2. CASE Delegate(t)
    BY <1>2 DEF Delegate
  <1>3. CASE Refuse(t) \/ Leave(t)
    BY <1>3 DEF Refuse, Leave, Return, Finish, Resume
  <1> QED
    BY <1>1, <1>2, <1>3 DEF LogStep

(* At first there is the root. *)
LEMMA InitMade == SysInit => MadeInv
  BY LoggerOK, SystemOK DEF SysInit, Init, MadeInv

(* The kinds of steps, by the thread that takes them. *)
LEMMA SystemKinds ==
  ASSUME SysNext
  PROVE  \/ \E new \in Configs : ReloadBegin(new)
         \/ Announce
         \/ ReloadGet
         \/ ReloadCall
         \/ \E t \in Thread : Logging(t)
         \/ \E t \in User : UseTable(t) \/ Made(t)
         \/ \E t \in User : StartEvent(t)
  BY SystemOK DEF SysNext, ReloadStep, User

(* Loggers come into use by getLogger and pushLogger only. *)
LEMMA StepMade ==
  ASSUME TableInv, IInv, ReloadInv, MadeInv, SysNext
  PROVE  MadeInv'
  <1> USE SystemOK, LoggerOK DEF TableInv, ManagerOK, IInv, TypeOK, MadeInv, User
  <1>1. CASE \E new \in Configs : ReloadBegin(new)
    BY <1>1 DEF ReloadBegin, manager, vars
  <1>2. CASE Announce
    <2>1. UNCHANGED <<made, table, handle>>
      BY <1>2 DEF Announce, manager
    <2>2. CASE UNCHANGED vars
      BY <2>1, <2>2 DEF vars
    <2>3. CASE Macro(Reloader, Root, Info)
      BY <2>1, <2>3 DEF Macro
    <2> QED
      BY <1>2, <2>2, <2>3 DEF Announce
  <1>3. ASSUME NEW t \in Thread, TableStep(t), UNCHANGED vars
        PROVE  MadeInv'
    <2>1. UNCHANGED <<level, appenders, at, origin>>
      BY <1>3 DEF vars
    <2>2. ASSUME NEW n \in Name, Found(t, n) \/ Missed(t, n) \/ Erase(t, n)
          PROVE  MadeInv'
      <3>1. CASE Found(t, n)
        BY <2>1, <3>1 DEF Found
      <3>2. CASE Missed(t, n)
        BY <2>1, <3>2 DEF Missed
      <3>3. CASE Erase(t, n)
        BY <2>1, <3>3 DEF Erase
      <3> QED
        BY <2>2, <3>1, <3>2, <3>3
    <2>3. ASSUME NEW l \in Loggers, Insert(t, l) \/ Push(t, l)
          PROVE  MadeInv'
      <3>1. PICK n \in Name :
              /\ table' = [table EXCEPT ![n] = l]
              /\ made' = made \cup {l}
              /\ handle' = [handle EXCEPT ![t] = l]
        BY <2>3 DEF Insert, Push
      <3> QED
        BY <2>1, <3>1
    <2> QED
      BY <1>3, <2>2, <2>3 DEF TableStep
  <1>4. CASE ReloadGet
    <2>1. TableStep(Reloader) /\ UNCHANGED vars
      BY <1>4 DEF ReloadGet, TableStep, Found, Missed, Insert
    <2> QED
      BY <1>3, <2>1
  <1>5. CASE ReloadCall
    <2>1. UNCHANGED <<made, table, handle, at, origin>>
      BY <1>5 DEF ReloadCall, manager, SetLevel, ClearAppender, SetAppenderLevel,
                  AddAppender, Admin
    <2>2. \A l \in Loggers \ {handle[Reloader]} :
            level'[l] = level[l] /\ appenders'[l] = appenders[l]
      <3>1. level' = level \/ \E sev : level' = [level EXCEPT ![handle[Reloader]] = sev]
        BY <1>5 DEF ReloadCall, SetLevel, ClearAppender, SetAppenderLevel, AddAppender
      <3>2. appenders' = appenders
            \/ \E s : appenders' = [appenders EXCEPT ![handle[Reloader]] = s]
        BY <1>5 DEF ReloadCall, SetLevel, ClearAppender, SetAppenderLevel, AddAppender
      <3> QED
        BY <3>1, <3>2
    <2> QED
      BY <2>1, <2>2
  <1>6. ASSUME NEW t \in Thread, Logging(t)
        PROVE  MadeInv'
    <2>1. UNCHANGED <<made, table, handle>> /\ LogStep(t)
      BY <1>6 DEF Logging, manager
    <2>2. /\ UNCHANGED config
          /\ \A u \in Thread : /\ at'[u] \in {at[u], origin[u], Root}
                               /\ origin'[u] \in {origin[u], Root}
      BY <2>1, LogStepKeeps
    <2> QED
      BY <2>1, <2>2
  <1>7. ASSUME NEW t \in User, UseTable(t) \/ Made(t)
        PROVE  MadeInv'
    <2>1. TableStep(t) /\ UNCHANGED vars
      BY <1>7 DEF UseTable, Made, TableStep, Found, Missed, Insert, Push, Erase
    <2> QED
      BY <1>3, <2>1
  <1>8. ASSUME NEW t \in User, StartEvent(t)
        PROVE  MadeInv'
    <2>1. UNCHANGED <<made, table, handle>>
      BY <1>8 DEF StartEvent, manager
    <2>2. PICK l \in {Root, handle[t]}, sev \in Level \ {Unknow} : Macro(t, l, sev)
      BY <1>8 DEF StartEvent
    <2>3. /\ at' = [at EXCEPT ![t] = l] /\ origin' = [origin EXCEPT ![t] = l]
          /\ UNCHANGED <<level, appenders>>
      BY <2>2 DEF Macro
    <2>4. l \in made
      BY <2>2, SMTT(30)
    <2> QED
      BY <2>1, <2>3, <2>4
  <1> QED
    BY <1>1, <1>2, <1>4, <1>5, <1>6, <1>7, <1>8, SystemKinds

-----------------------------------------------------------------------------
(* What reloads make of the names: the definitions of the configuration,   *)
(* or nothing, or what the constructor made of the root.                   *)
DueOf(c, ds) ==
  /\ c \in Configs \cup {NoDefs}
  /\ ds \in [Name -> Definition]
  /\ \A n \in Name :
       \/ c[n] # NoDef /\ ds[n] = c[n]
       \/ c[n] = NoDef /\ ds[n].appenders = <<>>
       \/ /\ c[n] = NoDef /\ n = RootName
          /\ ds[n].appenders = <<[appender |-> Stdout, level |-> NewLevel]>>

DueInv == DueOf(conf, due)

(* So no two names have an appender in common. *)
LEMMA DueApart ==
  ASSUME NEW c, NEW ds, DueOf(c, ds)
  PROVE  Apart(ds)
  <1> SUFFICES ASSUME NEW n \in Name, NEW m \in Name,
                      NEW i \in 1..Len(ds[n].appenders),
                      NEW j \in 1..Len(ds[m].appenders),
                      ds[n].appenders[i].appender = ds[m].appenders[j].appender
               PROVE  n = m /\ i = j
    BY DEF Apart
  <1>1. ASSUME NEW k \in Name, ds[k].appenders = <<[appender |-> Stdout, level |-> NewLevel]>>
        PROVE  \A h \in 1..Len(ds[k].appenders) :
                 h = 1 /\ ds[k].appenders[h].appender = Stdout
    <2>1. Len(ds[k].appenders) = 1 /\ ds[k].appenders[1].appender = Stdout
      BY <1>1
    <2>2. \A h \in 1..1 : h = 1
      OBVIOUS
    <2> QED
      BY <2>1, <2>2
  <1>2. ASSUME NEW k \in Name, ds[k].appenders = <<>>
        PROVE  1..Len(ds[k].appenders) = {}
    <2>1. Len(ds[k].appenders) = 0
      BY <1>2
    <2> QED
      BY <2>1
  <1>3. ASSUME NEW k \in Name, c[k] # NoDef
        PROVE  /\ c \in Configs /\ ds[k] = c[k]
               /\ DOMAIN c[k].appenders = 1..Len(ds[k].appenders)
    <2>1. c # NoDefs /\ ds[k] = c[k]
      BY <1>3 DEF DueOf, NoDefs
    <2>2. ds[k].appenders \in Seq(ApDefs)
      BY DEF DueOf, Definition, ApDefs
    <2>3. DOMAIN ds[k].appenders = 1..Len(ds[k].appenders)
      BY <2>2, ListingType
    <2> QED
      BY <2>1, <2>3 DEF DueOf
  <1>4. CASE c[n] # NoDef /\ c[m] # NoDef
    <2>1. /\ c \in Configs /\ ds[n] = c[n] /\ ds[m] = c[m]
          /\ i \in DOMAIN c[n].appenders /\ j \in DOMAIN c[m].appenders
      BY <1>3, <1>4
    <2>2. n \in {k \in Name : c[k] # NoDef} /\ m \in {k \in Name : c[k] # NoDef}
      BY <1>4
    <2> QED
      BY <2>1, <2>2, OwnAppenders
  <1>5. ASSUME NEW k \in Name, c[k] # NoDef, NEW h \in 1..Len(ds[k].appenders)
        PROVE  ds[k].appenders[h].appender # Stdout
    <2>1. c \in Configs /\ ds[k] = c[k] /\ h \in DOMAIN c[k].appenders
      BY <1>3, <1>5
    <2>2. k \in {x \in Name : c[x] # NoDef}
      BY <1>5
    <2> QED
      BY <2>1, <2>2, OwnAppenders
  <1>6. CASE c[n] = NoDef
    <2>1. /\ n = RootName /\ i = 1 /\ ds[n].appenders[i].appender = Stdout
      BY <1>1, <1>2, <1>6 DEF DueOf
    <2>2. CASE c[m] # NoDef
      BY <1>5, <2>1, <2>2
    <2>3. CASE c[m] = NoDef
      BY <1>1, <1>2, <2>1, <2>3 DEF DueOf
    <2> QED
      BY <2>2, <2>3
  <1>7. CASE c[m] = NoDef /\ c[n] # NoDef
    <2>1. ds[m].appenders[j].appender = Stdout
      BY <1>1, <1>2, <1>7 DEF DueOf
    <2> QED
      BY <1>5, <1>7, <2>1
  <1> QED
    BY <1>4, <1>6, <1>7

(* The constructors' configuration. *)
LEMMA InitDue == SysInit => DueInv
  <1> SUFFICES ASSUME SysInit PROVE DueInv
    OBVIOUS
  <1> DEFINE first == [appender |-> Stdout, level |-> NewLevel]
             rooted == [level |-> NewLevel, appenders |-> <<first>>]
  <1>1. first \in ApDefs /\ NewLevel \in Level
    BY LoggerOK DEF ApDefs, NewLevel
  <1>2. New \in Definition /\ rooted \in Definition
    <2>1. <<>> \in Seq(ApDefs) /\ <<first>> \in Seq(ApDefs)
      BY <1>1
    <2> QED
      BY <1>1, <2>1 DEF New, Definition, ApDefs
  <1>3. due = [n \in Name |-> IF n = RootName THEN rooted ELSE New]
    BY DEF SysInit, New
  <1>4. New.appenders = <<>> /\ rooted.appenders = <<first>>
    BY DEF New
  <1> HIDE DEF first, rooted
  <1>5. conf = NoDefs /\ \A n \in Name : conf[n] = NoDef
    BY DEF SysInit, NoDefs
  <1>6. due \in [Name -> Definition]
    BY <1>2, <1>3
  <1> QED
    BY <1>3, <1>4, <1>5, <1>6 DEF DueInv, DueOf, first

(* A reload begins with the definitions it will have made. *)
LEMMA BeginDue ==
  ASSUME DueInv, NEW new \in Configs, ReloadBegin(new)
  PROVE  /\ DueInv'
         /\ \A n \in Changed(conf, new) : due'[n] = new[n]
         /\ \A n \in Removed(conf, new) : due'[n] = Undefined
         /\ \A n \in Name \ (Changed(conf, new) \cup Removed(conf, new)) : due'[n] = due[n]
  <1> DEFINE C == Changed(conf, new)
             R == Removed(conf, new)
  <1>1. /\ conf' = new /\ new \in [Name -> Definition \cup {NoDef}]
        /\ due' = [n \in Name |-> IF n \in C THEN new[n]
                                  ELSE IF n \in R THEN Undefined ELSE due[n]]
    <2>1. [New EXCEPT !.level = Unknow] = Undefined
      BY DEF New, Undefined
    <2> QED
      BY <2>1, SystemOK DEF ReloadBegin
  <1>2. Undefined \in Definition /\ Undefined.appenders = <<>>
    <2>1. RootName \in Name
      BY SystemOK
    <2> QED
      BY <2>1, UndefineIs DEF Undefined
  <1>3. /\ \A n \in C : n \in Name /\ new[n] # NoDef /\ new[n] \in Definition
        /\ \A n \in R : n \in Name /\ new[n] = NoDef /\ n \notin C
        /\ \A n \in Name \ (C \cup R) : new[n] = conf[n]
    BY <1>1 DEF Changed, Removed
  <1> HIDE DEF C, R
  <1>4. /\ \A n \in C : due'[n] = new[n]
        /\ \A n \in R : due'[n] = Undefined
        /\ \A n \in Name \ (C \cup R) : due'[n] = due[n]
    BY <1>1, <1>3
  <1>5. due' \in [Name -> Definition]
    BY <1>1, <1>2, <1>3 DEF DueInv, DueOf
  <1>6. ASSUME NEW n \in Name
        PROVE  \/ new[n] # NoDef /\ due'[n] = new[n]
               \/ new[n] = NoDef /\ due'[n].appenders = <<>>
               \/ /\ new[n] = NoDef /\ n = RootName
                  /\ due'[n].appenders = <<[appender |-> Stdout, level |-> NewLevel]>>
    <2>1. CASE n \in C
      BY <1>3, <1>4, <2>1
    <2>2. CASE n \in R
      BY <1>2, <1>3, <1>4, <2>2
    <2>3. CASE n \notin C /\ n \notin R
      BY <1>3, <1>4, <2>3 DEF DueInv, DueOf
    <2> QED
      BY <2>1, <2>2, <2>3
  <1>7. DueInv'
    BY <1>1, <1>5, <1>6 DEF DueInv, DueOf, NewLevel
  <1> QED
    BY <1>4, <1>7 DEF C, R

(* Nothing else touches them. *)
LEMMA StepDue ==
  ASSUME DueInv, SysNext
  PROVE  DueInv'
  <1>1. CASE \E new \in Configs : ReloadBegin(new)
    BY <1>1, BeginDue
  <1>2. CASE UNCHANGED <<conf, due>>
    BY <1>2 DEF DueInv
  <1>3. (\E new \in Configs : ReloadBegin(new)) \/ UNCHANGED <<conf, due>>
    BY SystemKinds DEF Announce, ReloadGet, ReloadCall, Logging, UseTable, Made, StartEvent,
                       reload
  <1> QED
    BY <1>1, <1>2, <1>3

-----------------------------------------------------------------------------
(* The configuration by name: a name without a logger would get a new one. *)
LevelOf(n) == IF table[n] = NoLogger THEN NewLevel ELSE level[table[n]]
ListOf(n)  == IF table[n] = NoLogger THEN <<>> ELSE appenders[table[n]]

View ==
  [lev |-> [n \in Name |-> LevelOf(n)], list |-> [n \in Name |-> ListOf(n)],
   ap |-> apLevel, cur |-> KeyOf[handle[Reloader]]]

(* What the listener has still to do makes the configuration what is due.  *)
ConfInv ==
  calm => \E w \in Named : /\ Leads(View, job, w)
                           /\ \A n \in Name : Fits(w, n, due[n])

(* The view is a configuration. *)
LEMMA ViewType ==
  ASSUME TableInv, IInv
  PROVE  View \in Named
  <1> USE SystemOK, LoggerOK DEF TableInv, ManagerOK, IInv, TypeOK
  <1>1. <<>> \in Seq(Appender) /\ NewLevel \in Level
    BY DEF NewLevel
  <1>2. \A n \in Name : LevelOf(n) \in Level /\ ListOf(n) \in Seq(Appender)
    BY <1>1 DEF LevelOf, ListOf
  <1> QED
    BY <1>2 DEF View, Named

(* While accesses of the table do not overlap, the logger the listener     *)
(* holds is the one of its name, and the others are other objects.         *)
LEMMA HeldIs ==
  ASSUME TableInv, NamedInv, MadeInv, calm
  PROVE  /\ KeyOf[handle[Reloader]] \in Name
         /\ table[KeyOf[handle[Reloader]]] = handle[Reloader]
         /\ handle[Reloader] # NoLogger /\ handle[Reloader] \in Loggers
         /\ \A n \in Name \ {KeyOf[handle[Reloader]]} : table[n] # handle[Reloader]
  BY SystemOK, LoggerOK DEF TableInv, ManagerOK, CalmInv, NamedInv, MadeInv

(* A call of the listener does to the view what it says. *)
LEMMA CallView ==
  ASSUME TableInv, IInv, NamedInv, MadeInv, calm, ReloadCall
  PROVE  View' = After(View, Head(job))
  <1> DEFINE h == handle[Reloader]
             k == KeyOf[h]
             c == Head(job)
  <1>1. /\ k \in Name /\ table[k] = h /\ h # NoLogger /\ h \in Loggers
        /\ \A n \in Name \ {k} : table[n] # h
    BY HeldIs
  <1>2. UNCHANGED <<table, handle>>
    BY DEF ReloadCall, manager
  <1>3. /\ level \in [Loggers -> Level] /\ appenders \in [Loggers -> Seq(Appender)]
        /\ table \in [Name -> Loggers \cup {NoLogger}]
    BY DEF TableInv, ManagerOK, IInv, TypeOK
  <1>4. View = [lev |-> View.lev, list |-> View.list, ap |-> apLevel, cur |-> k]
        /\ View.lev = [n \in Name |-> LevelOf(n)] /\ View.list = [n \in Name |-> ListOf(n)]
    BY DEF View
  <1> HIDE DEF h, k
  <1>5. ASSUME NEW sev \in Level, Calls("level", sev), SetLevel(Reloader, h, sev)
        PROVE  View' = After(View, c)
    <2>1. c.op = "level" /\ c.x = sev
      BY <1>5 DEF Calls
    <2>2. level' = [level EXCEPT ![h] = sev] /\ UNCHANGED <<appenders, apLevel>>
      BY <1>5 DEF SetLevel
    <2>3. \A n \in Name : LevelOf(n)' = IF n = k THEN sev ELSE LevelOf(n)
      BY <1>1, <1>2, <1>3, <2>2 DEF LevelOf, NewLevel
    <2>4. [n \in Name |-> LevelOf(n)'] = [View.lev EXCEPT ![k] = sev]
      BY <1>1, <1>4, <2>3
    <2>5. \A n \in Name : ListOf(n)' = ListOf(n)
      BY <1>2, <2>2 DEF ListOf
    <2>6. View' = [lev |-> [View.lev EXCEPT ![k] = sev], list |-> View.list,
                   ap |-> apLevel, cur |-> k]
      BY <1>2, <1>4, <2>2, <2>4, <2>5 DEF View, h, k
    <2> QED
      BY <1>4, <2>1, <2>6 DEF After
  <1>6. ASSUME Calls("clear", "all"), ClearAppender(Reloader, h)
        PROVE  View' = After(View, c)
    <2>1. c.op = "clear"
      BY <1>6 DEF Calls
    <2>2. appenders' = [appenders EXCEPT ![h] = <<>>] /\ UNCHANGED <<level, apLevel>>
      BY <1>6 DEF ClearAppender
    <2>3. \A n \in Name : ListOf(n)' = IF n = k THEN <<>> ELSE ListOf(n)
      BY <1>1, <1>2, <1>3, <2>2 DEF ListOf
    <2>4. [n \in Name |-> ListOf(n)'] = [View.list EXCEPT ![k] = <<>>]
      BY <1>1, <1>4, <2>3
    <2>5. \A n \in Name : LevelOf(n)' = LevelOf(n)
      BY <1>2, <2>2 DEF LevelOf, NewLevel
    <2>6. View' = [lev |-> View.lev, list |-> [View.list EXCEPT ![k] = <<>>],
                   ap |-> apLevel, cur |-> k]
      BY <1>2, <1>4, <2>2, <2>4, <2>5 DEF View, h, k
    <2> QED
      BY <1>4, <2>1, <2>6 DEF After
  <1>7. ASSUME NEW x \in Appender, Calls("add", x), AddAppender(Reloader, h, x)
        PROVE  View' = After(View, c)
    <2>1. c.op = "add" /\ c.x = x
      BY <1>7 DEF Calls
    <2>2. appenders' = [appenders EXCEPT ![h] = Append(appenders[h], x)]
          /\ UNCHANGED <<level, apLevel>>
      BY <1>7 DEF AddAppender
    <2>3. ListOf(k) = appenders[h] /\ View.list[k] = ListOf(k)
      BY <1>1, <1>4 DEF ListOf
    <2>4. \A n \in Name : ListOf(n)' = IF n = k THEN Append(View.list[k], x) ELSE ListOf(n)
      BY <1>1, <1>2, <1>3, <2>2, <2>3 DEF ListOf
    <2>5. [n \in Name |-> ListOf(n)'] = [View.list EXCEPT ![k] = Append(View.list[k], x)]
      BY <1>1, <1>4, <2>4
    <2>6. \A n \in Name : LevelOf(n)' = LevelOf(n)
      BY <1>2, <2>2 DEF LevelOf, NewLevel
    <2>7. View' = [lev |-> View.lev,
                   list |-> [View.list EXCEPT ![k] = Append(View.list[k], x)],
                   ap |-> apLevel, cur |-> k]
      BY <1>2, <1>4, <2>2, <2>5, <2>6 DEF View, h, k
    <2>8. After(View, c) = [lev |-> View.lev,
                            list |-> [View.list EXCEPT ![k] = Append(View.list[k], x)],
                            ap |-> apLevel, cur |-> k]
      <3>1. /\ View.cur = k /\ View.ap = apLevel
            /\ c.op # "level" /\ c.op # "clear" /\ c.op # "aplevel" /\ c.op # "get"
        BY <1>4, <2>1
      <3> HIDE DEF c
      <3> QED
        BY <2>1, <3>1 DEF After
    <2> QED
      BY <2>7, <2>8
  <1>8. ASSUME NEW x \in Appender, NEW sev \in Level,
               Calls("aplevel", [appender |-> x, level |-> sev]),
               SetAppenderLevel(Reloader, x, sev)
        PROVE  View' = After(View, c)
    <2>1. c.op = "aplevel" /\ c.x.appender = x /\ c.x.level = sev
      BY <1>8 DEF Calls
    <2>2. apLevel' = [apLevel EXCEPT ![x] = sev] /\ UNCHANGED <<level, appenders>>
      BY <1>8 DEF SetAppenderLevel
    <2>3. \A n \in Name : LevelOf(n)' = LevelOf(n) /\ ListOf(n)' = ListOf(n)
      BY <1>2, <2>2 DEF LevelOf, ListOf, NewLevel
    <2>4. View' = [lev |-> View.lev, list |-> View.list,
                   ap |-> [apLevel EXCEPT ![x] = sev], cur |-> k]
      BY <1>2, <1>4, <2>2, <2>3 DEF View, h, k
    <2> QED
      BY <1>4, <2>1, <2>4 DEF After
  <1> QED
    BY <1>5, <1>6, <1>7, <1>8 DEF ReloadCall, h

(* getLogger, when it has the logger: the listener holds that of the name, *)
(* and a logger just made is what the view took the name to be.            *)
LEMMA GetView ==
  ASSUME TableInv, IInv, ReloadInv, MadeInv, calm', ReloadGet
  PROVE  \/ View' = View /\ job' = job
         \/ View' = After(View, Head(job)) /\ job # <<>> /\ job' = Tail(job)
  <1> USE SystemOK, LoggerOK DEF TableInv, ManagerOK, IInv, TypeOK
  <1>1. PICK n \in Name :
          /\ Calls("get", n)
          /\ \/ Found(Reloader, n) /\ job' = Tail(job)
             \/ Missed(Reloader, n) /\ UNCHANGED job
             \/ (\E l \in Loggers : Insert(Reloader, l)) /\ job' = Tail(job)
    BY DEF ReloadGet
  <1>2. /\ job # <<>> /\ Head(job).op = "get" /\ Head(job).x = n
        /\ UNCHANGED <<level, appenders, apLevel>>
    BY <1>1 DEF Calls, Found, Missed, Insert, vars
  <1>3. ASSUME \A m \in Name : LevelOf(m)' = LevelOf(m) /\ ListOf(m)' = ListOf(m),
               KeyOf[handle'[Reloader]] = n
        PROVE  View' = After(View, Head(job))
    BY <1>2, <1>3, ZenonT(30) DEF View, After
  <1>4. CASE Found(Reloader, n) /\ job' = Tail(job)
    <2>1. /\ handle'[Reloader] = table[n] /\ UNCHANGED table
          /\ KeyOf[table[n]] = n
      BY <1>4 DEF Found, ReloadInv, NamedInv
    <2>2. \A m \in Name : LevelOf(m)' = LevelOf(m) /\ ListOf(m)' = ListOf(m)
      BY <1>2, <2>1 DEF LevelOf, ListOf, NewLevel
    <2> QED
      BY <1>2, <1>3, <1>4, <2>1, <2>2
  <1>5. CASE Missed(Reloader, n) /\ UNCHANGED job
    <2>1. UNCHANGED <<table, handle>>
      BY <1>5 DEF Missed
    <2>2. View' = View
      BY <1>2, <2>1 DEF View, LevelOf, ListOf, NewLevel
    <2> QED
      BY <1>5, <2>2
  <1>6. ASSUME NEW l \in Loggers, Insert(Reloader, l), job' = Tail(job)
        PROVE  View' = After(View, Head(job))
    <2>1. /\ want[Reloader] = n
          /\ l \notin made /\ KeyOf[l] = n /\ calm
          /\ table' = [table EXCEPT ![n] = l] /\ handle' = [handle EXCEPT ![Reloader] = l]
      <3>1. want[Reloader] # NoName
        BY <1>6 DEF Insert
      <3>2. want[Reloader] = n
        BY <1>1, <3>1 DEF ReloadInv, JobInv, Calls
      <3> QED
        BY <1>6, <3>2 DEF Insert, Fresh
    <2>2. table[n] = NoLogger
      BY <2>1 DEF CalmInv
    <2>3. level[l] = NewLevel /\ appenders[l] = <<>>
      BY <2>1 DEF MadeInv
    <2>4. \A m \in Name : LevelOf(m)' = LevelOf(m) /\ ListOf(m)' = ListOf(m)
      <3>1. ASSUME NEW m \in Name, m # n
            PROVE  LevelOf(m)' = LevelOf(m) /\ ListOf(m)' = ListOf(m)
        BY <1>2, <2>1, <3>1 DEF LevelOf, ListOf, NewLevel
      <3>2. LevelOf(n)' = LevelOf(n) /\ ListOf(n)' = ListOf(n)
        BY <1>2, <2>1, <2>2, <2>3 DEF LevelOf, ListOf, NewLevel
      <3> QED
        BY <3>1, <3>2
    <2> QED
      BY <1>3, <2>1, <2>4
  <1> QED
    BY <1>1, <1>2, <1>4, <1>5, <1>6

(* The other threads leave the view as it is: the loggers they make or     *)
(* push are new.                                                           *)
LEMMA OtherView ==
  ASSUME TableInv, IInv, MadeInv, calm', NEW t \in User, UseTable(t) \/ Made(t)
  PROVE  calm /\ View' = View
  <1> USE SystemOK, LoggerOK DEF TableInv, ManagerOK, User
  <1>1. UNCHANGED <<level, appenders, apLevel>> /\ t # Reloader /\ t \in Thread
    BY DEF UseTable, Made, Found, Missed, Erase, Push, Insert, vars
  <1>2. ASSUME NEW n \in Name, Found(t, n) \/ Missed(t, n)
        PROVE  calm /\ View' = View
    <2>1. calm /\ UNCHANGED table /\ handle'[Reloader] = handle[Reloader]
      BY <1>1, <1>2 DEF Found, Missed
    <2> QED
      BY <1>1, <2>1 DEF View, LevelOf, ListOf, NewLevel
  <1>3. ASSUME NEW l \in Loggers, Insert(t, l) \/ Push(t, l)
        PROVE  calm /\ View' = View
    <2>1. PICK n \in Name :
            /\ calm /\ table[n] = NoLogger /\ l \notin made
            /\ table' = [table EXCEPT ![n] = l]
            /\ handle' = [handle EXCEPT ![t] = l]
      BY <1>1, <1>3 DEF Insert, Push, Fresh, CalmInv
    <2>2. level[l] = NewLevel /\ appenders[l] = <<>>
      BY <2>1 DEF MadeInv
    <2>3. handle'[Reloader] = handle[Reloader]
      BY <1>1, <2>1
    <2>4. ASSUME NEW m \in Name
          PROVE  LevelOf(m)' = LevelOf(m) /\ ListOf(m)' = ListOf(m)
      <3>1. CASE m = n
        BY <1>1, <2>1, <2>2, <3>1 DEF LevelOf, ListOf, NewLevel
      <3>2. CASE m # n
        BY <1>1, <2>1, <3>2 DEF LevelOf, ListOf, NewLevel
      <3> QED
        BY <3>1, <3>2
    <2> QED
      BY <1>1, <2>1, <2>3, <2>4 DEF View
  <1>4. ASSUME NEW n \in Name, Erase(t, n)
        PROVE  FALSE
    BY <1>4 DEF Erase
  <1> QED
    BY <1>2, <1>3, <1>4 DEF UseTable, Made

(* Logging leaves it, too. *)
LEMMA QuietView ==
  ASSUME TableInv, IInv,
         \/ Announce
         \/ \E t \in Thread : Logging(t)
         \/ \E t \in User : StartEvent(t)
         \/ \E new \in Configs : ReloadBegin(new)
  PROVE  View' = View /\ calm' = calm /\ UNCHANGED config
  <1>1. UNCHANGED manager
    BY DEF Announce, Logging, StartEvent, ReloadBegin
  <1>2. UNCHANGED config
    BY LogStepKeeps DEF Announce, Logging, StartEvent, ReloadBegin, Macro, vars
  <1> QED
    BY <1>1, <1>2 DEF manager, View, LevelOf, ListOf, NewLevel

(* At first nothing is to be done. *)
LEMMA InitConf == SysInit => ConfInv
  <1> SUFFICES ASSUME SysInit PROVE ConfInv
    OBVIOUS
  <1>1. View \in Named
    BY SystemStarts, InitIInv, TableStarts, ViewType
  <1>2. Leads(View, job, View)
    BY LeadsNone DEF SysInit
  <1>3. ASSUME NEW n \in Name
        PROVE  Fits(View, n, due[n])
    <2>1. CASE n = RootName
      <3> DEFINE d == [appender |-> Stdout, level |-> NewLevel]
                 as == <<d>>
      <3>1. due[n].level = NewLevel /\ due[n].appenders = as
        BY <2>1 DEF SysInit, New
      <3>2. /\ as \in Seq(ApDefs) /\ Len(as) = 1 /\ as[1] = d
            /\ d.appender = Stdout /\ d.level = NewLevel
        BY LoggerOK DEF ApDefs, NewLevel
      <3>3. table[n] = Root /\ Root # NoLogger /\ level[Root] = NewLevel
            /\ appenders[Root] = <<Stdout>> /\ apLevel[Stdout] = NewLevel
        BY <2>1, SystemOK, LoggerOK DEF SysInit, Init, NewLevel
      <3> HIDE DEF as, d
      <3>4. Listing(as) = <<Stdout>>
        <4>1. /\ Listing(as) \in Seq(Appender) /\ Len(Listing(as)) = 1
              /\ Listing(as)[1] = Stdout
          <5>1. 1 \in 1..Len(as)
            BY <3>2
          <5> QED
            BY <3>2, <5>1, ListingType
        <4>2. \A s \in Seq(Appender) : Len(s) = 1 => s = <<s[1]>>
          OBVIOUS
        <4> QED
          BY <4>1, <4>2
      <3>5. View.lev[n] = NewLevel /\ View.list[n] = <<Stdout>> /\ View.ap = apLevel
        BY <3>3 DEF View, LevelOf, ListOf
      <3>6. \A i \in 1..Len(as) : as[i] = d
        <4>1. \A i \in 1..1 : i = 1
          OBVIOUS
        <4> QED
          BY <3>2, <4>1
      <3> QED
        BY <3>1, <3>2, <3>3, <3>4, <3>5, <3>6 DEF Fits
    <2>2. CASE n # RootName
      <3>1. due[n] = New /\ table[n] = NoLogger
        BY <2>2 DEF SysInit
      <3>2. View.lev[n] = NewLevel /\ View.list[n] = <<>>
        BY <3>1 DEF View, LevelOf, ListOf
      <3>3. Listing(<<>>) = <<>>
        <4>1. <<>> \in Seq(ApDefs) /\ Len(<<>>) = 0
          OBVIOUS
        <4>2. Listing(<<>>) \in Seq(Appender) /\ Len(Listing(<<>>)) = 0
          BY <4>1, ListingType
        <4> QED
          BY <4>2
      <3> QED
        BY <3>1, <3>2, <3>3 DEF Fits, New
    <2> QED
      BY <2>1, <2>2
  <1> QED
    BY <1>1, <1>2, <1>3 DEF ConfInv

(* The listener keeps making what is due. *)
LEMMA StepConf ==
  ASSUME TableInv, IInv, ReloadInv, MadeInv, DueInv, ConfInv, SysNext
  PROVE  ConfInv'
  <1> SUFFICES ASSUME calm'
               PROVE  \E w \in Named : /\ Leads(View', job', w)
                                       /\ \A n \in Name : Fits(w, n, due'[n])
    BY DEF ConfInv
  <1>1. ASSUME NEW new \in Configs, ReloadBegin(new)
        PROVE  \E w \in Named : /\ Leads(View', job', w)
                                /\ \A n \in Name : Fits(w, n, due'[n])
    <2>1. calm /\ View' = View /\ job = <<>> /\ job' = Plan(conf, new)
      BY <1>1, QuietView DEF ReloadBegin
    <2>2. View \in Named /\ \A n \in Name : Fits(View, n, due[n])
      BY <2>1, ViewType, LeadsNone DEF ConfInv
    <2>3. /\ DueInv'
          /\ \A n \in Changed(conf, new) : due'[n] = new[n]
          /\ \A n \in Removed(conf, new) : due'[n] = Undefined
          /\ \A n \in Name \ (Changed(conf, new) \cup Removed(conf, new)) : due'[n] = due[n]
      BY <1>1, BeginDue
    <2> DEFINE ds == due'
    <2>4. ds \in [Name -> Definition] /\ Apart(ds)
      <3>1. DueOf(conf', ds)
        BY <2>3 DEF DueInv, DueOf
      <3> HIDE DEF ds
      <3> QED
        BY <3>1, DueApart DEF DueOf
    <2>5. \A n \in Name \ (Changed(conf, new) \cup Removed(conf, new)) : Fits(View, n, ds[n])
      BY <2>2, <2>3
    <2>6. /\ \A n \in Changed(conf, new) : ds[n] = new[n]
          /\ \A n \in Removed(conf, new) : ds[n] = Undefined
      BY <2>3
    <2> HIDE DEF ds
    <2>7. \E w \in Named : /\ Leads(View, Plan(conf, new), w)
                           /\ \A n \in Name : Fits(w, n, ds[n])
      BY <2>2, <2>4, <2>5, <2>6, PlanLeads
    <2> QED
      BY <2>1, <2>7 DEF ds
  <1>2. ASSUME calm, due' = due, View' = View, job' = job
        PROVE  \E w \in Named : /\ Leads(View', job', w)
                                /\ \A n \in Name : Fits(w, n, due'[n])
    BY <1>2 DEF ConfInv
  <1>3. ASSUME calm, due' = due, job # <<>>, View' = After(View, Head(job)), job' = Tail(job)
        PROVE  \E w \in Named : /\ Leads(View', job', w)
                                /\ \A n \in Name : Fits(w, n, due'[n])
    <2>1. PICK w \in Named : Leads(View, job, w) /\ \A n \in Name : Fits(w, n, due[n])
      BY <1>3 DEF ConfInv
    <2>2. job \in Seq(JobCalls) /\ Head(job) = job[1]
      BY <1>3, HeadIs DEF ReloadInv, JobInv
    <2>3. Leads(After(View, job[1]), Tail(job), w)
      BY <1>3, <2>1, <2>2, LeadsOn
    <2> QED
      BY <1>3, <2>1, <2>2, <2>3
  <1>4. CASE Announce
    <2>1. /\ calm /\ View' = View /\ due' = due
          /\ job # <<>> /\ job' = Tail(job) /\ Head(job).op = "announce"
      BY <1>4, QuietView DEF Announce, Calls
    <2>2. After(View, Head(job)) = View
      BY <2>1 DEF After, View
    <2> QED
      BY <1>3, <2>1, <2>2
  <1>5. CASE ReloadGet
    <2>1. calm /\ due' = due
      BY <1>5 DEF ReloadGet, Found, Missed, Insert
    <2> QED
      BY <1>2, <1>3, <1>5, <2>1, GetView
  <1>6. CASE ReloadCall
    <2>1. calm /\ due' = due /\ job # <<>> /\ job' = Tail(job)
      BY <1>6 DEF ReloadCall, Calls, manager
    <2>2. View' = After(View, Head(job))
      BY <1>6, <2>1, CallView DEF ReloadInv
    <2> QED
      BY <1>3, <2>1, <2>2
  <1>7. CASE \E t \in User : UseTable(t) \/ Made(t)
    <2>1. due' = due /\ job' = job
      BY <1>7 DEF UseTable, Made, reload
    <2> QED
      BY <1>2, <1>7, <2>1, OtherView
  <1>8. CASE (\E t \in Thread : Logging(t)) \/ (\E t \in User : StartEvent(t))
    <2>1. due' = due /\ job' = job
      BY <1>8 DEF Logging, StartEvent, reload
    <2> QED
      BY <1>2, <1>8, <2>1, QuietView
  <1> QED
    BY <1>1, <1>4, <1>5, <1>6, <1>7, <1>8, SystemKinds

-----------------------------------------------------------------------------
(* Every call has an event of its own, whoever shares appenders. *)
LEMMA StepCall ==
  ASSUME IInv, CallInv, NEW t \in Thread, Step(t)
  PROVE  CallInv'
  <1> USE DEF IInv, TypeOK, Goto, Active
  <1>1. CASE \E l \in Loggers, sev \in Level : Macro(t, l, sev)
    <2>1. /\ events' = events + 1 /\ out' = out /\ events \in Nat
          /\ event' = [event EXCEPT ![t] = events + 1]
          /\ pc' = [pc EXCEPT ![t] = "enter"]
      BY <1>1 DEF Macro
    <2>2. \A i \in 1..events : i \in 1..(events + 1) /\ i # events + 1
      BY <2>1
    <2>3. events + 1 \in 1..(events + 1)
      BY <2>1
    <2>4. ASSUME NEW u \in Thread, Active(u)'
          PROVE  event'[u] = IF u = t THEN events + 1 ELSE event[u]
      BY <2>1
    <2>5. \A u \in Thread : u # t /\ Active(u)' => Active(u)
      BY <2>1
    <2> QED
      BY <2>1, <2>2, <2>3, <2>4, <2>5, SMTT(30) DEF CallInv
  <1>2. CASE Write(t)
    <2>1. /\ events' = events /\ event' = event /\ pc' = [pc EXCEPT ![t] = "loop"]
          /\ pc[t] = "write" /\ target[t] \in Appender
          /\ out' = [out EXCEPT ![target[t]] = Append(@, event[t])]
      <3>1. pos[t] <= Len(List(t)) /\ target[t] = Current(t)
        BY <1>2 DEF Write, FrameInv
      <3> QED
        BY <1>2, <3>1, LoggerOK DEF Write, List, Current
    <2>2. \A u \in Thread : Active(u)' => Active(u)
      BY <2>1
    <2>3. ASSUME NEW a \in Appender, NEW i \in 1..Len(out'[a])
          PROVE  out'[a][i] \in 1..events
      <3>1. event[t] \in 1..events
        BY <2>1 DEF CallInv
      <3>2. CASE a = target[t]
        <4>1. out'[a] = Append(out[a], event[t]) /\ out[a] \in Seq(Nat)
          BY <2>1, <3>2
        <4>2. (i \in 1..Len(out[a]) /\ out'[a][i] = out[a][i]) \/ out'[a][i] = event[t]
          BY <4>1
        <4> QED
          BY <3>1, <4>2 DEF CallInv
      <3>3. CASE a # target[t]
        BY <2>1, <3>3 DEF CallInv
      <3> QED
        BY <3>2, <3>3
    <2> QED
      BY <2>1, <2>2, <2>3 DEF CallInv
  <1>3. CASE ~Write(t) /\ ~\E l \in Loggers, sev \in Level : Macro(t, l, sev)
    <2>1. UNCHANGED <<out, events>>
      BY <1>3 DEF Step, LogStep, AdminStep, Enter, Refuse, Acquire, Skip,
                  Accept, LoopDone, Delegate, Leave, SetLevel, AddAppender,
                  DelAppender, ClearAppender, SetAppenderLevel, Admin
    <2>2. \A u \in Thread : Active(u)' => Active(u) /\ event'[u] = event[u]
      <3>1. CASE AdminStep(t)
        BY <3>1 DEF AdminStep, Admin, SetLevel, AddAppender, DelAppender,
                    ClearAppender, SetAppenderLevel
      <3>2. CASE Enter(t) \/ Acquire(t) \/ Skip(t) \/ Accept(t) \/ LoopDone(t) \/ Delegate(t)
        BY <3>2 DEF Enter, Acquire, Skip, Accept, LoopDone, Delegate
      <3>3. CASE Refuse(t) \/ Leave(t)
        BY <3>3 DEF Refuse, Leave, Return, Finish, Resume
      <3> QED
        BY <1>3, <3>1, <3>2, <3>3 DEF Step, LogStep
    <2> QED
      BY <2>1, <2>2 DEF CallInv
  <1> QED
    BY <1>1, <1>2, <1>3

(* In the system, too. *)
LEMMA NextCall == TableInv /\ IInv /\ CallInv /\ [SysNext]_sysvars => CallInv'
  <1> SUFFICES ASSUME TableInv, IInv, CallInv, [SysNext]_sysvars PROVE CallInv'
    OBVIOUS
  <1>1. [Next]_vars
    BY SystemStepsLog
  <1>2. CASE Next
    <2>1. PICK t \in Thread : Step(t)
      BY <1>2 DEF Next, Step
    <2> QED
      BY <2>1, StepCall
  <1>3. CASE UNCHANGED vars
    BY <1>3 DEF vars, CallInv, Active
  <1> QED
    BY <1>1, <1>2, <1>3

(* The events logged while no reload was in progress: while one of them is *)
(* under way, none is.                                                     *)
CleanInv ==
  /\ clean \subseteq 1..events
  /\ \A t \in User : Active(t) /\ event[t] \in clean => job = <<>>

(* A reload that begins ends that for the calls under way. *)
LEMMA StepClean ==
  ASSUME TableInv, IInv, CallInv, CleanInv, SysNext
  PROVE  CleanInv'
  <1> USE SystemOK DEF IInv, TypeOK, User
  <1>1. CASE \E new \in Configs : ReloadBegin(new)
    <2>1. /\ clean' = clean \ InFlight /\ UNCHANGED <<pc, event, events>>
      BY <1>1 DEF ReloadBegin, vars
    <2>2. \A t \in Thread : Active(t) => event[t] \in InFlight
      BY DEF Active, InFlight
    <2> QED
      BY <2>1, <2>2 DEF CleanInv, Active
  <1>2. ASSUME UNCHANGED clean, events' \in Nat, events <= events', job = <<>> => job' = <<>>,
               \A t \in User : Active(t)' =>
                 (Active(t) /\ event'[t] = event[t]) \/ event'[t] \notin clean
        PROVE  CleanInv'
    <2>1. 1..events \subseteq 1..events'
      BY <1>2
    <2> QED
      BY <1>2, <2>1 DEF CleanInv
  <1>3. CASE Announce
    <2>1. UNCHANGED clean /\ job # <<>>
      BY <1>3 DEF Announce, Calls
    <2>2. UNCHANGED vars \/ Macro(Reloader, Root, Info)
      BY <1>3 DEF Announce
    <2>3. /\ events' \in Nat /\ events <= events'
          /\ \A t \in User : pc'[t] = pc[t] /\ event'[t] = event[t]
      BY <2>2 DEF vars, Macro, Goto
    <2> QED
      BY <1>2, <2>1, <2>3 DEF Active
  <1>4. CASE ReloadGet \/ ReloadCall
    <2>1. UNCHANGED <<clean, pc, event, events>> /\ job # <<>>
      BY <1>4 DEF ReloadGet, ReloadCall, Calls, Found, Missed, Insert, vars, SetLevel,
                  ClearAppender, SetAppenderLevel, AddAppender, Admin
    <2> QED
      BY <1>2, <2>1 DEF Active
  <1>5. ASSUME NEW t \in Thread, Logging(t)
        PROVE  CleanInv'
    <2>1. UNCHANGED <<clean, job>> /\ LogStep(t)
      BY <1>5 DEF Logging, reload
    <2>2. UNCHANGED events
      BY <2>1 DEF LogStep, Enter, Refuse, Acquire, Skip, Accept, Write, LoopDone,
                  Delegate, Leave
    <2>3. \A u \in Thread : Active(u)' => Active(u) /\ event'[u] = event[u]
      <3>1. CASE Enter(t) \/ Acquire(t) \/ Skip(t) \/ Accept(t) \/ Write(t) \/ LoopDone(t)
                 \/ Delegate(t)
        BY <3>1 DEF Enter, Acquire, Skip, Accept, Write, LoopDone, Delegate, Active, Goto
      <3>2. CASE Refuse(t) \/ Leave(t)
        BY <3>2 DEF Refuse, Leave, Return, Finish, Resume, Active
      <3> QED
        BY <2>1, <3>1, <3>2 DEF LogStep
    <2> QED
      BY <1>2, <2>1, <2>2, <2>3
  <1>6. CASE \E t \in User : UseTable(t) \/ Made(t)
    <2>1. UNCHANGED <<clean, job, pc, event, events>>
      BY <1>6 DEF UseTable, Made, reload, Found, Missed, Erase, Push, Insert, vars
    <2> QED
      BY <1>2, <2>1 DEF Active
  <1>7. ASSUME NEW t \in User, StartEvent(t)
        PROVE  CleanInv'
    <2>1. PICK l, sev : Macro(t, l, sev)
      BY <1>7 DEF StartEvent
    <2>2. /\ events' = events + 1 /\ job' = job
          /\ event' = [event EXCEPT ![t] = events + 1]
          /\ \A u \in Thread \ {t} : pc'[u] = pc[u] /\ event'[u] = event[u]
          /\ clean' = IF job = <<>> THEN clean \cup {events + 1} ELSE clean
      BY <1>7, <2>1 DEF StartEvent, Macro, Goto, reload
    <2>3. CASE job = <<>>
      <3>1. events + 1 \in 1..(events + 1) /\ 1..events \subseteq 1..(events + 1)
        OBVIOUS
      <3> QED
        BY <2>2, <2>3, <3>1 DEF CleanInv
    <2>4. CASE job # <<>>
      <3>1. events + 1 \notin 1..events
        OBVIOUS
      <3>2. event'[t] \notin clean
        BY <2>2, <3>1 DEF CleanInv
      <3> QED
        BY <1>2, <2>2, <2>4, <3>2 DEF Active
    <2> QED
      BY <2>3, <2>4
  <1> QED
    BY <1>1, <1>3, <1>4, <1>5, <1>6, <1>7, SystemKinds

-----------------------------------------------------------------------------
(* How often an event is in a log. *)
Times(s, e) == Cardinality({i \in DOMAIN s : s[i] = e})

(* An event that no position has. *)
LEMMA TimesNone ==
  ASSUME NEW s, NEW e, \A i \in DOMAIN s : s[i] # e
  PROVE  Times(s, e) = 0
  <1>1. {i \in DOMAIN s : s[i] = e} = {}
    OBVIOUS
  <1> QED
    BY <1>1, FS_EmptySet DEF Times

(* One event more. *)
LEMMA TimesAppend ==
  ASSUME NEW s \in Seq(Nat), NEW x \in Nat, NEW e
  PROVE  /\ Times(s, e) \in Nat
         /\ Times(Append(s, x), e) = IF x = e THEN Times(s, e) + 1 ELSE Times(s, e)
  <1> DEFINE n == Len(s)
             r == Append(s, x)
             I == {i \in DOMAIN s : s[i] = e}
             J == {i \in DOMAIN r : r[i] = e}
  <1>1. /\ n \in Nat /\ DOMAIN s = 1..n /\ DOMAIN r = 1..(n + 1)
        /\ r[n + 1] = x /\ \A i \in 1..n : r[i] = s[i]
    OBVIOUS
  <1>2. IsFiniteSet(I) /\ Cardinality(I) \in Nat
    <2>1. I \subseteq 1..n
      BY <1>1
    <2>2. IsFiniteSet(1..n)
      <3>1. 1 \in Int /\ n \in Int
        BY <1>1
      <3> HIDE DEF n
      <3> QED
        BY <3>1, FS_Interval
    <2> HIDE DEF I, n
    <2> QED
      BY <2>1, <2>2, FS_Subset, FS_CardinalityType
  <1>3. J = IF x = e THEN I \cup {n + 1} ELSE I
    <2>1. \A i \in 1..(n + 1) : i = n + 1 \/ i \in 1..n
      BY <1>1
    <2>2. \A i \in 1..n : i \in 1..(n + 1) /\ i # n + 1
      BY <1>1
    <2>3. n + 1 \in 1..(n + 1)
      BY <1>1
    <2> HIDE DEF n, r
    <2> QED
      BY <1>1, <2>1, <2>2, <2>3
  <1>4. n + 1 \notin I
    <2>1. n + 1 \notin 1..n
      BY <1>1
    <2> HIDE DEF n
    <2> QED
      BY <1>1, <2>1
  <1> HIDE DEF I, J, n, r
  <1>5. Cardinality(I \cup {n + 1}) = Cardinality(I) + 1
    BY <1>2, <1>4, FS_AddElement
  <1> QED
    BY <1>2, <1>3, <1>5 DEF Times, I, J, r

-----------------------------------------------------------------------------
(* The appenders of a logger that take an event, and those that the logger *)
(* and its fallback make it reach.                                         *)
Taken(l, sev) ==
  {x \in Appender : \E i \in 1..Len(appenders[l]) :
                      appenders[l][i] = x /\ apLevel[x] <= sev}

Given(l, sev) ==
  IF appenders[l] # <<>> THEN Taken(l, sev)
  ELSE IF l \notin Rootless /\ level[Root] <= sev THEN Taken(Root, sev)
  ELSE {}

(* The loggers are what reloads have made of their names, and no appender  *)
(* is listed twice.                                                        *)
Settled ==
  /\ \A l \in made : \A i, j \in 1..Len(appenders[l]) :
       appenders[l][i] = appenders[l][j] => i = j
  /\ \A l \in made, sev \in Level : Targets(l, sev) = Given(l, sev)

(* Between reloads they are. *)
LEMMA CalmSettled ==
  ASSUME TableInv, IInv, MadeInv, DueInv, ConfInv, calm, job = <<>>
  PROVE  Settled
  <1> USE SystemOK, LoggerOK DEF TableInv, ManagerOK, IInv, TypeOK
  <1>1. /\ due \in [Name -> Definition] /\ Apart(due)
    BY DueApart DEF DueInv, DueOf
  <1>2. \A n \in Name : Fits(View, n, due[n])
    BY LeadsNone DEF ConfInv
  <1> DEFINE D(l) == due[KeyOf[l]].appenders
  <1>3. ASSUME NEW l \in made
        PROVE  /\ KeyOf[l] \in Name /\ l \in Loggers
               /\ D(l) \in Seq(ApDefs)
               /\ level[l] = due[KeyOf[l]].level
               /\ appenders[l] = Listing(D(l))
               /\ \A i \in 1..Len(D(l)) : apLevel[D(l)[i].appender] = D(l)[i].level
    <2>1. /\ KeyOf[l] \in Name /\ l \in Loggers /\ table[KeyOf[l]] = l /\ l # NoLogger
      BY DEF CalmInv
    <2>2. LevelOf(KeyOf[l]) = level[l] /\ ListOf(KeyOf[l]) = appenders[l]
      BY <2>1 DEF LevelOf, ListOf
    <2>3. due[KeyOf[l]] \in Definition
      BY <1>1, <2>1
    <2> QED
      BY <1>2, <2>1, <2>2, <2>3 DEF View, Fits, Definition, ApDefs
  <1>4. ASSUME NEW l \in made
        PROVE  /\ DOMAIN D(l) = 1..Len(D(l)) /\ Len(appenders[l]) = Len(D(l))
               /\ Len(D(l)) \in Nat
               /\ \A i \in 1..Len(D(l)) :
                    /\ appenders[l][i] = D(l)[i].appender /\ D(l)[i].appender \in Appender
                    /\ D(l)[i].level = apLevel[D(l)[i].appender]
    <2> DEFINE as == D(l)
    <2>1. /\ as \in Seq(ApDefs) /\ appenders[l] = Listing(as)
          /\ \A i \in 1..Len(as) : apLevel[as[i].appender] = as[i].level
      BY <1>3, <1>4
    <2> HIDE DEF as
    <2>2. /\ DOMAIN as = 1..Len(as) /\ Len(appenders[l]) = Len(as) /\ Len(as) \in Nat
          /\ \A i \in 1..Len(as) :
               /\ appenders[l][i] = as[i].appender /\ as[i].appender \in Appender
               /\ as[i].level = apLevel[as[i].appender]
      BY <2>1, ListingType
    <2> QED
      BY <2>2 DEF as
  <1>5. ASSUME NEW l \in made, NEW sev
        PROVE  Listed(KeyOf[l], sev) = Taken(l, sev)
    <2>1. Listed(KeyOf[l], sev) =
            {D(l)[i].appender : i \in {j \in 1..Len(D(l)) : D(l)[j].level <= sev}}
      BY <1>4 DEF Listed
    <2>2. \A x : x \in Taken(l, sev) <=>
                   x \in Appender /\ \E i \in 1..Len(D(l)) : D(l)[i].appender = x /\ apLevel[x] <= sev
      <3>1. /\ Len(appenders[l]) = Len(D(l))
            /\ \A i \in 1..Len(D(l)) : appenders[l][i] = D(l)[i].appender
        BY <1>4, <1>5
      <3> HIDE DEF D
      <3> QED
        BY <3>1 DEF Taken
    <2>3. \A i \in 1..Len(D(l)) :
            D(l)[i].appender \in Appender /\ D(l)[i].level = apLevel[D(l)[i].appender]
      BY <1>4, <1>5
    <2>4. ASSUME NEW x
          PROVE  x \in Listed(KeyOf[l], sev) <=> x \in Taken(l, sev)
      <3>1. x \in Listed(KeyOf[l], sev) <=>
              \E i \in 1..Len(D(l)) : D(l)[i].level <= sev /\ x = D(l)[i].appender
        <4> HIDE DEF D
        <4> QED
          BY <2>1
      <3>2. ASSUME NEW i \in 1..Len(D(l)), x = D(l)[i].appender
            PROVE  D(l)[i].level <= sev <=> apLevel[x] <= sev
        BY <2>3, <3>2
      <3>3. (\E i \in 1..Len(D(l)) : D(l)[i].level <= sev /\ x = D(l)[i].appender)
              <=> x \in Appender /\ \E i \in 1..Len(D(l)) : D(l)[i].appender = x /\ apLevel[x] <= sev
        <4> HIDE DEF D
        <4> QED
          BY <2>3, <3>2
      <3> QED
        BY <2>2, <3>1, <3>3
    <2>5. \A x \in Listed(KeyOf[l], sev) : x \in Taken(l, sev)
      BY <2>4
    <2> QED
      BY <2>4 DEF Taken, Listed
  <1>6. Root \in made /\ KeyOf[Root] = RootName
    BY DEF MadeInv
  <1>7. ASSUME NEW l \in made, NEW sev \in Level
        PROVE  Targets(l, sev) = Given(l, sev)
    <2>1. D(l) = <<>> <=> appenders[l] = <<>>
      <3>1. appenders[l] \in Seq(Appender) /\ Len(appenders[l]) = Len(D(l)) /\ D(l) \in Seq(ApDefs)
        BY <1>3, <1>4
      <3> HIDE DEF D
      <3> QED
        BY <3>1
    <2>2. Listed(KeyOf[l], sev) = Taken(l, sev) /\ Listed(RootName, sev) = Taken(Root, sev)
      BY <1>5, <1>6
    <2>3. due[RootName].level = level[Root]
      BY <1>3, <1>6
    <2> QED
      BY <2>1, <2>2, <2>3 DEF Targets, Given
  <1>8. ASSUME NEW l \in made, NEW i \in 1..Len(appenders[l]), NEW j \in 1..Len(appenders[l]),
               appenders[l][i] = appenders[l][j]
        PROVE  i = j
    <2>1. /\ KeyOf[l] \in Name /\ i \in 1..Len(D(l)) /\ j \in 1..Len(D(l))
          /\ D(l)[i].appender = D(l)[j].appender
      BY <1>3, <1>4, <1>8
    <2> QED
      BY <1>1, <2>1, SMTT(30) DEF Apart
  <1> QED
    BY <1>7, <1>8 DEF Settled

-----------------------------------------------------------------------------
(* Whether a call has written its event to an appender. *)
Expect(t, x) ==
  \/ /\ pc[t] \in {"loop", "write"}
     /\ \E i \in 1..Len(List(t)) :
          i < pos[t] /\ List(t)[i] = x /\ apLevel[x] <= severity[t]
  \/ pc[t] = "leave" /\ x \in Targets(origin[t], severity[t])

(* Its levels have been passed, and it has written to the appenders that   *)
(* its iterator has passed, once each.                                     *)
PassInv(t) ==
  /\ level[origin[t]] <= severity[t]
  /\ pc[t] \in {"wait", "loop", "write"} => level[at[t]] <= severity[t]
  /\ at[t] # origin[t] => origin[t] \notin Rootless
  /\ pc[t] = "write" => apLevel[Current(t)] <= severity[t]
  /\ \A x \in Appender : Times(out[x], event[t]) = IF Expect(t, x) THEN 1 ELSE 0

EventInv == calm => \A t \in User : Active(t) /\ event[t] \in clean => PassInv(t)

(* The appenders of a logger's list, as positions. *)
LEMMA TakenAre ==
  ASSUME IInv, NEW l \in Loggers, NEW sev, NEW x
  PROVE  x \in Taken(l, sev) <=>
           \E i \in 1..Len(appenders[l]) : appenders[l][i] = x /\ apLevel[x] <= sev
  BY ElementsOf DEF IInv, TypeOK, Taken

(* A step of log() moves one thread. *)
LEMMA OneMoves ==
  ASSUME IInv, NEW t \in Thread, LogStep(t)
  PROVE  /\ UNCHANGED <<config, events>>
         /\ \A u \in Thread \ {t} :
              /\ pc'[u] = pc[u] /\ pos'[u] = pos[u] /\ at'[u] = at[u]
              /\ origin'[u] = origin[u] /\ event'[u] = event[u]
              /\ severity'[u] = severity[u]
         /\ \/ UNCHANGED out
            \/ \E a \in Appender : out' = [out EXCEPT ![a] = Append(out[a], event[t])]
  <1> USE LoggerOK DEF IInv, TypeOK, Goto
  <1>1. CASE Enter(t) \/ Acquire(t) \/ Skip(t) \/ Accept(t) \/ LoopDone(t) \/ Delegate(t)
    BY <1>1 DEF Enter, Acquire, Skip, Accept, LoopDone, Delegate
  <1>2. CASE Write(t)
    <2>1. target[t] = Current(t) /\ pos[t] <= Len(List(t))
      BY <1>2 DEF Write, FrameInv
    <2>2. target[t] \in Appender
      BY <2>1 DEF List, Current
    <2> QED
      BY <1>2, <2>2 DEF Write
  <1>3. CASE Refuse(t) \/ Leave(t)
    BY <1>3 DEF Refuse, Leave, Return, Finish, Resume
  <1> QED
    BY <1>1, <1>2, <1>3 DEF LogStep

(* A call is where it was when another thread takes a step of log(). *)
LEMMA OthersPass ==
  ASSUME TableInv, IInv, CallInv, MadeInv, NEW t \in Thread, LogStep(t), UNCHANGED due,
         NEW u \in Thread \ {t}, Active(u), Active(t), PassInv(u)
  PROVE  PassInv(u)'
  <1> USE DEF IInv, TypeOK
  <1>1. /\ UNCHANGED <<config, events, due>>
        /\ pc'[u] = pc[u] /\ pos'[u] = pos[u] /\ at'[u] = at[u]
        /\ origin'[u] = origin[u] /\ event'[u] = event[u] /\ severity'[u] = severity[u]
    BY OneMoves
  <1>2. \A x \in Appender : Expect(u, x)' <=> Expect(u, x)
    BY <1>1 DEF Expect, List, Targets, Listed
  <1>3. ASSUME NEW x \in Appender PROVE Times(out'[x], event[u]) = Times(out[x], event[u])
    <2>1. event[t] # event[u] /\ event[t] \in Nat /\ out[x] \in Seq(Nat)
      BY DEF CallInv
    <2>2. UNCHANGED out \/ \E a \in Appender : out' = [out EXCEPT ![a] = Append(out[a], event[t])]
      BY OneMoves
    <2>3. out'[x] = out[x] \/ out'[x] = Append(out[x], event[t])
      BY <2>2
    <2>4. Times(Append(out[x], event[t]), event[u]) = Times(out[x], event[u])
      BY <2>1, TimesAppend
    <2> QED
      BY <2>3, <2>4
  <1> QED
    BY <1>1, <1>2, <1>3 DEF PassInv, List, Current

(* A step of log() brings its call on. *)
LEMMA CallPasses ==
  ASSUME TableInv, IInv, MadeInv, Settled, NEW t \in Thread, LogStep(t), UNCHANGED due,
         PassInv(t), Active(t)'
  PROVE  PassInv(t)'
  <1> USE LoggerOK DEF IInv, TypeOK, Goto
  <1> DEFINE o == origin[t]
             sev == severity[t]
  <1>1. /\ o \in made /\ Root \in made /\ at[t] \in made /\ sev \in Level /\ Level \subseteq Nat
        /\ o \in Loggers /\ at[t] \in Loggers
        /\ at[t] = o \/ (at[t] = Root /\ appenders[o] = <<>> /\ o \notin Rootless /\ o # Root)
        /\ level[o] <= sev
    BY DEF MadeInv, FallbackStillDue, PassInv
  <1>2. UNCHANGED config
    BY OneMoves
  <1>3. \A l, s : Targets(l, s)' = Targets(l, s)
    BY DEF Targets, Listed
  <1>4. /\ List(t) \in Seq(Appender) /\ DOMAIN List(t) = 1..Len(List(t))
        /\ Len(List(t)) \in Nat /\ \A i \in 1..Len(List(t)) : List(t)[i] \in Appender
        /\ pos[t] \in Nat \ {0}
        /\ \A i, j \in 1..Len(List(t)) : List(t)[i] = List(t)[j] => i = j
    BY <1>1, ElementsOf DEF List, Settled
  <1>5. Targets(o, sev) = Given(o, sev)
    BY <1>1 DEF Settled
  <1> DEFINE Same == /\ UNCHANGED <<out>> /\ event'[t] = event[t]
                     /\ \A x \in Appender : Expect(t, x)' <=> Expect(t, x)
  <1>6. ASSUME Same PROVE \A x \in Appender : Times(out'[x], event'[t]) = IF Expect(t, x)' THEN 1 ELSE 0
    BY <1>6 DEF PassInv
  <1> HIDE DEF o, sev
  <1>7. CASE Enter(t)
    <2>1. /\ UNCHANGED <<out, at, origin, event, severity>> /\ pc[t] = "enter" /\ pc'[t] = "wait"
          /\ level[at[t]] <= severity[t]
      BY <1>7 DEF Enter
    <2>2. Same
      BY <2>1 DEF Expect
    <2> QED
      BY <1>2, <1>6, <2>1, <2>2 DEF PassInv
  <1>8. CASE Refuse(t)
    <2>1. level[at[t]] > sev
      BY <1>8 DEF Refuse, sev
    <2>2. at[t] # o
      <3>1. level[o] \in Nat /\ sev \in Nat
        BY <1>1
      <3> QED
        BY <1>1, <2>1, <3>1
    <2>3. /\ pc[t] = "enter" /\ pc'[t] = "leave" /\ at'[t] = origin[t]
          /\ UNCHANGED <<out, origin, event, severity>>
      BY <1>8, <2>2, ResumeOne DEF o, Refuse
    <2>4. ~(level[Root] <= sev)
      <3>1. level[Root] \in Nat /\ sev \in Nat /\ at[t] = Root
        BY <1>1, <2>2
      <3> QED
        BY <2>1, <3>1
    <2>5. Targets(o, sev) = {}
      BY <1>1, <1>5, <2>2, <2>4 DEF Given
    <2>6. Same
      BY <1>3, <2>3, <2>5 DEF Expect, o, sev
    <2> QED
      BY <1>1, <1>2, <1>6, <2>3, <2>6 DEF PassInv, o, sev
  <1>9. CASE Acquire(t)
    <2>1. /\ UNCHANGED <<out, at, origin, event, severity>> /\ pc[t] = "wait" /\ pc'[t] = "loop"
          /\ pos'[t] = 1
      BY <1>9 DEF Acquire
    <2>2. \A i \in 1..Len(List(t)) : ~(i < 1)
      BY <1>4
    <2>3. Same
      BY <1>2, <2>1, <2>2 DEF Expect, List
    <2> QED
      BY <1>2, <1>6, <2>1, <2>3 DEF PassInv
  <1>10. CASE Skip(t)
    <2>1. /\ UNCHANGED <<out, at, origin, event, severity, pc>> /\ pc[t] = "loop"
          /\ pos'[t] = pos[t] + 1 /\ pos[t] <= Len(List(t)) /\ apLevel[Current(t)] > severity[t]
      BY <1>10 DEF Skip
    <2>2. ~(apLevel[Current(t)] <= severity[t]) /\ pos[t] \in 1..Len(List(t))
      <3>1. pos[t] \in 1..Len(List(t))
        BY <1>4, <2>1
      <3>2. Current(t) \in Appender
        BY <1>4, <3>1 DEF Current
      <3>3. apLevel[Current(t)] \in Nat /\ severity[t] \in Nat
        BY <1>1, <3>2
      <3> QED
        BY <2>1, <3>1, <3>3
    <2>3. \A i \in 1..Len(List(t)) : i < pos[t] + 1 <=> i < pos[t] \/ i = pos[t]
      BY <1>4
    <2>4. Same
      BY <1>2, <2>1, <2>2, <2>3, SMTT(30) DEF Expect, List, Current
    <2> QED
      BY <1>2, <1>6, <2>1, <2>4 DEF PassInv
  <1>11. CASE Accept(t)
    <2>1. /\ UNCHANGED <<out, at, origin, event, severity, pos>>
          /\ pc[t] = "loop" /\ pc'[t] = "write" /\ apLevel[Current(t)] <= severity[t]
      BY <1>11 DEF Accept
    <2>2. Same
      BY <1>2, <2>1 DEF Expect, List
    <2> QED
      BY <1>2, <1>6, <2>1, <2>2 DEF PassInv, Current, List
  <1>12. CASE Write(t)
    <2> DEFINE a == Current(t)
    <2>1. /\ UNCHANGED <<at, origin, event, severity>>
          /\ pc[t] = "write" /\ pc'[t] = "loop" /\ pos'[t] = pos[t] + 1
          /\ pos[t] \in 1..Len(List(t)) /\ target[t] = a /\ a \in Appender
          /\ out' = [out EXCEPT ![a] = Append(out[a], event[t])]
          /\ apLevel[a] <= severity[t]
      <3>1. pos[t] \in 1..Len(List(t)) /\ target[t] = a
        BY <1>4, <1>12 DEF Write, FrameInv
      <3>2. a \in Appender
        BY <1>4, <3>1 DEF Current
      <3> QED
        BY <1>12, <3>1, <3>2 DEF Write, PassInv
    <2>2. \A i \in 1..Len(List(t)) : i < pos[t] + 1 <=> i < pos[t] \/ i = pos[t]
      BY <1>4
    <2>3. a = List(t)[pos[t]] /\ ~(pos[t] < pos[t])
      BY <1>4 DEF Current
    <2> HIDE DEF a
    <2> DEFINE L == List(t)
    <2>7. L' = L /\ apLevel' = apLevel
      BY <1>2, <2>1 DEF List
    <2>8. \A x : Expect(t, x) <=>
                   \E i \in 1..Len(L) : i < pos[t] /\ L[i] = x /\ apLevel[x] <= severity[t]
      BY <2>1 DEF Expect
    <2>9. \A x : Expect(t, x)' <=>
                   \E i \in 1..Len(L) : (i < pos[t] \/ i = pos[t]) /\ L[i] = x /\ apLevel[x] <= severity[t]
      <3>1. \A x : Expect(t, x)' <=>
                     \E i \in 1..Len(L') : i < pos'[t] /\ L'[i] = x /\ apLevel'[x] <= severity'[t]
        BY <2>1 DEF Expect
      <3> HIDE DEF L
      <3> QED
        BY <2>1, <2>2, <2>7, <3>1 DEF L
    <2>4. ASSUME NEW x, x = a PROVE ~Expect(t, x) /\ Expect(t, x)'
      <3>1. \A i \in 1..Len(L) : L[i] = x => i = pos[t]
        BY <1>4, <2>1, <2>3, <2>4
      <3>2. ~Expect(t, x)
        BY <2>3, <2>8, <3>1
      <3>3. Expect(t, x)'
        BY <2>1, <2>3, <2>4, <2>9
      <3> QED
        BY <3>2, <3>3
    <2>5. \A x \in Appender : x # a => (Expect(t, x)' <=> Expect(t, x))
      BY <2>1, <2>3, <2>8, <2>9
    <2>6. ASSUME NEW x \in Appender
          PROVE  Times(out'[x], event'[t]) = IF Expect(t, x)' THEN 1 ELSE 0
      <3>1. CASE x = a
        <4>1. out'[x] = Append(out[x], event[t]) /\ out[x] \in Seq(Nat) /\ event[t] \in Nat
          BY <2>1, <3>1
        <4>2. Times(out[x], event[t]) = 0
          BY <2>4, <3>1 DEF PassInv
        <4>3. Times(out'[x], event[t]) = 0 + 1
          BY <4>1, <4>2, TimesAppend
        <4>4. Expect(t, x)' /\ event'[t] = event[t]
          BY <2>1, <2>4, <3>1
        <4> QED
          BY <4>3, <4>4
      <3>2. CASE x # a
        BY <2>1, <2>5, <3>2 DEF PassInv
      <3> QED
        BY <3>1, <3>2
    <2> QED
      BY <1>2, <2>1, <2>6 DEF PassInv
  <1>13. CASE LoopDone(t)
    <2>1. /\ UNCHANGED <<out, at, origin, event, severity, pos>>
          /\ pc[t] = "loop" /\ pc'[t] = "leave" /\ pos[t] > Len(List(t))
          /\ List(t) # <<>> \/ at[t] \in Rootless
      BY <1>13 DEF LoopDone, HasRoot
    <2>2. \A i \in 1..Len(List(t)) : i < pos[t]
      BY <1>4, <2>1
    <2>3. \A x \in Appender : x \in Taken(at[t], sev) <=>
            \E i \in 1..Len(List(t)) : List(t)[i] = x /\ apLevel[x] <= sev
      BY <1>1, TakenAre, SMTT(30) DEF List
    <2>4. Targets(o, sev) = Taken(at[t], sev)
      <3>1. CASE at[t] # o
        <4>1. level[Root] <= sev
          BY <1>1, <2>1, <3>1 DEF PassInv, sev
        <4> QED
          BY <1>1, <1>5, <3>1, <4>1 DEF Given
      <3>2. CASE at[t] = o /\ List(t) # <<>>
        BY <1>5, <3>2 DEF Given, List
      <3>3. CASE at[t] = o /\ List(t) = <<>>
        <4>1. Targets(o, sev) = {}
          BY <1>5, <2>1, <3>3 DEF Given, List
        <4>2. \A x \in Taken(at[t], sev) : FALSE
          BY <1>1, <3>3, TakenAre DEF List
        <4> QED
          BY <4>1, <4>2
      <3> QED
        BY <3>1, <3>2, <3>3
    <2>5. Same
      BY <1>3, <2>1, <2>2, <2>3, <2>4 DEF Expect, o, sev
    <2> QED
      BY <1>2, <1>6, <2>1, <2>5 DEF PassInv
  <1>14. CASE Delegate(t)
    <2>1. /\ UNCHANGED <<out, origin, event, severity, pos>>
          /\ pc[t] = "loop" /\ pc'[t] = "enter" /\ List(t) = <<>> /\ at[t] \notin Rootless
          /\ at'[t] = Root
      BY <1>14 DEF Delegate, HasRoot
    <2>2. at[t] = o
      BY <1>1, <2>1
    <2>3. 1..Len(List(t)) = {}
      BY <2>1
    <2>4. Same
      BY <2>1, <2>3 DEF Expect
    <2> QED
      BY <1>1, <1>2, <1>6, <2>1, <2>2, <2>4 DEF PassInv, o, sev
  <1>15. CASE Leave(t)
    <2>1. at[t] # o
      BY <1>15 DEF Leave, Return, Finish, Active, o
    <2>2. /\ pc[t] = "leave" /\ pc'[t] = "leave" /\ at'[t] = origin[t]
          /\ UNCHANGED <<out, origin, event, severity>>
      BY <1>15, <2>1, ResumeOne DEF o, Leave
    <2>3. Same
      BY <1>3, <2>2 DEF Expect
    <2> QED
      BY <1>1, <1>2, <1>6, <2>2, <2>3 DEF PassInv, o, sev
  <1> QED
    BY <1>7, <1>8, <1>9, <1>10, <1>11, <1>12, <1>13, <1>14, <1>15 DEF LogStep

-----------------------------------------------------------------------------
(* A step of log() is one of a call under way, which keeps its event.      *)
LEMMA UnderWay ==
  ASSUME IInv, NEW t \in Thread, LogStep(t)
  PROVE  Active(t) /\ (Active(t)' => event'[t] = event[t])
  <1>1. CASE Enter(t) \/ Acquire(t) \/ Skip(t) \/ Accept(t) \/ Write(t) \/ LoopDone(t)
             \/ Delegate(t)
    BY <1>1 DEF Enter, Acquire, Skip, Accept, Write, LoopDone, Delegate, Active, Goto
  <1>2. CASE Refuse(t) \/ Leave(t)
    BY <1>2 DEF Refuse, Leave, Return, Finish, Resume, Active, IInv, TypeOK
  <1> QED
    BY <1>1, <1>2 DEF LogStep

(* A call does not notice what others do elsewhere. *)
LEMMA PassStays ==
  ASSUME UNCHANGED <<vars, due>>, NEW t, PassInv(t)
  PROVE  PassInv(t)'
  <1>1. UNCHANGED <<level, appenders, apLevel, pc, at, origin, event, severity, pos, out>>
    BY DEF vars
  <1>2. List(t)' = List(t) /\ Current(t)' = Current(t)
    BY <1>1 DEF List, Current
  <1>3. \A l, sev : Targets(l, sev)' = Targets(l, sev)
    BY DEF Targets, Listed
  <1>4. \A x : Expect(t, x)' <=> Expect(t, x)
    BY <1>1, <1>2, <1>3 DEF Expect
  <1>5. \A x : Times(out[x], event[t])' = Times(out[x], event[t])
    BY <1>1 DEF Times
  <1> QED
    BY <1>1, <1>2, <1>4, <1>5 DEF PassInv

(* No step disturbs the calls of the events logged between reloads. *)
LEMMA StepEvent ==
  ASSUME TableInv, IInv, CallInv, MadeInv, DueInv, ConfInv, CleanInv, EventInv, SysNext
  PROVE  EventInv'
  <1> USE SystemOK, LoggerOK DEF IInv, TypeOK, User
  <1>1. CASE \E new \in Configs : ReloadBegin(new)
    <2>1. clean' = clean \ InFlight /\ UNCHANGED <<pc, event>>
      BY <1>1 DEF ReloadBegin, vars
    <2>2. \A t \in Thread : Active(t) => event[t] \in InFlight
      BY DEF Active, InFlight
    <2> QED
      BY <2>1, <2>2 DEF EventInv, Active
  <1>2. CASE Announce \/ ReloadGet \/ ReloadCall
    <2>1. job # <<>> /\ UNCHANGED clean
      BY <1>2 DEF Announce, ReloadGet, ReloadCall, Calls
    <2>2. ASSUME NEW t \in User PROVE pc'[t] = pc[t] /\ event'[t] = event[t]
      <3>1. CASE Announce
        BY <3>1 DEF Announce, vars, Macro, Goto
      <3>2. CASE ReloadGet \/ ReloadCall
        BY <3>2 DEF ReloadGet, ReloadCall, Found, Missed, Insert, vars, SetLevel,
                    ClearAppender, SetAppenderLevel, AddAppender, Admin
      <3> QED
        BY <1>2, <3>1, <3>2
    <2>3. ASSUME NEW t \in User PROVE ~(Active(t)' /\ event'[t] \in clean')
      BY <2>1, <2>2 DEF CleanInv, Active
    <2> QED
      BY <2>3 DEF EventInv
  <1>3. CASE \E t \in User : UseTable(t) \/ Made(t)
    <2>1. UNCHANGED <<vars, due, clean>>
      BY <1>3 DEF UseTable, Made, reload, Found, Missed, Erase, Push, Insert
    <2>2. calm' => calm
      BY <1>3 DEF UseTable, Made, Found, Missed, Erase, Push, Insert
    <2>3. ASSUME NEW t \in User, PassInv(t) PROVE PassInv(t)'
      BY <2>1, <2>3, PassStays
    <2> QED
      BY <2>1, <2>2, <2>3 DEF EventInv, Active, vars
  <1>4. ASSUME NEW t \in User, StartEvent(t), NEW l, NEW sev, Macro(t, l, sev)
        PROVE  EventInv'
    <2>1. /\ UNCHANGED <<level, appenders, apLevel, out, calm, due>> /\ level[l] <= sev
          /\ pc'[t] = "enter" /\ at'[t] = l /\ origin'[t] = l /\ severity'[t] = sev
          /\ event'[t] = events + 1
          /\ \A u \in Thread \ {t} :
               /\ pc'[u] = pc[u] /\ pos'[u] = pos[u] /\ at'[u] = at[u]
               /\ origin'[u] = origin[u] /\ event'[u] = event[u]
               /\ severity'[u] = severity[u]
          /\ clean' = IF job = <<>> THEN clean \cup {events + 1} ELSE clean
      BY <1>4 DEF StartEvent, Macro, Goto, manager, reload
    <2>2. events + 1 \notin 1..events
      OBVIOUS
    <2>3. PassInv(t)'
      <3>1. ASSUME NEW x \in Appender PROVE Times(out'[x], event'[t]) = 0
        <4>1. out[x] \in Seq(Nat)
          OBVIOUS
        <4>2. DOMAIN out[x] = 1..Len(out[x])
          BY <4>1, ElementsOf
        <4>3. \A i \in DOMAIN out[x] : out[x][i] # events + 1
          <5>1. \A i \in 1..Len(out[x]) : out[x][i] \in 1..events
            BY DEF CallInv
          <5> QED
            BY <2>2, <4>2, <5>1
        <4>4. Times(out[x], events + 1) = 0
          BY <4>3, TimesNone
        <4> QED
          BY <2>1, <4>4
      <3>2. \A x : ~Expect(t, x)'
        BY <2>1 DEF Expect
      <3> QED
        BY <2>1, <3>1, <3>2 DEF PassInv
    <2>4. ASSUME NEW u \in User \ {t}, calm, Active(u)', event'[u] \in clean'
          PROVE  PassInv(u)'
      <3>1. /\ pc'[u] = pc[u] /\ pos'[u] = pos[u] /\ at'[u] = at[u]
            /\ origin'[u] = origin[u] /\ event'[u] = event[u] /\ severity'[u] = severity[u]
        BY <2>1
      <3>2. Active(u) /\ event[u] # events + 1
        BY <2>2, <2>4, <3>1 DEF Active, CallInv
      <3>3. event[u] \in clean
        BY <2>1, <2>4, <3>1, <3>2
      <3>4. PassInv(u)
        BY <2>4, <3>2, <3>3 DEF EventInv
      <3>5. List(u)' = List(u) /\ Current(u)' = Current(u)
        BY <2>1, <3>1 DEF List, Current
      <3>6. \A x : Expect(u, x)' <=> Expect(u, x)
        BY <2>1, <3>1, <3>5 DEF Expect, Targets, Listed
      <3> QED
        BY <2>1, <3>1, <3>4, <3>5, <3>6 DEF PassInv
    <2> QED
      BY <2>1, <2>3, <2>4 DEF EventInv
  <1>5. ASSUME NEW t \in Thread, Logging(t)
        PROVE  EventInv'
    <2>1. LogStep(t) /\ UNCHANGED <<due, calm, clean, job>>
      BY <1>5 DEF Logging, manager, reload
    <2>2. Active(t) /\ (Active(t)' => event'[t] = event[t])
      BY <2>1, UnderWay
    <2>3. ASSUME NEW u \in User \ {t}, calm, Active(u)', event'[u] \in clean
          PROVE  PassInv(u)'
      <3>1. Active(u) /\ event[u] \in clean
        BY <2>1, <2>3, OneMoves DEF Active
      <3>2. PassInv(u)
        BY <2>3, <3>1 DEF EventInv
      <3> QED
        BY <2>1, <2>2, <3>1, <3>2, OthersPass
    <2>4. ASSUME t \in User, calm, Active(t)', event'[t] \in clean
          PROVE  PassInv(t)'
      <3>1. event[t] \in clean
        BY <2>2, <2>4
      <3>2. job = <<>> /\ PassInv(t)
        BY <2>2, <2>4, <3>1 DEF CleanInv, EventInv
      <3>3. Settled
        BY <2>4, <3>2, CalmSettled
      <3> QED
        BY <2>1, <2>4, <3>2, <3>3, CallPasses
    <2> QED
      BY <2>1, <2>3, <2>4 DEF EventInv
  <1>6. CASE \E t \in User : StartEvent(t)
    BY <1>4, <1>6 DEF StartEvent
  <1> QED
    BY <1>1, <1>2, <1>3, <1>5, <1>6, SystemKinds

(* What the delivery rests on. *)
DeliverInv == CallInv /\ MadeInv /\ DueInv /\ ConfInv /\ CleanInv /\ EventInv

(* At first nothing has been logged and nothing reloaded, ... *)
LEMMA DeliverStarts == SysInit => DeliverInv
  <1> SUFFICES ASSUME SysInit PROVE DeliverInv
    OBVIOUS
  <1>1. CallInv /\ CleanInv /\ EventInv
    <2>1. Len(<<>>) = 0 /\ 1..0 = {}
      OBVIOUS
    <2> QED
      BY <2>1 DEF SysInit, Init, CallInv, CleanInv, EventInv, Active, User
  <1> QED
    BY <1>1, InitMade, InitDue, InitConf DEF DeliverInv

(* ... and every step keeps it. *)
LEMMA NextDeliver ==
  TableInv /\ IInv /\ ReloadInv /\ DeliverInv /\ [SysNext]_sysvars => DeliverInv'
  <1> SUFFICES ASSUME TableInv, IInv, ReloadInv, DeliverInv, [SysNext]_sysvars
               PROVE  DeliverInv'
    OBVIOUS
  <1> USE DEF DeliverInv
  <1>1. CASE SysNext
    <2>1. CallInv'
      BY <1>1, NextCall
    <2>2. MadeInv' /\ DueInv' /\ ConfInv' /\ CleanInv' /\ EventInv'
      BY <1>1, StepMade, StepDue, StepConf, StepClean, StepEvent
    <2> QED
      BY <2>1, <2>2
  <1>2. CASE UNCHANGED sysvars
    <2>1. UNCHANGED <<vars, manager, reload, clean>>
      BY <1>2 DEF sysvars
    <2>2. CallInv'
      BY <2>1 DEF vars, CallInv, Active
    <2>3. MadeInv'
      BY <2>1 DEF vars, manager, MadeInv
    <2>4. DueInv'
      BY <2>1 DEF reload, DueInv
    <2>5. ConfInv'
      <3>1. View' = View /\ job' = job /\ due' = due /\ calm' = calm
        BY <2>1 DEF vars, manager, reload, View, LevelOf, ListOf
      <3> QED
        BY <3>1 DEF ConfInv
    <2>6. CleanInv'
      BY <2>1 DEF vars, reload, CleanInv, Active
    <2>7. EventInv'
      <3>1. ASSUME NEW t \in User, PassInv(t) PROVE PassInv(t)'
        BY <2>1, <3>1, PassStays DEF reload
      <3> QED
        BY <2>1, <3>1 DEF EventInv, Active, vars, manager
    <2> QED
      BY <2>2, <2>3, <2>4, <2>5, <2>6, <2>7
  <1> QED
    BY <1>1, <1>2

(* A call that returns has delivered its event. *)
LEMMA ReturnDelivers ==
  ASSUME TableInv, IInv, DeliverInv, SysNext,
         NEW t \in User, Returns(t), calm, event[t] \in clean, NEW a \in Appender
  PROVE  Count(a, event[t]) = IF a \in Targets(origin[t], severity[t]) THEN 1 ELSE 0
  <1> USE DEF IInv, TypeOK, Returns, User
  <1>1. [Next]_vars
    BY SystemStepsLog
  <1>2. Next
    BY <1>1 DEF vars
  <1>3. PICK u \in Thread : Step(u)
    BY <1>2 DEF Next, Step
  <1>4. u = t
    BY <1>3, OthersStay
  <1>5. PassInv(t)
    BY DEF DeliverInv, EventInv, Active
  <1>6. Refuse(t) \/ Leave(t)
    BY <1>3, <1>4
    DEF Step, LogStep, AdminStep, Macro, Goto, Enter, Acquire, Skip, Accept, Write,
        LoopDone, Delegate, SetLevel, AddAppender, DelAppender, ClearAppender,
        SetAppenderLevel, Admin
  <1>7. at[t] = origin[t]
    BY <1>6, ResumeOne
  <1>8. Leave(t)
    <2>1. level[at[t]] \in Nat /\ severity[t] \in Nat /\ level[at[t]] <= severity[t]
      BY <1>5, <1>7, LoggerOK DEF PassInv
    <2> QED
      BY <1>6, <2>1 DEF Refuse
  <1>9. out' = out /\ pc[t] = "leave"
    BY <1>8 DEF Leave
  <1>10. Expect(t, a) <=> a \in Targets(origin[t], severity[t])
    BY <1>9 DEF Expect
  <1> QED
    BY <1>5, <1>9, <1>10 DEF PassInv, Count, Times

(* An event logged while no reload is in progress is written exactly once  *)
(* by each appender that the configuration gives its logger, and by no     *)
(* other (log.cc:222-235, 480-528, 645-656).                               *)
THEOREM DeliveryAsConfigured == SysSpec => DeliveredAsConfigured
  <1>1. SysSpec => []DeliverInv
    BY DeliverStarts, NextDeliver, ReloadKept, TableConsistent, SystemIsLogging,
       LoggerInductive, PTL DEF SysSpec
  <1>2. TableInv /\ IInv /\ DeliverInv /\ [SysNext]_sysvars =>
          [\A t \in User : Returns(t) /\ calm /\ event[t] \in clean =>
             \A a \in Appender :
               Count(a, event[t]) =
                 IF a \in Targets(origin[t], severity[t]) THEN 1 ELSE 0]_sysvars
    BY ReturnDelivers
  <1> QED
    BY <1>1, <1>2, TableConsistent, SystemIsLogging, LoggerInductive, PTL
    DEF SysSpec, DeliveredAsConfigured
=============================================================================
