---------------------- MODULE FormattedAppenderProofs ----------------------
(***************************************************************************)
(* Machine-checked proofs about the file appender, alone and shared by     *)
(* loggers, for any number of threads, loggers and patterns: what the      *)
(* stream's error state says about the file, that nothing is written       *)
(* before the file was opened once, and which pattern the appender has.    *)
(***************************************************************************)
EXTENDS FormattedAppender, TLAPS

-----------------------------------------------------------------------------
(* The stream: FileAppender.                                               *)

FileType ==
  /\ disk \in BOOLEAN /\ isOpen \in BOOLEAN /\ good \in BOOLEAN
  /\ due \in BOOLEAN /\ tried \in BOOLEAN /\ broken \in BOOLEAN
  /\ pc \in [Thread -> {"idle", "reopen", "stamp", "write", "ended"}]

(* The time is stamped, and a thread is past reopen, only when a first     *)
(* reopen has been; before that the file is closed.                        *)
FirstOpen ==
  /\ \A t \in Thread : pc[t] \in {"stamp", "write"} => tried
  /\ ~due => tried
  /\ ~tried => ~isOpen

FileInv == FileType /\ FirstOpen /\ OpenIsGood

(* The constructor establishes the invariant of the file, ...              *)
LEMMA FileStarts == Init => FileInv
  BY DEF Init, FileInv, FileType, FirstOpen, OpenIsGood

(* ... and every step preserves it.                                        *)
LEMMA FileSteps == FileInv /\ [Next]_vars => FileInv'
  <1> SUFFICES ASSUME FileInv, [Next]_vars PROVE FileInv'
    OBVIOUS
  <1> USE DEF FileInv, FileType, FirstOpen, OpenIsGood, Goto
  <1>1. ASSUME NEW t \in Thread, Log(t)
        PROVE  FileInv'
    BY <1>1 DEF Log
  <1>2. ASSUME NEW t \in Thread, Reopen(t)
        PROVE  FileInv'
    BY <1>2 DEF Reopen, StillOpen
  <1>3. ASSUME NEW t \in Thread, Stamp(t)
        PROVE  FileInv'
    BY <1>3 DEF Stamp
  <1>4. ASSUME NEW t \in Thread, Write(t)
        PROVE  FileInv'
    BY <1>4 DEF Write
  <1>8. ASSUME NEW t \in Thread, Crash(t)
        PROVE  FileInv'
    BY <1>8 DEF Crash
  <1>5. CASE Tick
    BY <1>5 DEF Tick
  <1>6. CASE DiskChanges
    BY <1>6 DEF DiskChanges
  <1>7. CASE UNCHANGED vars
    BY <1>7 DEF vars
  <1> QED
    BY <1>1, <1>2, <1>3, <1>4, <1>5, <1>6, <1>7, <1>8 DEF Next, LogStep

-----------------------------------------------------------------------------
(* The pattern: FormattedAppender.                                         *)

Steps == {"none", "test", "testOwn", "assign", "flag", "push", "leave"}

PatternType ==
  /\ formatter \in Pattern \cup {NoPattern}
  /\ owned \in Pattern \cup {NoPattern}
  /\ has \in BOOLEAN /\ alone \in BOOLEAN
  /\ taken \in BOOLEAN /\ nulled \in BOOLEAN
  /\ attached \subseteq Loggers
  /\ logFormatter \in [Loggers -> Pattern \cup {NoPattern}]
  /\ step \in [Thread -> Steps]
  /\ work \in [Thread -> Loggers]

(* Without null patterns: a pattern, once there, stays; whoever is about   *)
(* to add the appender has seen or given one.                              *)
HasPattern ==
  ~nulled =>
    /\ \A l \in Loggers : logFormatter[l] # NoPattern
    /\ attached # {} => formatter # NoPattern
    /\ \A t \in Thread : step[t] \in {"flag", "push"} => formatter # NoPattern

(* The pattern is what the last call left: the owner's, or a logger's, or  *)
(* none for an appender nobody has added or whose owner took it away.      *)
Owned   == owned # NoPattern /\ has /\ formatter = owned
Bare    == owned = NoPattern /\ ~has /\ formatter = NoPattern
Lent(l) == owned = NoPattern /\ ~has /\ ~taken /\ formatter = logFormatter[l]

LentByOne == \E l \in attached : Lent(l)
Settled   == Owned \/ (Bare /\ (attached = {} \/ taken)) \/ LentByOne

(* What a call that nothing overlaps has found out and changed so far.     *)
Progress(t) ==
  /\ step[t] \in {"none", "leave"} => Settled
  /\ step[t] = "test" => Owned \/ (Bare /\ ~taken) \/ LentByOne
  /\ step[t] = "testOwn" => /\ Owned \/ (owned = NoPattern /\ ~has /\ ~taken)
                            /\ work[t] \in attached
  /\ step[t] = "assign" => owned = NoPattern /\ ~has /\ ~taken
  /\ step[t] = "flag" => owned = NoPattern /\ ~taken /\ formatter = logFormatter[work[t]]
  /\ step[t] = "push" => Owned \/ LentByOne \/ Lent(work[t])

Alone ==
  alone =>
    /\ Nobody => Settled
    /\ \A t \in Thread : step[t] # "none" =>
         Progress(t) /\ \A u \in Thread \ {t} : step[u] = "none"

PatternInv == PatternType /\ HasPattern /\ Alone

(* Only an appender that is in a logger's list is written to, and a write  *)
(* finds a pattern unless somebody set one to null.                        *)
Writing ==
  /\ pc \in [Thread -> {"idle", "reopen", "stamp", "write", "ended"}]
  /\ \A t \in Thread : pc[t] \in {"reopen", "stamp", "write"} => attached # {}
  /\ ~nulled => \A t \in Thread : pc[t] # "ended"

(* No appender is attached before one has a pattern.                       *)
LEMMA PatternStarts == AllInit => PatternInv
  <1> SUFFICES ASSUME AllInit PROVE PatternInv
    OBVIOUS
  <1> USE PatternOK DEF AllInit, PatternInv
  <1>1. (CHOOSE l \in Loggers : TRUE) \in Loggers
    OBVIOUS
  <1>2. PatternType
    BY <1>1 DEF PatternType, Steps
  <1>3. HasPattern /\ Alone
    BY DEF HasPattern, Alone, Settled, Bare
  <1> QED
    BY <1>2, <1>3

(* A step of the system changes the pattern in one of these ways, or not.  *)
PatternStep(t) ==
  \/ \E f \in Pattern \cup {NoPattern} : SetOwn(t, f)
  \/ \E l \in Loggers : AddBegin(t, l)
  \/ \E l \in Loggers, f \in Pattern \cup {NoPattern} : SetBegin(t, l, f)
  \/ AddTest(t)
  \/ SetTest(t)
  \/ AssignDefault(t)
  \/ Flag(t)
  \/ Push(t)
  \/ Leave(t)

(* A step of the composed system is one of the patterns or one of the      *)
(* file.                                                                   *)
LEMMA AllStepKinds ==
  ASSUME AllNext
  PROVE  \/ \E t \in Thread : PatternStep(t) /\ UNCHANGED vars
         \/ Next /\ UNCHANGED pattern
  <1>1. ASSUME NEW t \in Thread, CallStep(t)
        PROVE  \/ PatternStep(t) /\ UNCHANGED vars
               \/ Next /\ UNCHANGED pattern
    <2>1. CASE LogOn(t) \/ LogEnd(t)
      BY <2>1 DEF LogOn, LogEnd, Next, LogStep
    <2>2. CASE ~(LogOn(t) \/ LogEnd(t))
      BY <1>1, <2>2 DEF CallStep, PatternStep, AddTest, SetTest, AssignDefault,
                        Flag, Push, Leave
    <2> QED
      BY <2>1, <2>2
  <1>2. ASSUME NEW t \in Thread, NEW f \in Pattern \cup {NoPattern}, SetOwn(t, f)
        PROVE  PatternStep(t) /\ UNCHANGED vars
    BY <1>2 DEF SetOwn, PatternStep
  <1>3. ASSUME NEW t \in Thread, NEW l \in Loggers, AddBegin(t, l)
        PROVE  PatternStep(t) /\ UNCHANGED vars
    BY <1>3 DEF AddBegin, PatternStep
  <1>4. ASSUME NEW t \in Thread, NEW l \in Loggers, LogBegin(t, l)
        PROVE  Next /\ UNCHANGED pattern
    BY <1>4 DEF LogBegin, Next, LogStep
  <1>5. ASSUME NEW t \in Thread, NEW l \in Loggers, NEW f \in Pattern \cup {NoPattern}, SetBegin(t, l, f)
        PROVE  PatternStep(t) /\ UNCHANGED vars
    BY <1>5 DEF SetBegin, PatternStep
  <1>6. CASE (Tick \/ DiskChanges) /\ UNCHANGED <<pattern, holder>>
    BY <1>6 DEF Next
  <1> QED
    BY <1>1, <1>2, <1>3, <1>4, <1>5, <1>6 DEF AllNext

(* The steps of the patterns preserve their types, ...                     *)
LEMMA StepPatternType ==
  ASSUME PatternInv, NEW t \in Thread, PatternStep(t)
  PROVE  PatternType'
  <1> USE PatternOK DEF PatternInv, PatternType, Steps, Step, history
  <1>1. CASE \E f \in Pattern \cup {NoPattern} : SetOwn(t, f)
    BY <1>1 DEF SetOwn, Assign, Nobody
  <1>2. CASE \E l \in Loggers : AddBegin(t, l)
    BY <1>2 DEF AddBegin, Nobody
  <1>3. CASE \E l \in Loggers, f \in Pattern \cup {NoPattern} : SetBegin(t, l, f)
    <2>1. PICK l \in Loggers, f \in Pattern \cup {NoPattern} : SetBegin(t, l, f)
      BY <1>3
    <2>2. /\ logFormatter' = [logFormatter EXCEPT ![l] = f]
          /\ step' \in {[step EXCEPT ![t] = "testOwn"], [step EXCEPT ![t] = "leave"]}
          /\ work' = [work EXCEPT ![t] = l]
          /\ UNCHANGED <<formatter, has, attached, owned>>
      BY <2>1 DEF SetBegin
    <2>3. taken' \in BOOLEAN /\ nulled' \in BOOLEAN /\ alone' \in BOOLEAN
      BY <2>1 DEF SetBegin, Nobody
    <2> QED
      BY <2>2, <2>3
  <1>4. CASE AddTest(t) \/ SetTest(t)
    BY <1>4 DEF AddTest, SetTest
  <1>5. CASE AssignDefault(t)
    BY <1>5 DEF AssignDefault, Assign
  <1>6. CASE Flag(t)
    BY <1>6 DEF Flag, ClearFlag
  <1>7. CASE Push(t) \/ Leave(t)
    BY <1>7 DEF Push, Leave
  <1> QED
    BY <1>1, <1>2, <1>3, <1>4, <1>5, <1>6, <1>7 DEF PatternStep

(* ... and no attached appender loses its pattern, unless to a null one.   *)
LEMMA StepHasPattern ==
  ASSUME PatternInv, NEW t \in Thread, PatternStep(t)
  PROVE  HasPattern'
  <1> USE PatternOK DEF PatternInv, PatternType, Step, HasPattern, history
  <1>1. CASE \E f \in Pattern \cup {NoPattern} : SetOwn(t, f)
    BY <1>1 DEF SetOwn, Assign
  <1>2. CASE \E l \in Loggers : AddBegin(t, l)
    BY <1>2 DEF AddBegin
  <1>3. CASE \E l \in Loggers, f \in Pattern \cup {NoPattern} : SetBegin(t, l, f)
    <2>1. PICK l \in Loggers, f \in Pattern \cup {NoPattern} : SetBegin(t, l, f)
      BY <1>3
    <2>2. /\ logFormatter' = [logFormatter EXCEPT ![l] = f]
          /\ step' \in {[step EXCEPT ![t] = "testOwn"], [step EXCEPT ![t] = "leave"]}
          /\ nulled' = (nulled \/ f = NoPattern)
          /\ UNCHANGED <<formatter, attached>>
      BY <2>1 DEF SetBegin
    <2>3. \A u \in Thread : step'[u] \in {"flag", "push"} => step[u] \in {"flag", "push"}
      BY <2>2
    <2> QED
      BY <2>2, <2>3
  <1>4. CASE AddTest(t) \/ SetTest(t)
    BY <1>4 DEF AddTest, SetTest, HasOne
  <1>5. CASE AssignDefault(t)
    BY <1>5 DEF AssignDefault, Assign
  <1>6. CASE Flag(t)
    BY <1>6 DEF Flag
  <1>7. CASE Push(t) \/ Leave(t)
    BY <1>7 DEF Push, Leave
  <1> QED
    BY <1>1, <1>2, <1>3, <1>4, <1>5, <1>6, <1>7 DEF PatternStep

(* A call that begins alone, and each of its steps, leaves the pattern as  *)
(* Progress says.                                                          *)
LEMMA StepAlone ==
  ASSUME PatternInv, NEW t \in Thread, PatternStep(t)
  PROVE  Alone'
  <1> SUFFICES ASSUME alone' PROVE Alone'
    BY DEF Alone
  <1> USE PatternOK DEF PatternInv, PatternType, Step, Nobody, history
  <1>1. CASE \E f \in Pattern \cup {NoPattern} : SetOwn(t, f)
    BY <1>1 DEF SetOwn, Assign, Alone, Settled, Owned, Bare
  <1>2. CASE \E l \in Loggers : AddBegin(t, l)
    <2>1. PICK l \in Loggers : AddBegin(t, l)
      BY <1>2
    <2>2. Settled /\ \A u \in Thread \ {t} : step'[u] = "none"
      BY <2>1 DEF AddBegin, Alone
    <2>3. (Owned \/ (Bare /\ ~taken) \/ LentByOne)'
      BY <2>1, <2>2 DEF AddBegin, Settled, Owned, Bare, LentByOne, Lent
    <2>4. step'[t] = "test"
      BY <2>1 DEF AddBegin
    <2>5. Progress(t)'
      BY <2>3, <2>4 DEF Progress
    <2> QED
      BY <2>2, <2>4, <2>5 DEF Alone
  <1>3. CASE \E l \in Loggers, f \in Pattern \cup {NoPattern} : SetBegin(t, l, f)
    <2>1. PICK l \in Loggers, f \in Pattern \cup {NoPattern} : SetBegin(t, l, f)
      BY <1>3
    <2>2. Settled /\ \A u \in Thread \ {t} : step'[u] = "none"
      BY <2>1 DEF SetBegin, Alone
    <2>3. step'[t] = IF l \in attached THEN "testOwn" ELSE "leave"
      BY <2>1 DEF SetBegin
    <2>4. CASE l \in attached
      <3>1. Owned \/ (~has /\ owned = NoPattern)
        BY <2>2 DEF Settled, Bare, LentByOne, Lent
      <3>2. work'[t] = l /\ ~taken'
        BY <2>1, <2>4 DEF SetBegin
      <3>3. Progress(t)'
        BY <2>1, <2>3, <2>4, <3>1, <3>2 DEF SetBegin, Progress, Owned
      <3> QED
        BY <2>2, <2>3, <2>4, <3>3 DEF Alone
    <2>5. CASE l \notin attached
      <3>1. \A k \in attached : logFormatter'[k] = logFormatter[k]
        BY <2>1, <2>5 DEF SetBegin
      <3>2. Settled'
        BY <2>1, <2>2, <2>5, <3>1 DEF SetBegin, Settled, Owned, Bare, LentByOne, Lent
      <3>3. Progress(t)'
        BY <2>3, <2>5, <3>2 DEF Progress
      <3> QED
        BY <2>2, <2>3, <2>5, <3>3 DEF Alone
    <2> QED
      BY <2>4, <2>5
  <1>4. ASSUME AddTest(t) \/ SetTest(t) \/ AssignDefault(t) \/ Flag(t)
                 \/ Push(t) \/ Leave(t)
        PROVE  Alone'
    <2>1. /\ alone /\ step[t] # "none" /\ Progress(t)
          /\ \A u \in Thread \ {t} : step[u] = "none" /\ step'[u] = "none"
      BY <1>4 DEF AddTest, SetTest, AssignDefault, Flag, Push, Leave, Alone
    <2>2. SUFFICES Progress(t)'
      BY <1>4, <2>1 DEF AddTest, SetTest, AssignDefault, Flag, Push, Leave, Alone, Progress
    <2> USE DEF Progress, Settled, Owned, Bare, LentByOne, Lent
    <2>3. CASE AddTest(t)
      BY <2>1, <2>3 DEF AddTest, HasOne
    <2>4. CASE SetTest(t)
      BY <2>1, <2>4 DEF SetTest
    <2>5. CASE AssignDefault(t)
      BY <2>1, <2>5 DEF AssignDefault, Assign
    <2>6. CASE Flag(t)
      BY <2>1, <2>6 DEF Flag, ClearFlag
    <2>7. CASE Push(t)
      BY <2>1, <2>7 DEF Push
    <2>8. CASE Leave(t)
      BY <2>1, <2>8 DEF Leave
    <2> QED
      BY <1>4, <2>3, <2>4, <2>5, <2>6, <2>7, <2>8
  <1> QED
    BY <1>1, <1>2, <1>3, <1>4 DEF PatternStep

(* Every step of the composed system preserves the invariant.              *)
LEMMA AllSteps == PatternInv /\ [AllNext]_allvars => PatternInv'
  <1> SUFFICES ASSUME PatternInv, [AllNext]_allvars PROVE PatternInv'
    OBVIOUS
  <1>1. CASE \E t \in Thread : PatternStep(t)
    BY <1>1, StepPatternType, StepHasPattern, StepAlone DEF PatternInv
  <1>2. CASE UNCHANGED pattern
    BY <1>2 DEF pattern, history, PatternInv, PatternType, HasPattern, Alone, Nobody,
                Progress, Settled, Owned, Bare, LentByOne, Lent
  <1> QED
    BY <1>1, <1>2, AllStepKinds DEF allvars

(* A write is under way only in an appender somebody has added, and ends   *)
(* the program only when a pattern was set to null.                        *)
LEMMA StepWriting == PatternInv /\ Writing /\ [AllNext]_allvars => Writing'
  <1> SUFFICES ASSUME PatternInv, Writing, [AllNext]_allvars PROVE Writing'
    OBVIOUS
  <1> USE DEF Writing, PatternInv, PatternType
  <1>1. CASE \E t \in Thread : PatternStep(t) /\ UNCHANGED vars
    <2>1. PICK t \in Thread : PatternStep(t) /\ UNCHANGED vars
      BY <1>1
    <2>2. pc' = pc
      BY <2>1 DEF vars
    <2>3. (attached # {} => attached' # {}) /\ (~nulled' => ~nulled)
      BY <2>1 DEF PatternStep, SetOwn, AddBegin, SetBegin, AddTest, SetTest,
                  AssignDefault, Flag, Push, Leave, history
    <2> QED
      BY <2>2, <2>3
  <1>2. ASSUME NEW t \in Thread, LogEnd(t)
        PROVE  Writing'
    <2>1. attached' = attached /\ nulled' = nulled
      BY <1>2 DEF LogEnd, pattern, history
    <2>2. CASE formatter # NoPattern
      BY <1>2, <2>1, <2>2 DEF LogEnd, Write, Goto
    <2>3. CASE formatter = NoPattern
      <3>1. pc[t] = "write" /\ pc' = [u \in Thread |-> "ended"]
        BY <1>2, <2>3 DEF LogEnd, Crash
      <3>2. nulled
        BY <2>3, <3>1 DEF HasPattern
      <3> QED
        BY <2>1, <3>1, <3>2
    <2> QED
      BY <2>2, <2>3
  <1>3. ASSUME NEW t \in Thread, LogOn(t)
        PROVE  Writing'
    BY <1>3 DEF LogOn, Reopen, Stamp, Goto, pattern, history
  <1>4. ASSUME NEW t \in Thread, NEW l \in Loggers, LogBegin(t, l)
        PROVE  Writing'
    BY <1>4 DEF LogBegin, Log, Goto, pattern, history
  <1>5. CASE (Tick \/ DiskChanges) /\ UNCHANGED <<pattern, holder>>
    BY <1>5 DEF Tick, DiskChanges, pattern, history
  <1>6. CASE UNCHANGED allvars
    BY <1>6 DEF allvars, vars, pattern, history
  <1>7. CASE AllNext
    <2>1. ASSUME NEW t \in Thread, CallStep(t), ~LogOn(t), ~LogEnd(t)
          PROVE  PatternStep(t) /\ UNCHANGED vars
      BY <2>1 DEF CallStep, PatternStep, AddTest, SetTest, AssignDefault, Flag, Push, Leave
    <2>2. ASSUME NEW t \in Thread, NEW f \in Pattern \cup {NoPattern}, SetOwn(t, f)
          PROVE  PatternStep(t) /\ UNCHANGED vars
      BY <2>2 DEF SetOwn, PatternStep
    <2>3. ASSUME NEW t \in Thread, NEW l \in Loggers, AddBegin(t, l)
          PROVE  PatternStep(t) /\ UNCHANGED vars
      BY <2>3 DEF AddBegin, PatternStep
    <2>4. ASSUME NEW t \in Thread, NEW l \in Loggers,
                 NEW f \in Pattern \cup {NoPattern}, SetBegin(t, l, f)
          PROVE  PatternStep(t) /\ UNCHANGED vars
      BY <2>4 DEF SetBegin, PatternStep
    <2> QED
      BY <1>1, <1>2, <1>3, <1>4, <1>5, <1>7, <2>1, <2>2, <2>3, <2>4 DEF AllNext
  <1> QED
    BY <1>6, <1>7

-----------------------------------------------------------------------------
(* The invariants of the stream and of the pattern hold in every reachable *)
(* state of the file appender (log.cc:253-280) and of its composition with *)
(* the loggers that share it (log.h:160-211, log.cc:206-214).              *)
THEOREM FileInductive == Spec => []FileInv
  BY FileStarts, FileSteps, PTL DEF Spec

(* So does that of the patterns, the owner's and the loggers', in every    *)
(* interleaving of the calls that set them (log.cc:206-214, log.h:         *)
(* 242-252).                                                               *)
THEOREM PatternInductive == AllSpec => []PatternInv
  BY PatternStarts, AllSteps, PTL DEF AllSpec

(* The shared appender writes as FileAppender says, whoever sets patterns: *)
(* each of its steps is one of FileAppender's or leaves the stream alone.  *)
THEOREM SharedIsFile == AllSpec => Spec
  <1>1. AllInit => Init
    BY DEF AllInit
  <1>2. [AllNext]_allvars => [Next]_vars
    BY AllStepKinds DEF allvars
  <1> QED
    BY <1>1, <1>2, PTL DEF AllSpec, Spec

(* No event goes to a stream that nobody has tried to open (log.cc:        *)
(* 259-264).                                                               *)
THEOREM OpenedFirst == AllSpec => []WritesFollowAnOpen
  <1>1. FileInv => WritesFollowAnOpen
    BY DEF FileInv, FirstOpen, WritesFollowAnOpen
  <1> QED
    BY <1>1, FileInductive, SharedIsFile, PTL

(* Until a write to the open file fails, the stream is good exactly when   *)
(* its file is open (log.cc:264-279).                                      *)
THEOREM StreamKnowsFile == AllSpec => []OpenIsGood
  <1>1. FileInv => OpenIsGood
    BY DEF FileInv
  <1> QED
    BY <1>1, FileInductive, SharedIsFile, PTL

(* As long as nobody sets a pattern to null, an appender of a logger has   *)
(* one and log() finds it, however the calls of its owner and of its       *)
(* loggers interleave (log.cc:206-214, 265).                               *)
THEOREM NeverWithoutPattern == AllSpec => []DefaultPattern
  <1>1. AllInit => Writing
    BY DEF AllInit, Init, Writing
  <1>2. PatternInv /\ Writing => DefaultPattern
    BY DEF PatternInv, HasPattern, Writing, DefaultPattern
  <1> QED
    BY <1>1, <1>2, StepWriting, PatternInductive, PTL DEF AllSpec

(* As long as those calls do not overlap, it is the owner's, or that of    *)
(* one of its loggers; it has none only when it is in no logger, or when   *)
(* its owner took its pattern away and no logger has given it one since    *)
(* (log.h:170-174, 242-252).                                               *)
THEOREM PatternKept == AllSpec => []PatternAsSet
  <1>1. PatternInv => PatternAsSet
    BY DEF PatternInv, PatternType, Alone, Nobody, Settled, Owned, Bare, LentByOne, Lent,
           PatternAsSet
  <1> QED
    BY <1>1, PatternInductive, PTL
=============================================================================
