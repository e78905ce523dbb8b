# Verification of the sylar framework in TLA+

This directory specifies the core of the C++ framework under `src/sylar`: the
configuration variables, the logging system that is configured through them,
the threads, and the locks all of these share. TLC checks the modules on small
instances; TLAPS proves the main safety properties for every instance.

Contents: [inventory](#inventory), [modules](#modules), [runs](#runs),
[fairness](#fairness), [proofs](#proofs), [disagreements](#disagreements-between-code-and-claims),
[known behaviour](#other-behaviour-seen-while-modelling), [not modelled](#not-modelled),
[plan](#plan).

## Inventory

| Component | State | Operations | Used by |
|---|---|---|---|
| Locks (`mutex.h`, `mutex.cc`) | lock word, semaphore count | scoped guards: lock in the constructor, unlock in the destructor, on exceptions too | everything |
| `ConfigVar<T>` (`config.h` 253-328) | `m_val`, `m_cbs`, `s_fun_id`, `s_mutex` | `setValue`, `fromString`, `toString`, `getValue`, `addListener`, `delListenner`, `clearListener` | `Config`, `LogIniter`, the application |
| `Config` (`config.h` 330-417) | `s_datas`: variable by name, one lock | `Lookup` (two forms), `LookupBase`, `LoadFromYaml`, `Visit` | the application |
| `LexicalCast` (`config.h` 34-238) | none | conversions between YAML text and containers | `ConfigVar` |
| `Logger` (`log.h` 214-274, `log.cc` 184-251) | level, formatter, list of appenders, root logger, spinlock | `log`, `setLevel`, `addAppender`, `delAppender`, `clearAppender`, `setFormatter`, `toYamlString` | macros, `LogIniter` |
| Appenders (`log.h` 160-211, 279-298, `log.cc` 253-303) | level, formatter, two "has" flags, spinlock; the file appender: stream, time of the last `reopen` | `log`, `reopen`, setters | `Logger` |
| `LogFormatter` (`log.cc` 333-436) | pattern, list of items, error flag | `init` (parse), `format` | `Logger`, appenders |
| `LoggerManager` (`log.h` 300-315, `log.cc` 629-672) | table of loggers, root logger | `getLogger`, `pushLogger`, `eraseLogger`, `toYamlString` | macros, `LogIniter` |
| `LogIniter`, `LogDefine` (`log.cc` 438-626) | the variable `logs` | the listener that reconfigures the loggers; conversions of a definition from and to YAML | `Config` |
| `Thread` (`thread.h`, `thread.cc`) | id, pthread handle, callback, name, semaphore; thread-local `t_thread`, name | constructor, `run`, `join`, destructor, `SetName`, `GetThis` | the application |
| Utilities (`util.cc`) | none | thread id | macros, `Thread` |

How they interact. `Config::LoadFromYaml` finds a variable in the registry and
calls its `fromString`, which converts the text and calls `setValue`. `setValue`
calls the variable's listeners while it holds the variable's read lock. The only
listener of the library is `LogIniter`'s on `logs`: it calls `setLevel`,
`setFormatter`, `clearAppender` and `addAppender` on the loggers it gets from
`LoggerManager`, each call locking that logger for itself. The `SYLAR_LOG_*`
macros call `Logger::log`, which holds the logger's spinlock while it writes to
its appenders or, when it has none, while it calls the root logger. Errors in
`ConfigVar` and `Thread` are themselves logged through the root logger.

What is hard, and what makes each component correct:

* **ConfigVar** is used by several threads, and `setValue` is two critical
  sections: compare and notify under the read lock, assign under the write
  lock. Correct means: a listener is never called after it was removed, is
  called with two different values of which the old one is current, the value
  is not assigned while somebody reads it under the lock, listeners know the
  variable's value, and every `setValue` returns.
* **Logger** is called by all threads while its appenders change, and takes one
  spinlock under another. Correct means: a removed appender is not written to,
  appenders of one logger agree on the order of events, the fallback to the
  root is used only for a logger without appenders, and nobody waits for ever.
* **LogReload** (`LogIniter`'s listener) is a sequence of separate locked calls
  that two threads may run at the same time. Correct means: when nothing is in
  progress the loggers are what the configuration says, and an appender
  without a formatter of its own uses its logger's.
* **LoggerManager** keeps the loggers by name in a table without a lock, although
  all threads and the listener of `logs` get their loggers from it. Correct
  means: a name has one logger, so that who logs to it and who configures it
  mean the same object; an event is written by the appenders the configuration
  gives its logger, and is not lost while the configuration changes.
* **The YAML forms**: what is written, of a variable or of the loggers, can be
  read and gives the same value or the same loggers back.
* **LogFormatter** walks a pattern with an index that is set back after each
  item. Correct means: it ends, its items are the pattern and nothing else, and
  every error is reported. The text behind the last item is lost: see
  [disagreements](#disagreements-between-code-and-claims).
* **FileLogAppender** must survive a file that cannot be opened for a while, and
  when several loggers share it must have a pattern, its owner's or that of one of
  its loggers, as long as nobody sets a pattern to null.
* **Config** must set every variable a file names, whatever is wrong with the
  other nodes and whichever listeners throw, and never change the type behind a name.
* **Thread**'s constructor and `run` hand over through a semaphore. Correct
  means: nothing half-made is visible, the object is not used after it may be
  gone, no pthread is leaked.

`PROJECT.json` lists the hazards behind these sentences line by line.

## Modules

Each module models one component, one action per handler or per step of a
handler between two points where other threads can see the difference (a lock
is taken or given up, a callback is called, shared data is read without a
lock). Operators with a mutated twin (`NextId` and `SameId`, say) state a code
detail; the twin is the bug the properties would catch and is used in no
specification.

* **`RWMutex`**: `sylar::RWMutex` with its guards. `readers` and `writer` say
  who holds it. Nothing is assumed of the order in which waiting threads are
  served. Used by `ConfigVar` and `LogReload`.
* **`ConfigVar`**: one variable. `val`, `cbs`, `funId` are `m_val`, the keys of
  `m_cbs`, `s_fun_id`; `pc`, `arg`, `todo` are a thread's place in `setValue`,
  its argument and the listeners its loop has still to call. `setValue` is
  `SetBegin`, `Notify` per listener, `NotifyDone` or `ListenerThrows`,
  `StoreLock`, `Store`. `told` and `serial` are history: what each listener was
  last told, or found when it registered, and whether two `setValue` calls ever
  overlapped or a listener ever threw.
* **`Logger`**: loggers, appenders and threads in `log`. `Macro` is the level
  test of the macros, `Enter`/`Refuse` the one of `log`, `Acquire` the spinlock,
  `Skip`, `Accept`, `Write` an appender's `log`, `Delegate` the call of the root
  logger with the child's lock held, `Leave` the way back through both guards.
  `out` is the history of what each appender wrote.
* **`LogSystem`**: the composition of the logging system. It extends `Logger` with
  `LoggerManager`'s table (`Found`, `Missed`, `Insert`, `Push`, `Erase`: `getLogger` is
  a search and, if that failed, an insertion), with a thread that reloads `logs`,
  and with threads that use both. The listener is the list of calls `job`:
  it logs a line to the root (`Announce`), gets a logger from the table (`ReloadGet`)
  and changes it (`ReloadCall`). All that happens to a logger is an action of
  `Logger`; a theorem says so (`SysSpec => Spec`). `calm`, `touched`, `due` and
  `clean` are history: whether a table access ever overlapped an insertion (or a
  logger was erased), which names reloads have changed, what the configuration
  makes of each name, and the events logged outside reloads. `pushLogger` searches and
  then inserts too, but `insert` adds nothing under a name that is there, so one step
  (`Push`) has all its outcomes; a name that is there makes it print a line and change nothing.
* **`LexicalCast`**: the conversions of containers, from and to their converted
  elements. `yaml-cpp` is external: a text is the node it parses to. `At`, `Load` and
  `Empty` say what the code relies on: a node nothing was pushed to is written as
  the empty text, which is read as null.
* **`YamlFile`**: the flattening of a file (`ListAllMember`), which makes `Config`'s
  files. A name is the list of its parts between dots, and `Join` does not tell a dot in
  a name of the file from one between two names: a file may have a name twice. The
  module is recursive over the tree and used by a run's values only.
* **`LogYaml`**: the YAML forms of loggers, appenders and definitions: `DefineFrom`
  and `LogsFrom` read `logs`, `DefineTo` and `LogsTo` write it, `AppenderTo`,
  `LoggerTo` and `ManagerTo` are the `toYamlString`s. An appender without a type is left
  out, and a scalar in the list of appenders makes the conversion throw (`ScalarAppender`).
* **`LogReload`**: the variable `logs` together with its listener. Its
  configurations are what `LogYaml` reads from a set of texts. `Plan` is
  the list of logger calls the listener will make for an old and a new
  configuration, `Apply` makes the next one. It is shown to implement
  `ConfigVar` (`ImplementsConfigVar`): many steps of the listener map to one
  call of it.
* **`FormatPattern`**: `LogFormatter::init`, one action per round of its loop.
* **`FileAppender`**: `log` and `reopen` of the file appender with the error
  state of `std::ofstream`, which is external: opening a stream whose file is
  still open fails, and opening a closed one clears the error.
* **`FormattedAppender`**: a file appender among several loggers, extending
  `FileAppender`: who adds it, who sets its pattern or a logger's. A logger's call
  holds that logger's lock, but takes the appender's for each test and each
  assignment alone (`AddTest`, `AssignDefault`, `Flag`, `Push`), so that calls through
  two loggers and calls of the owner interleave. Either pattern may be set to null;
  an event is `FileAppender`'s `log`, under a logger's lock, and without a pattern it ends
  the program (`Crash`). `owned`, `taken`, `nulled` and `alone` are history: what the owner
  set last, whether it took its pattern away and no logger has given one since, whether any
  pattern was ever set to null, and whether two calls ever overlapped.
* **`Config`**: the registry and `LoadFromYaml`, for any types and conversions
  (`FromStr`, `ToStr`); the run gives it those of `LexicalCast`. Finding a variable and setting
  it are two steps, because the registry's lock is released in between. A set stores the
  value (`Set`), or the text cannot be converted (`SetBad`), or a listener throws and nothing
  is stored (`SetThrows`, which `ConfigVar` has as `ListenerThrows`); the loop goes on after
  each. `refused` is history: the nodes at which a listener threw.
* **`Thread`**: owner and threads. The state of the pthread handle makes what
  POSIX leaves undefined visible as `"misused"`.
* **`...Proofs`**: theorems and proofs about the module of that name;
  `LogSystemProofs` is also about `Logger`, `FormattedAppenderProofs` about
  `FileAppender`. **`SequenceLemmas`**: what the other proofs need of sequences.
* **`MC...`**: values of the constants for TLC.

`ConfigVar` is also the abstract specification that `LogReload` is checked
against; a refinement mapping in `LogReload` (`CV == INSTANCE ConfigVar WITH`)
gives the listener's place in its loop from the listener's remaining calls.

## Runs

| Run | Instance | Shows |
|---|---|---|
| `MCConfigVar` | 3 threads, 2 of them setting, 3 values, 2 listener ids | all that `setValue`'s protocol guarantees: callbacks see the current value and a change (`CallbacksSeeAChange`), removal is final (`OnlyRegisteredAreCalled`), the store is exclusive (`NoStoreUnderReaders`), every listener knows the value after calls that did not overlap (`SerialListenersAgree`), every call returns (`SetReturns`); and the inductive invariant |
| `MCConfigVarRace` | the same, listeners do not throw | violation: overlapping calls leave listeners with a value the variable does not have |
| `MCLogSystem` | 1 user and 1 reloading thread; the root, two objects for one name, a pushed logger; 3 configurations, 2 reloads, 2 events | one logger per name (`OneLoggerPerName`); the right appenders write an event, once each (`DeliveredAsConfigured`); no event is lost to a reload (`NeverVanishes`); the fallback is due whenever it is used (`FallbackStillDue`); reloads and log calls end (`ReloadReturns`, `LogReturns`) |
| `MCLoggerOrder` | 2 threads (symmetric), root with up to two appenders, a child without, 2 events | one order of events in all appenders (`SameOrder`); only attached appenders are written to (`OnlyAttachedWrite`); the inductive invariant |
| `MCLogReload` | 2 threads, 2 loggers, 7 texts | default formatters follow their logger (`FollowsLogger`), reloads that do not overlap configure exactly (`ConfiguredAtRest`), the manager's YAML restores the loggers (`SavedRestores`), the variable's keeps names and levels (`DumpKeepsOutline`), and a reload is a `ConfigVar` callback (`ImplementsConfigVar`) |
| `MCThread` | 3 objects | the handshake: `ReadyOnReturn`, `SetUpUsesLiveObject`, `ConstructorReturns`; handles: `HandleReleased`; a joined thread leaves its object alone (`JoinedIsQuiet`) |
| `MCThreadDetach` | the same | violation: a joined thread is detached |
| `MCFormatPattern` | all patterns up to 5 characters over 6 kinds | up to the last item nothing is lost, repeated or reordered (`RoundTrip`), errors reported (`AcceptedIsClean`), termination (`Progress`) |
| `MCFormatPatternText` | up to 3 characters | violation: `%%-` is not shown as `%-` (`TextIsShown`), as the second `%` begins an item and the `-` is in no item |
| `MCConfig` | 2 threads, 3 names, 4 types (numbers, lists of lists, sets, maps of lists), 2 files, 2 variables | a name keeps its type (`TypeStable`); a file reaches every variable it is alone in setting, also when it has a name twice and when listeners throw (`LoadApplies`); every value a variable comes to have is read back from its text (`SavedIsLoaded`) |
| `MCConfigTwice` | the same | violation: a second `Lookup` with a default takes the registry away from the first holder |
| `MCFileAppender` | 2 threads, 2 loggers, a pattern and null, 1 appender | recovery after failures to open (`Recovers`), and why (`OpenIsGood`, `WritesFollowAnOpen`); unless somebody sets a pattern to null, an attached appender has one and no event ends the program (`DefaultPattern`); the pattern is the right one when calls did not overlap, null included (`PatternAsSet`) |

Why the bounds are enough to be interesting. Two setting threads are the least
that can overlap, and the third is a reader, a registering or a removing thread.
Two listener ids let a listener be removed while an earlier one is being called,
and give the loop an order. Three values separate the value before a call from
the values of two calls. A child and the root are the deepest delegation there
is, since only loggers made by `getLogger` have a root and the root has none.
Two events are the least that can be ordered, and two appenders the least that
can disagree. In `MCLogSystem` the reloading thread is also the second thread in
`getLogger` and in `log`; two objects for one name are what a lost insertion
needs, and the pushed logger is one without a root. Its configurations give one
logger an appender that passes an event and one that does not, and the root
another or none; two reloads define, change and remove. `Homes` bounds the lists
of the run, not of the code: no configuration of it gives one appender to two
names. The seven texts of `MCLogReload` define, change and remove each of two
loggers, define one twice, or throw; patterns are valid, absent and wrong, and
there are up to two appenders, and appenders the reader passes over or throws at. Five characters hold a literal, an item and a second item,
an item with a closed and with an open brace, with text on both sides. The two
variables of `MCConfig` are one name defined twice or two names, also while files
are loaded; the two files are maps with a name that is refused, a text that cannot
be converted, empty, nested and repeated elements, and a section that is itself a
variable; in the first one a name is there twice, once under a section and once with its
dot. Two loggers and an owner, each with a pattern or null, are the least with which
`MCFileAppender` can see a pattern come from the wrong place. `MaxId`, `MaxEvents`, `MaxLen`, `MaxSize`,
`MaxVars`, `MaxReloads` and the supply of logger objects bound what would otherwise grow for ever; they appear in guards only and stand
for nothing in the code.

`CHECK_DEADLOCK FALSE` is used for `Thread`, which stops when all objects are
destroyed, and for `FormatPattern`, which stops when `init` has returned.

## Fairness

* `ConfigVar!FairSpec`: a thread inside the loop, the assignment or `toString`
  keeps running (weak fairness), and a thread waiting for the write lock gets it
  if it is free again and again (strong fairness: `pthread_rwlock` does not
  promise first come, first served, but a thread that keeps asking is not refused
  each time). Readers that overlap without a pause may starve a writer on a
  lock that prefers readers, and POSIX allows such a lock, so `SetReturns` has
  the premise `ReadersPause`.
* `LogSystem!SysFairSpec`: weak fairness of each thread inside `log`, of a
  `getLogger` between its search and its insertion, and of the listener. The
  spinlock is `os_unfair_lock`, which promises nothing about order; that a free
  lock is not snatched away for ever follows from the bounds on events and
  reloads together with the fact that a call on a logger holds the lock in one
  step. What `LogReturns` and `ReloadReturns` show is therefore the absence of
  deadlock and of lost unlocks, not freedom from starvation under endless load.
* `Thread!FairSpec`: `run` gets from its start to `notify`, and a wait on a raised
  semaphore ends. Nothing is assumed of the callback, which may run for ever.
* `FormattedAppender!AllFairSpec`: calls that have begun go on, so that whoever holds
  a logger's lock gives it back, and time passes. Nobody has to log: `Recovers` says
  of the events there are that from some time on none is lost.

Nobody is ever obliged to start a call, a load or a registration.

## Proofs

All theorems hold for any number of threads, values, listeners, loggers, appenders,
names, files and objects, for patterns of any length and for any configurations, types and
conversions. They are under the constants' named assumptions (`ConstantsOK`, `LoggerOK`, `SystemOK`,
`OwnAppenders`, `ReloadOK`, `FormatOK`, `ConfigOK`, `PatternOK`), which separate sentinels from values and give
the constants the types the code's declarations give them.
Two of them say what the code does and not only what a type is. `OwnAppenders`: in one
configuration no two definitions, and no definition twice, name the same appender object, and
none names the root's first one, since the listener makes a new object for each appender
definition (`log.cc` 495-517). `ReloadOK`: a definition is a record of the structs' fields with
texts for names, patterns and files (`LogDefine`, `LogAppenderDefine`), and what a conversion
throws is not a definition. A text may be empty (`Optional`, `STRING \cup {""}`: the prover
does not know by itself that a literal is in `STRING`).
TLC evaluates every one of them.

* **ConfigVarProofs.** The inductive invariant `IInv` has four parts: types;
  `LockInv`, which ties `readers` and `writer` to the places of the threads; `CallInv`,
  what a `setValue` call carries between two steps (in its loop: an argument that
  differs from `m_val` and a rest of the loop that is registered); `FreshIds`, no
  id in use is above the counter. The properties alone are not inductive: that the
  value does not change under a loop needs the lock, and the lock needs to know who
  is inside. The one idea is lemma `NoLoopUnderWriter`. Theorems: `Inductive`,
  `CallbacksSafe`, `RemovalSafe`, `StoreExclusive`.
  `SerialInductive` adds `SerialInv`, what listeners know while a loop is running,
  and `SerialAgreement` follows: as long as calls do not overlap and no listener
  throws, every registered listener knows the value at rest, whatever is registered and
  removed meanwhile. `MCConfigVarRace` shows that the premise is needed.
* **LogSystemProofs**, first part, about `Logger`. `LockInv` says which locks a thread holds:
  the one it works in, and the child's while it works for the child in the root. `FrameInv`
  keeps the iterator inside the list, and `FallbackStillDue` is itself part of the
  invariant, since it is what the child's lock protects. Theorems: `LoggerInductive`,
  `FallbackSafe`, and the action property `RemovalIsFinal`: every write goes to an attached
  appender. `EventsInOneOrder` is `SameOrder` under the premise `OneHome`, that no two
  loggers share an appender, as none do that `LogIniter` makes. Its invariant says that calls
  under way have different events (`CallInv`), that one without the lock has written nothing
  (`FreshInv`), and that one with it has written to its logger's appenders only and there
  last (`InsideInv`). A write therefore goes behind all that is there, in every appender.
  The premise is needed: two loggers that share two appenders hold different locks, and
  each may be the first at one appender and the second at the other.
* **LogSystemProofs**, second part. The table has its own invariant: `CalmInv` says that while
  no access overlapped an insertion and nothing was erased, the table has every logger
  that was made, and at most one thread is about to insert, under a name that is
  still free. The second part is what makes the first inductive: the search alone
  says nothing about the moment of the insertion. Theorems: `TableConsistent`,
  `OneLogger`. `SystemIsLogging` is the refinement `SysSpec => Spec`: each step of the
  composed system is a step of `Logger` or leaves the loggers alone, so what is proved
  of `Logger` holds of the system (`SystemFallbackSafe`, `SystemRemovalIsFinal`,
  `SystemEventsInOneOrder`).
* **LogSystemProofs**, third part: `NothingVanishes` is `NeverVanishes`. `ReloadKept` says
  that the listener changes a logger only after it got one by a name the reload names (`Led`, of
  `Plan` and of every rest of it), that what it got has that name (`NamedInv`), and so that the
  root keeps its appender unless a reload names it (`RootKept`). `SaidInv` says of an event that no
  level refuses: a call that has gone past an appender has written it. A call that
  finds no appender delegates, and the root has one. The proof needs what
  `Configs` may contain (`Definition`) and nothing about `calm`: a logger that is lost
  from the table still delegates.
* **LogSystemProofs**, fourth part: `DeliveryAsConfigured` is `DeliveredAsConfigured`. Its
  invariant, `DeliverInv`, has six parts. `MadeInv`: the loggers that exist are those the table
  and the threads refer to, the others are as their constructor leaves them. `DueInv`: what is
  due of a name is its definition, and without one no appender, or the one the root was made with.
  `ConfInv` is about the reloading thread: the listener's remaining calls are read as a program
  on the configuration by name (`View`, changed by `After`), and that program leads from
  what the loggers are to what is due (`Leads`). So it does not matter which logger object
  stands for a name, nor that a `getLogger` in another thread makes one in between: a new
  one is as the constructor leaves it, and that is what `View` says of a name without one.
  `CleanInv` and `CallInv` keep events apart: while an event logged outside reloads is under way, no reload is. `EventInv`
  then counts: a call that has gone past an appender has written its event there once if the
  appender's level lets it pass, and not otherwise, and to no appender it has not come to
  (`PassInv`; `Times` counts an event in a log). Between reloads the loggers are what
  reloads made of their names, and no list has an appender twice (`Settled`), which is where
  `OwnAppenders` is needed.
* **LogReloadProofs.** `Inv` has the types, what a call under way carries (`CallInv`: it has a
  configuration, and there is none before the listener is registered), and `FollowsLogger`,
  which is inductive with them. `ReloadTyped` and `AppendersFollow` follow, whichever reloads
  overlap. `ReloadIsConfigVar` is the refinement: the initial state, then one lemma per
  action. The registration, the beginning of `setValue`, the end of the listener, the way
  out of the loop and the two steps of the assignment are each an action of `ConfigVar` under
  the mapping; the listener's calls are stutters. `RestConfigured` is `ConfiguredAtRest`. Its invariant, `RestInv`, follows a
  reload through its plan: the calls for one name are one block of it (`FlattenBlock`),
  before the block the logger is what the old configuration says, after it what the new one says, and
  inside it `Halfway` says how far it is. A call outside the block leaves the
  logger alone, so the blocks do not disturb one another.
  The last part is about the YAML forms. A logger's and a definition's node are read field by
  field as they were written (`LoggerAgain`, `DefineAgain`): a pair added to a map leaves the
  other keys alone (`OnePairMore`), and the appenders are a list whose elements are
  read in order. The definitions are read into a set ordered by name, and as no two loggers
  have the same name each text is found again under its own (`LogsAre`). `SavedIsRestored` is
  `SavedRestores`; it needs of a state that default formatters follow their logger, for a
  formatter that does not is written with the appender, and that is `FollowsLogger` of
  `Inv`, at any time and whichever reloads overlap. `OutlineKept` is `DumpKeepsOutline`.
  `ContainersAgain` and `MapsAgain` say of the conversions of containers and maps, of any size, that
  what is written of texts is read as the same texts, the empty container included; the premise
  is that no element is itself the empty text, which comes back as `~`. `VectorsRestored` says
  it of values: a vector is read back when each element is, from the node its text parses
  to. That covers elements that are empty containers, and so it can be used again for
  a vector of vectors, as `NestedRestored` does for numbers.
* **FormatPatternProofs.** `NothingLost` is `RoundTrip`: while `init` reads, the texts of the items
  and of `nstr`, put one after the other, are the part of the pattern before the index
  (`AllRead`). A round adds to it exactly what it moves the index over, although the code
  sets the index back after each item. What `nstr` holds at the end is not counted then:
  the items are the pattern up to a place behind which there is no further `%`, because a `%`
  that is read begins an item, or is an escape that the next one follows (`PercentPends`).
  `AcceptedHasNoError` and `LoopGoesForward` (the action property `Progress`) use the same
  invariant.
* **ConfigProofs.** `Carries` says of a load under way which nodes it has passed and that it
  holds the variable the registry had for the node it is at; `MineInv` relates that to the
  premise of `LoadApplies`. A name may be in a file twice: the induction says of each node passed
  that its value is there unless a later one of its name has taken effect. Theorems: `Typed`,
  which is about values and not only about lengths; `NamesKeepTheirType`; `FilesAreApplied`.
* **FormattedAppenderProofs.** `FileInv` relates the stream's error state to the file: nothing
  is written before a first `reopen` (`OpenedFirst`), and an open file that no write failed on
  has a good stream (`StreamKnowsFile`). `SharedIsFile` carries both to the appender that
  loggers share. `PatternInv` has one part for every history in which no pattern was set to null
  (`HasPattern`: who is about to attach the appender has given it a pattern, whence
  `NeverWithoutPattern`, with `Writing`, that no event has ended the program) and one for
  histories in which calls did not overlap (`Alone`, whence `PatternKept`, null included).
* **ThreadProofs.** `Handshake` says how far constructor and `run` can be apart.
  Theorems: `HandshakeInductive`, `ReadySafe`, `SetUpSafe`, `NoThreadLeaked`,
  `JoinedSafe`.
* **SequenceLemmas.** `FlattenSeq` of the community modules is a recursive function.
  What it does to an empty sequence and to one more element (`FlattenEmpty`, `FlattenAppend`),
  where its elements come from (`FlattenElements`), where each part is in the result
  (`FlattenBlock`) and that a function applied to every element commutes with it (`FlattenEach`)
  is proved by induction. The library's induction theorems take an
  operator as their parameter, which the provers cannot instantiate; the induction is
  over a set of numbers, or of sequences, instead (`SetInduction`, `SeqInduction`), from the
  well-foundedness of inclusion among finite sets.

Only model-checked:

* liveness (`SetReturns`, `LogReturns`, `ReloadReturns`, `ConstructorReturns`, `Recovers`): the
  prover does not do fairness;
* `SavedIsLoaded`, with the conversions of `MCConfig`. Each container is proved by itself
  (`ContainersAgain`, `MapsAgain`, `VectorsRestored`); what the conversion of any type
  built from others does is an induction over types, and `boost::lexical_cast`, which
  converts the innermost elements, is external.

## Disagreements between code and claims

* `setValue` (`config.h` 291-304): two overlapping calls may call listeners in one
  order and assign in the other; the listeners, bound to "fire when the
  configuration changes" (`log.cc` 479), end with a value the variable does not have.
* `~Thread` (`thread.cc` 25-29) detaches a thread that was joined, as every thread of
  `test_thread.cc` is: `join` does not clear `m_thread`.
* `LogFormatter::init` (`log.cc` 341): "two % mean %", but the second one is read
  again as the start of an item.
* `LogFormatter::init` (`log.cc` 400-403): the block for "the text at the very end" is
  inside the loop, where the item just found has taken that text already. What is behind
  the last item gets into no item: `"%m-"` never prints its `-`. One run,
  `MCFormatPatternText`, shows both, step by step, on the pattern `%%-`.
* `Config::Lookup` (`config.h` 369-385) reports that a name exists and then replaces
  its variable; the earlier holder is no longer reached by any file.
* `LogFormatter::init` (`log.cc` 400-403): the block for "the text at the very end" is
  inside the loop, where the item just found has taken that text already. What is behind
  the last item gets into no item: `"%m-"` never prints its `-`.

## Other behaviour seen while modelling

These contradict nothing the repository says, or only a vague comment; the models
contain them, and the properties are worded with the premise that excludes them.

* A listener that throws stops the loop and the assignment; listeners called before
  it keep the new value. `serial` becomes false. In a load from a file, the variable
  keeps its old value and the other nodes are loaded; `LoadApplies` leaves that node out.
* The file's names are joined with dots and may contain dots, so a file may set a variable
  twice. The node that comes last counts, if it can be set, and otherwise the one before.
* A listener registered between the loop and the assignment is not told of that
  change. `SerialListenersAgree` excuses it until the next one.
* The reference that `getValue` returns is used without the lock (`CopyDone` can overlap
  `writing`).
* The owner of an appender that gives it a pattern while a logger's `addAppender` or
  `setFormatter` is between its test and its assignment loses it. `PatternAsSet` has
  the premise `alone`; that there is a pattern holds of overlapping calls too.
* `LogAppender::setFormatter` (`log.h` 170-174) accepts null for an appender in a logger's
  list, and `Logger::setFormatter` hands a null formatter on. `log` then dereferences a null
  pointer (`log.cc` 265). `addAppender` "makes sure that each log has a default format"
  (`log.cc` 210), but of what happens later nothing is said. `DefaultPattern` has the premise
  `~nulled`, and without it TLC finds the dereference.
* One scalar in a definition's list of appenders makes the whole of `logs` fail to convert,
  while an entry that has no type is passed over.
* Two threads in `getLogger` for one new name make two loggers, and the one that is
  not in the table is never configured, nor is a logger that was erased while somebody
  holds it. `OneLoggerPerName` and `DeliveredAsConfigured` have the premise `calm`.
* A logger the application makes and pushes has no root: without appenders it drops
  its events. `NeverVanishes` leaves those loggers out.
* A logger deleted from the configuration gets the level UNKNOW, which refuses nothing,
  and no appender: all its events go to the root.
* The writers and the reader of `logs` disagree. `toYamlString` calls a stdout appender
  `StdoutAppender`, the reader knows `StdoutLogAppender` only (`SavedRestores` leaves
  stdout appenders out). `toString` of a definition writes the pattern only when it is
  empty, and an appender's type and file to the logger's node (`DumpKeepsOutline` is
  about names and levels only).
* A text that is a scalar gives an empty container, and an element that YAML reads as
  null comes back as `~` from a list of strings.
* Two overlapping reloads both clear a logger and then both add their appenders, so
  each line comes twice. `ConfiguredAtRest` has the premise `serial`.
* A logger deleted from the configuration keeps its pattern, and uses it again when it
  is defined again without one.
* After a failed write to an open file, `reopen` never closes the stream and it stays in
  error for good. `Recovers` and `OpenIsGood` have the premise `~broken`.
* A `Thread` destroyed while its thread runs leaves `t_thread` dangling, and `SetName`
  writes through it. `JoinedIsQuiet` allows that for a detached thread only.

## Not modelled

* `yaml-cpp` and `boost::lexical_cast` (external), the conversion to `unordered_set`, which
  does not compile when used, and the conversions the tests define for their own types.
* The item classes of the formatter, which only print; `LogEvent` and `LogEventWrap`, which
  carry an event from the macro to `log`.
* What an unlocked rehash of the loggers' table can do beyond a search that misses.
* `s_fun_id` among several variables of one type: `ConfigVar` is about one variable.
* `Config::Visit`, `LookupBase`, `Lookup` without a default: they only read.
* Listeners that call back into their variable: none in the repository does.
* `my_semaphore.h`, which nothing includes, and `config.cc`, which is commented out.
* Data races on single words (the unlocked level, `m_lastTime`) are read as the old or the
  new value.

## Plan

Done: all components listed as modelled in `PROJECT.json`, the composition of the
logging system, and the proofs listed above. They cover every invariant and every action
property of the runs that pass, except `SavedIsLoaded`, which is proved for each container by itself.

What is left is out of the prover's reach: the liveness properties, and the
conversions of types nested to any depth.
