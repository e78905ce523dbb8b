------------------------------ MODULE LogYaml ------------------------------
(***************************************************************************)
(* The YAML form of the loggers: what the configuration "logs" is read     *)
(* from (log.cc:535-591), how it is written back (log.cc:593-626), and     *)
(* what toYamlString writes of loggers and appenders (log.cc:188-205,      *)
(* 282-296, 305-319, 635-644).  The writers and the reader do not agree:   *)
(* see AppenderTo and DefineTo.                                            *)
(*                                                                         *)
(* Names, files, patterns and levels are scalars.                          *)
(***************************************************************************)
EXTENDS LexicalCast

CONSTANTS
  LoggerName  \* the names of loggers, in the order of strings

(* LogLevel: UNKNOW is 0. *)
Unknow     == 0
LevelNames == <<"DEBUG", "INFO", "WARN", "ERROR", "FATAL">>
LowerNames == <<"debug", "info", "warn", "error", "fatal">>

LevelTo(lev) == Scalar(IF lev \in DOMAIN LevelNames THEN LevelNames[lev] ELSE "UNKNOW")

(* Names are read in both cases; the mutant knows one of them. *)
Lower(i) == {LowerNames[i]}
NamesOf(i) == {LevelNames[i], LowerNames[i]}

LevelFrom(text) ==
  LET named == {i \in DOMAIN LevelNames : text.scalar \in NamesOf(i)}
  IN  IF named = {} THEN Unknow ELSE CHOOSE i \in named : TRUE

(* A member that may be missing. *)
LevelOf(x)      == IF HasKey(x, "level") THEN LevelFrom(Get(x, "level")) ELSE Unknow
StringOf(x, k)  == IF HasKey(x, k) THEN Get(x, k).scalar ELSE ""

If(cond, x) == IF cond THEN <<x>> ELSE <<>>

-----------------------------------------------------------------------------
(* LogAppenderDefine and LogDefine.  A file or a pattern that is not given *)
(* is the empty string.                                                    *)
File   == 1
Stdout == 2

Optional == STRING \cup {""}

Severity == {Unknow} \cup DOMAIN LevelNames

LogAppenderDefine ==
  [type : {File, Stdout}, file : Optional, level : Severity, formatter : Optional]

LogDefine ==
  [name : STRING, level : Severity, formatter : Optional,
   appenders : Seq(LogAppenderDefine)]

OnlyFiles(as) == FlattenSeq([i \in DOMAIN as |-> If(as[i].type = File, as[i])])

-----------------------------------------------------------------------------
(* Reading.                                                                *)

(* LogAppenderDefine; an appender without a known type, or a file appender *)
(* without a file, is left out.                                            *)
Reads(x) ==
  /\ HasKey(x, "type")
  /\ \/ StringOf(x, "type") = "FileLogAppender" /\ HasKey(x, "file")
     \/ StringOf(x, "type") = "StdoutLogAppender"

AppenderFrom(x) ==
  LET isFile == StringOf(x, "type") = "FileLogAppender" IN
  [type      |-> IF isFile THEN File ELSE Stdout,
   file      |-> IF isFile THEN StringOf(x, "file") ELSE "",
   level     |-> LevelOf(x),
   formatter |-> StringOf(x, "formatter")]

Appenders(x) ==
  IF HasKey(x, "appenders") /\ IsList(Get(x, "appenders"))
    THEN LET as == Get(x, "appenders").items
         IN  FlattenSeq([i \in DOMAIN as |->
               If(IsMap(as[i]) /\ Reads(as[i]), AppenderFrom(as[i]))])
    ELSE <<>>

(* What is neither a map nor a scalar has no type, and is left out too;    *)
(* asking a scalar for its type throws.                                    *)
ScalarAppender(x) ==
  /\ HasKey(x, "appenders") /\ IsList(Get(x, "appenders"))
  /\ \E i \in DOMAIN Get(x, "appenders").items : IsScalar(Get(x, "appenders").items[i])

(* LogDefine; without a name it throws, and so does what is not a map. *)
DefineFrom(text) ==
  LET x == Load(text) IN
  IF IsMap(x) /\ HasKey(x, "name") /\ ~ScalarAppender(x)
    THEN [name |-> StringOf(x, "name"), level |-> LevelOf(x),
          formatter |-> StringOf(x, "formatter"), appenders |-> Appenders(x)]
    ELSE Thrown

(* std::set<LogDefine>, which compares names only. *)
Rank(d) == CHOOSE i \in DOMAIN LoggerName : LoggerName[i] = d.name

LogsFrom(text) ==
  LET xs == Elements(text)
      ds == [i \in DOMAIN xs |-> DefineFrom(xs[i])]
  IN  SetFrom(ds, [i \in DOMAIN ds |-> Rank(ds[i])], Len(LoggerName))

-----------------------------------------------------------------------------
(* Writing.                                                                *)

LevelIf(lev) == If(lev # Unknow, Pair("level", LevelTo(lev)))

(* toYamlString of an appender: the pattern only if it is its own.  The    *)
(* mutant writes the logger's too.  The reader does not know the type      *)
(* "StdoutAppender".                                                       *)
AnyPattern(a) == Pair("formatter", Scalar(a.formatter))
PatternAlways(a) == <<AnyPattern(a)>>
OwnPattern(a)    == If(a.own, AnyPattern(a))

TypeTo(a) == Scalar(IF a.type = File THEN "FileLogAppender" ELSE "StdoutAppender")

AppenderTo(a) ==
  Map(<<Pair("type", TypeTo(a))>> \o If(a.type = File, Pair("file", Scalar(a.file)))
      \o LevelIf(a.level) \o OwnPattern(a))

(* toYamlString of a logger: name, level, pattern and appenders. *)
LoggerTo(name, lev, f, as) ==
  Map(<<Pair("name", Scalar(name))>> \o LevelIf(lev)
      \o <<Pair("formatter", Scalar(f))>>
      \o If(as # <<>>, Pair("appenders",
                            List([i \in DOMAIN as |-> Load(AppenderTo(as[i]))]))))

(* LoggerManager::toYamlString, from the texts of its loggers. *)
ManagerTo(texts) == List([i \in DOMAIN texts |-> Load(texts[i])])

(* toString of a LogDefine.  The pattern is written when there is none,    *)
(* and an appender's type and file go to the logger's node: what is left   *)
(* of an appender is its level and its pattern.                            *)
Rest(a) ==
  LET ps == LevelIf(a.level)
              \o If(a.formatter # "", Pair("formatter", Scalar(a.formatter)))
  IN  IF ps = <<>> THEN Null ELSE Map(ps)

DefineTo(d) ==
  LET as    == d.appenders
      files == OnlyFiles(as)
  IN  Map(<<Pair("name", Scalar(d.name))>> \o LevelIf(d.level)
          \o If(d.formatter = "", Pair("formatter", Scalar("")))
          \o If(as # <<>>, Pair("type", TypeTo(Last(as))))
          \o If(files # <<>>, Pair("file", Scalar(Last(files).file)))
          \o If(as # <<>>, Pair("appenders", List([i \in DOMAIN as |-> Rest(as[i])]))))

LogsTo(ds) == SetTo([i \in DOMAIN ds |-> DefineTo(ds[i])])
=============================================================================
