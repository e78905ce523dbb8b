---------------------------- MODULE MCLogReload ----------------------------
(* Values for the TLC runs of LogReload: two loggers; definitions with and *)
(* without a pattern of their own, with a bad one, and with no appender.   *)
EXTENDS LogReload
CONSTANTS t1, t2

MCValid == {"default", "f", "g"}
MCNames == <<"a", "b">>

(* A text with the members of ks, which maps them to strings.              *)
Fields(ps) == [i \in DOMAIN ps |-> Pair(ps[i][1], Scalar(ps[i][2]))]
Ap(ps) == Map(Fields(ps))
Def(ps, as) == Map(Fields(ps) \o <<Pair("appenders", List(as))>>)

FileA == <<"type", "FileLogAppender">>
StdA  == <<"type", "StdoutLogAppender">>
InX   == <<"file", "x">>

Two(n) == Def(<< <<"name", n>>, <<"level", "debug">>, <<"formatter", "f">> >>,
              <<Ap(<<FileA, InX>>),
                Ap(<<FileA, <<"file", "y">>, <<"level", "INFO">>, <<"formatter", "g">> >>)>>)
(* A bad pattern, and appenders that are passed over. *)
Odd(n) == Def(<< <<"name", n>>, <<"level", "INFO">> >>,
              <<Ap(<<StdA, <<"level", "DEBUG">>, <<"formatter", "bad">> >>),
                Ap(<<FileA>>), Ap(<< <<"type", "Socket">> >>), Null>>)
Other(n) == Def(<< <<"name", n>>, <<"level", "?">>, <<"formatter", "g">> >>,
                <<Ap(<<FileA, InX, <<"level", "debug">> >>)>>)
Bare(n) == Map(Fields(<< <<"name", n>>, <<"level", "debug">>, <<"formatter", "bad">> >>))
Nameless == Map(Fields(<< <<"level", "debug">> >>))
NoMap(n) == Def(<< <<"name", n>> >>, <<Ap(<<FileA, InX>>), Scalar("x")>>)

(* Texts that define, change and remove one or both loggers, define one    *)
(* twice, or cannot be read.                                               *)
MCTexts ==
  { Empty, List(<<Two("a")>>), List(<<Two("b"), Odd("a"), Bare("b")>>),
    List(<<Other("a"), Bare("b")>>), List(<<Other("b")>>),
    List(<<Two("a"), Nameless>>), List(<<NoMap("b")>>) }
=============================================================================
