---------------------------- MODULE MCLogSystem ----------------------------
(* Values for the TLC run of LogSystem: the root, two objects that         *)
(* getLogger may make for the name "n", and one the application pushes.    *)
EXTENDS LogSystem, TLC
CONSTANTS t1, r, root, l1, l2, own, stdout, a, b

MCHomes == stdout :> {root} @@ a :> {root, l1, l2, own} @@ b :> {l1, l2, own}
MCNames == <<"n", "root">>
MCKeyOf == root :> "root" @@ l1 :> "n" @@ l2 :> "n" @@ own :> "n"

Def(lev, as) == [level |-> lev, appenders |-> as]
Ap(x, lev)   == [appender |-> x, level |-> lev]
Conf(n, rt)  == [k \in {"n", "root"} |-> IF k = "n" THEN n ELSE rt]

(* A logger with a quiet and a loud appender, one with a single appender   *)
(* and a root with another, and none.                                      *)
MCConfigs ==
  { Conf(NoDef, NoDef),
    Conf(Def(1, <<Ap(a, 2), Ap(b, 1)>>), NoDef),
    Conf(Def(2, <<Ap(b, 0)>>), Def(1, <<Ap(a, 1)>>)) }
=============================================================================
