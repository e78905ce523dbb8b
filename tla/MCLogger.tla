------------------------------ MODULE MCLogger ------------------------------
(* Values for the TLC run of Logger: a child logger and the root.          *)
EXTENDS Logger, TLC
CONSTANTS t1, t2, root, child, stdout, a

(* Two appenders for the root, none for the child. *)
RootHome  == stdout :> {root} @@ a :> {root}
Sym == Permutations(Thread)
====
