--------------------------- MODULE MCFileAppender ---------------------------
(* Model values for the TLC run of FormattedAppender.                      *)
EXTENDS FormattedAppender
CONSTANTS t1, t2, l1, l2, f
=============================================================================
