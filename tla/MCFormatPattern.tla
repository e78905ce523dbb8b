-------------------------- MODULE MCFormatPattern --------------------------
(* Values for the TLC runs of FormatPattern: one known and one unknown     *)
(* letter, a character that is neither letter nor special.                 *)
EXTENDS FormatPattern

MCChars   == {"%", "{", "}", "m", "x", "-"}
MCLetters == {"m", "x"}
MCKnown   == {<<"m">>}
=============================================================================
