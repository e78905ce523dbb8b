--------------------------- MODULE FormatPattern ---------------------------
(***************************************************************************)
(* LogFormatter::init (log.cc:333-436): how a pattern such as              *)
(* "%d{%H:%M}%T%m%n" becomes the list of format items.  One action per     *)
(* round of the loop over the pattern, one for the table lookup at the     *)
(* end.  The item classes themselves only print, and are not modelled.     *)
(***************************************************************************)
EXTENDS Naturals, SequencesExt

CONSTANTS
  Chars,     \* the characters patterns are made of
  Letters,   \* those isalpha accepts
  Known,     \* the keys of s_format_items
  MaxSize    \* bound: length of a pattern

ASSUME FormatOK ==
  /\ {"%", "{", "}"} \subseteq Chars \ Letters
  /\ Letters \subseteq Chars
  /\ Known \subseteq Seq(Letters)
  /\ MaxSize \in Nat

VARIABLES
  pattern,  \* m_pattern
  i,        \* the loop's index, from 1
  nstr,     \* literal characters not yet in an item
  vec,      \* the items found: literal or format
  error,    \* m_error
  ready     \* the items have been looked up: init has returned

vars == <<pattern, i, nstr, vec, error, ready>>

Init ==
  /\ pattern \in SeqOf(Chars, MaxSize)
  /\ i = 1
  /\ nstr = <<>>
  /\ vec = <<>>
  /\ error = FALSE
  /\ ready = FALSE

(* An item of the vector; fmt is the text in braces, if braces says so. *)
Literal(s) == [kind |-> "literal", str |-> s, fmt |-> <<>>, braces |-> FALSE]
Format(s, f, b) == [kind |-> "format", str |-> s, fmt |-> f, braces |-> b]
ParseError == [Literal(<<>>) EXCEPT !.kind = "parse_error"]

(* The items with the pending literal, if there is one; the mutant does    *)
(* not look whether there is.                                              *)
AlwaysFlushed == Append(vec, Literal(nstr))
Flushed == IF nstr = <<>> THEN vec ELSE Append(vec, Literal(nstr))

(* The first position from k on whose character is outside S. *)
FirstOutside(k, S) ==
  CHOOSE n \in k..(Len(pattern) + 1) :
    /\ n <= Len(pattern) => pattern[n] \notin S
    /\ \A m \in k..(n - 1) : pattern[m] \in S

InLoop == ~ready /\ i <= Len(pattern)

-----------------------------------------------------------------------------
(* A character that stands for itself. *)
Plain ==
  /\ InLoop
  /\ pattern[i] # "%"
  /\ nstr' = Append(nstr, pattern[i])
  /\ i' = i + 1
  /\ UNCHANGED <<pattern, vec, error, ready>>

(* "%%": the code appends one % and goes on with the second. *)
Percent ==
  /\ InLoop
  /\ pattern[i] = "%"
  /\ i < Len(pattern) /\ pattern[i + 1] = "%"
  /\ nstr' = Append(nstr, "%")
  /\ i' = i + 1
  /\ UNCHANGED <<pattern, vec, error, ready>>

(* Where the letters after % end, and where the braces after them do. *)
AfterName  == FirstOutside(i + 1, Letters)
AfterBrace == FirstOutside(AfterName + 1, Chars \ {"}"})
Name       == SubSeq(pattern, i + 1, AfterName - 1)

Directive ==
  /\ InLoop
  /\ pattern[i] = "%"
  /\ ~(i < Len(pattern) /\ pattern[i + 1] = "%")

HasBrace == AfterName <= Len(pattern) /\ pattern[AfterName] = "{"

(* %name: the name ends where the letters do.  The mutant skips the        *)
(* character that ends it.                                                 *)
SwallowNext ==
  /\ Directive
  /\ ~HasBrace
  /\ vec' = Append(Flushed, Format(Name, <<>>, FALSE))
  /\ nstr' = <<>>
  /\ i' = AfterName + 1
  /\ UNCHANGED <<pattern, error, ready>>

(* Another mutant goes back one character too many.                        *)
RereadName ==
  /\ Directive
  /\ ~HasBrace
  /\ vec' = Append(Flushed, Format(Name, <<>>, FALSE))
  /\ nstr' = <<>>
  /\ i' = AfterName - 1
  /\ UNCHANGED <<pattern, error, ready>>

Simple ==
  /\ Directive
  /\ ~HasBrace
  /\ vec' = Append(Flushed, Format(Name, <<>>, FALSE))
  /\ nstr' = <<>>
  /\ i' = AfterName
  /\ UNCHANGED <<pattern, error, ready>>

(* %name{fmt}: the item's format is whatever the braces hold. *)
Braced ==
  /\ Directive
  /\ HasBrace
  /\ AfterBrace <= Len(pattern)
  /\ vec' = Append(Flushed,
              Format(Name, SubSeq(pattern, AfterName + 1, AfterBrace - 1), TRUE))
  /\ nstr' = <<>>
  /\ i' = AfterBrace + 1
  /\ UNCHANGED <<pattern, error, ready>>

(* %name{... without a closing brace: an error item, then the literal so   *)
(* far, which is not cleared; the loop goes on behind the %.  Its mutant   *)
(* does not report the error.                                              *)
UnclosedQuiet ==
  /\ Directive
  /\ HasBrace
  /\ AfterBrace > Len(pattern)
  /\ vec' = IF nstr = <<>> THEN Append(vec, ParseError)
            ELSE vec \o <<ParseError, Literal(nstr)>>
  /\ i' = i + 1
  /\ UNCHANGED <<pattern, nstr, error, ready>>

Unclosed ==
  /\ Directive
  /\ HasBrace
  /\ AfterBrace > Len(pattern)
  /\ error' = TRUE
  /\ vec' = IF nstr = <<>> THEN Append(vec, ParseError)
            ELSE vec \o <<ParseError, Literal(nstr)>>
  /\ i' = i + 1
  /\ UNCHANGED <<pattern, nstr, ready>>

(* After the loop: names that are in no table are errors.  The characters  *)
(* in nstr belong to no item.                                              *)
LookUp ==
  /\ ~ready
  /\ i > Len(pattern)
  /\ error' = (error \/ \E k \in DOMAIN vec :
                          vec[k].kind = "format" /\ vec[k].str \notin Known)
  /\ ready' = TRUE
  /\ UNCHANGED <<pattern, i, nstr, vec>>

Next == Plain \/ Percent \/ Simple \/ Braced \/ Unclosed \/ LookUp

Spec == Init /\ [][Next]_vars

-----------------------------------------------------------------------------
(* The text an item stands for in a pattern. *)
Text(item) ==
  IF item.kind = "literal" THEN item.str
  ELSE <<"%">> \o item.str
         \o (IF item.braces THEN <<"{">> \o item.fmt \o <<"}">> ELSE <<>>)

Parsed == FlattenSeq([k \in DOMAIN vec |-> Text(vec[k])])

HasUnclosed == \E k \in DOMAIN vec : vec[k].kind = "parse_error"

(* Type invariant: a literal is never empty and a name has letters only.   *)
TypeOK ==
  /\ i \in 1..(Len(pattern) + 1)
  /\ \A k \in DOMAIN vec :
       /\ vec[k].kind = "literal" => vec[k].str # <<>>
       /\ vec[k].str \in Seq(IF vec[k].kind = "literal" THEN Chars ELSE Letters)

(* Nothing up to the last item is lost, repeated or reordered (log.cc:     *)
(* 336-404): as long as all braces are closed, the items and the pending   *)
(* literal are the part of the pattern read so far; and when init has      *)
(* returned, the items are the pattern up to where no more % follows.      *)
RoundTrip ==
  ~HasUnclosed =>
    IF ready THEN \E n \in 0..Len(pattern) :
                    /\ Parsed = SubSeq(pattern, 1, n)
                    /\ \A m \in (n + 1)..Len(pattern) : pattern[m] # "%"
    ELSE Parsed \o nstr = SubSeq(pattern, 1, i - 1)

(* A formatter that reports no error (isError, log.cc:396, 428) shows      *)
(* every part of the pattern it made an item of as that item: no item is a *)
(* replacement text.                                                       *)
AcceptedIsClean ==
  ready /\ ~error =>
    /\ ~HasUnclosed
    /\ \A k \in DOMAIN vec : vec[k].kind = "format" => vec[k].str \in Known

(* Every round of the loop moves forward (log.cc:336-404): the index, set  *)
(* back to n - 1 after an item, never makes init read for ever.            *)
Progress == [][i' > i \/ ready']_vars

(* A pattern without items is shown as it stands, with one % for two:      *)
(* "%%" means % (comment at log.cc:341), and the text at the very end is   *)
(* an item too (comment at log.cc:400).  Stated of an escape and, behind   *)
(* it, characters that cannot be taken for a name or for braces.           *)
TextIsShown ==
  /\ ready
  /\ Len(pattern) > 2 /\ pattern[1] = "%" /\ pattern[2] = "%"
  /\ \A k \in 3..Len(pattern) : pattern[k] \notin Letters \cup {"%", "{", "}"}
  => vec = <<Literal(Tail(pattern))>>
=============================================================================
