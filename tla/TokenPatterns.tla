---------------------------- MODULE TokenPatterns ----------------------------
(***************************************************************************)
(* The regexes of the two generated lexers (the one cpp_codegen.cpp       *)
(* emits, and SimpleLexer.cpp), each as the length of its match at        *)
(* position 0 of the remaining input, or -1.  Both lexers test             *)
(* regex_search(remaining, match, pattern) && match.position() == 0, and  *)
(* the leftmost match is at 0 exactly when the regex matches there.  Every *)
(* pattern here is a sequence of greedy parts each of which is either      *)
(* required or optional with nothing after it that needs what it took, so *)
(* the first match ECMAScript backtracking finds is the greedy one: the   *)
(* operators scan without backtracking.                                    *)
(*                                                                         *)
(* A character is a string naming it: "sp", "tab", "nl", "dq" (the double *)
(* quote), "bs" (the backslash), or the character itself ("a", "1", "+"). *)
(***************************************************************************)
EXTENDS Integers, Sequences, FiniteSets

LOCAL SX == INSTANCE SequencesExt

\* \s, and std::isspace, restricted to the characters inputs use
WhiteSpaceChars == {"sp", "tab", "nl"}
\* \d, and [1-9]
DigitChars  == {"0", "1"}
NonZeroChars == {"1"}
\* [a-zA-Z], restricted likewise
LetterChars == {"a", "e", "i", "n", "t", "u", "l", "s", "r", "f",
                "A", "D", "G", "I", "M", "N", "R", "S", "T", "U"}

\* How many characters of s, from index k+1 on, are in cls
RECURSIVE SpanLen(_, _, _)
SpanLen(cls, s, k) ==
  IF k >= Len(s) \/ s[k + 1] \notin cls THEN 0 ELSE 1 + SpanLen(cls, s, k + 1)

\* cls+ : a required run
PlusLen(cls, s) == IF SpanLen(cls, s, 0) = 0 THEN -1 ELSE SpanLen(cls, s, 0)

\* [a-zA-Z_][a-zA-Z0-9_]*
IdentLen(s) ==
  IF s # <<>> /\ s[1] \in LetterChars \cup {"_"}
  THEN 1 + SpanLen(LetterChars \cup DigitChars \cup {"_"}, s, 1)
  ELSE -1

\* The body of "([^"\\]|\\.)*" from index k+1 on, up to and including the
\* closing quote: a backslash takes the next character unless it is a line
\* terminator (which . does not match); any other character but the quote
\* is taken by [^"\\], newlines included.  Backtracking finds no other
\* match: no iteration boundary falls on a quote that closes earlier.
RECURSIVE StringBodyLen(_, _)
StringBodyLen(s, k) ==
  CASE k >= Len(s)                  -> -1
    [] s[k + 1] = "dq"              -> k + 1
    [] s[k + 1] = "bs" /\ k + 1 < Len(s) /\ s[k + 2] # "nl" -> StringBodyLen(s, k + 2)
    [] s[k + 1] = "bs"              -> -1
    [] OTHER                        -> StringBodyLen(s, k + 1)

\* "([^"\\]|\\.)*"
StringLen(s) == IF s # <<>> /\ s[1] = "dq" THEN StringBodyLen(s, 1) ELSE -1

\* A regex that is a sequence of literal characters
LiteralLen(text, s) == IF SX!IsPrefix(text, s) THEN Len(text) ELSE -1

\* Line and column of the character at 0-based position p of s, counted
\* directly: 1 + the newlines before it, and its distance from the last one
PositionIn(s, p) ==
  LET nls == {i \in 1..p : s[i] = "nl"}
  IN  <<1 + Cardinality(nls),
        IF nls = {} THEN p + 1 ELSE p + 1 - (CHOOSE i \in nls : \A j \in nls : j <= i)>>

\* The 0-based position of s whose line and column are lc, or -1
OffsetAt(s, lc) ==
  IF \E p \in 0..Len(s) : PositionIn(s, p) = lc
  THEN CHOOSE p \in 0..Len(s) : PositionIn(s, p) = lc
  ELSE -1

\* Every token is the input text at the line and column it carries, and
\* every reported error names the character at its line and column
ReportsWhereRead(s, tokens, errors) ==
  /\ \A i \in DOMAIN tokens :
       LET off == OffsetAt(s, <<tokens[i].line, tokens[i].column>>)
       IN  off >= 0 /\ SubSeq(s, off + 1, off + Len(tokens[i].text)) = tokens[i].text
  /\ \A i \in DOMAIN errors :
       LET off == OffsetAt(s, <<errors[i].line, errors[i].column>>)
       IN  off \in 0..(Len(s) - 1) /\ s[off + 1] = errors[i].char

=============================================================================
