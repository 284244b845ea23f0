------------------------------- MODULE Lexer -------------------------------
(***************************************************************************)
(* The regex Lexer of lexer.cpp: an ordered list of rules, next_token      *)
(* taking the first rule whose regex matches at the current position,      *)
(* skip rules handled by a recursive call, an error token of one char when *)
(* no rule matches, and peek_token saving and restoring the position.      *)
(*                                                                         *)
(* A character is a string naming it ("sp", "nl", "a", "1", ...).  A regex *)
(* is a sequence of elements [cls, q]: a character class and a greedy      *)
(* quantifier "one", "opt", "plus" or "star", optionally anchored at the   *)
(* end ($).  The first match of such a regex at position 0 is computed     *)
(* without backtracking, which is exact when no element needs characters  *)
(* an earlier greedy element took: true of every pattern of                 *)
(* create_calculator_lexer and of add_keyword's literal patterns.           *)
(* error_message_ is kept as the character, line and column it names.     *)
(* One recursive call of next_token is one step (ScanStep).                *)
(***************************************************************************)
EXTENDS Integers, Sequences, FiniteSets

LOCAL SX == INSTANCE SequencesExt

CONSTANTS
  Lexers,   \* the lexers a client builds: their rules_, each a sequence of
            \* [type, pattern, skip] in add_rule order
  Inputs,   \* the strings given to set_input: sequences of characters
  MaxDepth  \* the deepest skip recursion the model follows

VARIABLES
  rules,    \* rules_
  input,    \* input_
  pos,      \* current_pos_ (0-based)
  line,     \* current_line_
  column,   \* current_column_
  errorMsg, \* error_message_: <<>> or [char, line, column]
  mode,     \* "idle", or the call in progress: "next" or "peek"
  depth,    \* how many activations of next_token the call has on the stack
  saved,    \* the state when the call began: what peek_token saves in its
            \* locals (for next_token, a history variable)
  last,     \* history: the token the last call returned since set_input
  peeked    \* history: the token of a peek_token not yet followed by next_token

lexVars == <<rules, input, pos, line, column, errorMsg, mode, depth, saved, last, peeked>>

NoSaved == [pos |-> 0, line |-> 1, column |-> 1, errorMsg |-> <<>>]
NoToken == [type |-> "NONE", text |-> <<>>, line |-> 0, column |-> 0, position |-> 0]

-----------------------------------------------------------------------------
(* Rules and patterns                                                      *)

El(cls, q) == [cls |-> cls, q |-> q]
Regex(elems) == [elems |-> elems, anchoredEnd |-> FALSE]

\* add_rule(type, pattern, skip): append to rules_
AddRule(rs, type, pattern, skip) ==
  Append(rs, [type |-> type, pattern |-> pattern, skip |-> skip])

\* add_keyword(keyword, type): every character taken literally (escaped),
\* the pattern anchored as "^" + keyword + "$"
AddKeyword(rs, keyword, type) ==
  AddRule(rs, type,
          [elems |-> [i \in DOMAIN keyword |-> El({keyword[i]}, "one")], anchoredEnd |-> TRUE],
          FALSE)

\* The character classes, restricted to the characters that inputs use
Blank  == {"sp", "tab"}
Digit  == {"1"}
Letter == {"a", "b"}

CreateCalculatorLexer ==
  LET r1 == AddRule(<<>>, "WHITESPACE", Regex(<<El(Blank, "plus")>>), TRUE)
      r2 == AddRule(r1, "NEWLINE", Regex(<<El({"nl"}, "one")>>), TRUE)
      r3 == AddRule(r2, "NUMBER", Regex(<<El(Digit, "plus"), El({"."}, "opt"), El(Digit, "star")>>), FALSE)
      r4 == AddRule(r3, "IDENTIFIER", Regex(<<El(Letter, "one"), El(Letter \cup Digit, "star")>>), FALSE)
      Op(type, c) == [type |-> type, pattern |-> Regex(<<El({c}, "one")>>), skip |-> FALSE]
  IN  r4 \o <<Op("PLUS", "+"), Op("MINUS", "-"), Op("MULTIPLY", "*"), Op("DIVIDE", "/"),
              Op("POWER", "^"), Op("EQUAL", "="), Op("LESS_THAN", "<"),
              Op("GREATER_THAN", ">"), Op("LPAREN", "("), Op("RPAREN", ")"),
              Op("COMMA", ","), Op("SEMICOLON", ";")>>

\* How many characters of rem, from index k+1 on, are in cls (at most cap)
RECURSIVE RunLen(_, _, _, _)
RunLen(cls, rem, k, cap) ==
  IF cap = 0 \/ k >= Len(rem) \/ rem[k + 1] \notin cls THEN 0
  ELSE 1 + RunLen(cls, rem, k + 1, cap - 1)

\* A "plus" element matching like "star": a pattern that can match empty
RECURSIVE MatchElemsPlusAsStar(_, _, _, _)
MatchElemsPlusAsStar(es, i, rem, k) ==
  IF i > Len(es) THEN k
  ELSE LET e == es[i]
           n == RunLen(e.cls, rem, k, IF e.q \in {"one", "opt"} THEN 1 ELSE Len(rem))
       IN  IF e.q = "one" /\ n = 0 THEN -1
           ELSE MatchElemsPlusAsStar(es, i + 1, rem, k + n)

\* The characters elements i.. consume after the first k, or -1
RECURSIVE MatchElems(_, _, _, _)
MatchElems(es, i, rem, k) ==
  IF i > Len(es) THEN k
  ELSE LET e == es[i]
           n == RunLen(e.cls, rem, k, IF e.q \in {"one", "opt"} THEN 1 ELSE Len(rem))
       IN  IF e.q \in {"one", "plus"} /\ n = 0 THEN -1
           ELSE MatchElems(es, i + 1, rem, k + n)

\* regex_search(remaining, match, rule.regex) && match.position() == 0:
\* the length of the match at position 0, or -1.  The leftmost match is at
\* 0 exactly when the regex matches there.
MatchLen(pattern, rem) ==
  LET n == MatchElems(pattern.elems, 1, rem, 0)
  IN  IF n >= 0 /\ (pattern.anchoredEnd => n = Len(rem)) THEN n ELSE -1

\* The first rule, in add order, matching at position 0 (0 if none)
FirstRule(rem) ==
  LET hits == {r \in DOMAIN rules : MatchLen(rules[r].pattern, rem) >= 0}
  IN  IF hits = {} THEN 0 ELSE CHOOSE r \in hits : \A q \in hits : r <= q

\* update_position(c) without the column reset on a newline
UpdatePositionNoReset(lc, c) == IF c = "nl" THEN <<lc[1] + 1, lc[2] + 1>> ELSE <<lc[1], lc[2] + 1>>

\* update_position(c) on <<line, column>>
UpdatePosition(lc, c) == IF c = "nl" THEN <<lc[1] + 1, 1>> ELSE <<lc[1], lc[2] + 1>>

\* <<line, column>> after the characters of text, one update_position each
RECURSIVE AdvanceOver(_, _)
AdvanceOver(lc, text) ==
  IF text = <<>> THEN lc ELSE AdvanceOver(UpdatePosition(lc, Head(text)), Tail(text))

-----------------------------------------------------------------------------

\* A lexer built by add_rule and add_keyword calls, before any input
LexerInit ==
  /\ rules \in Lexers
  /\ input = <<>> /\ pos = 0 /\ line = 1 /\ column = 1 /\ errorMsg = <<>>
  /\ mode = "idle" /\ depth = 0 /\ saved = NoSaved
  /\ last = NoToken /\ peeked = NoToken

\* set_input(s) without its reset() call
SetInputNoReset ==
  /\ mode = "idle"
  /\ \E s \in Inputs : input' = s
  /\ last' = NoToken /\ peeked' = NoToken
  /\ UNCHANGED <<rules, pos, line, column, errorMsg, mode, depth, saved>>

\* set_input(s): input_ = s, then reset()
SetInput ==
  /\ mode = "idle"
  /\ \E s \in Inputs : input' = s
  /\ pos' = 0 /\ line' = 1 /\ column' = 1 /\ errorMsg' = <<>>
  /\ last' = NoToken /\ peeked' = NoToken
  /\ UNCHANGED <<rules, mode, depth, saved>>

\* reset(): back to the start of the same input
Reset ==
  /\ mode = "idle"
  /\ pos' = 0 /\ line' = 1 /\ column' = 1 /\ errorMsg' = <<>>
  /\ last' = NoToken /\ peeked' = NoToken
  /\ UNCHANGED <<rules, input, mode, depth, saved>>

\* next_token() (and match_token(), which calls it) is called
CallNext ==
  /\ mode = "idle" /\ mode' = "next" /\ depth' = 1
  /\ saved' = [pos |-> pos, line |-> line, column |-> column, errorMsg |-> errorMsg]
  /\ UNCHANGED <<rules, input, pos, line, column, errorMsg, last, peeked>>

\* peek_token() saves the position, line, column and error, then calls
\* next_token()
CallPeek ==
  /\ mode = "idle" /\ mode' = "peek" /\ depth' = 1
  /\ saved' = [pos |-> pos, line |-> line, column |-> column, errorMsg |-> errorMsg]
  /\ UNCHANGED <<rules, input, pos, line, column, errorMsg, last, peeked>>

\* The call returns tok with the lexer at (p, lc, err).  next_token keeps
\* that state; peek_token restores what it saved.
ReturnPeekNoColumnRestore(tok, p, lc, err) ==
  /\ mode' = "idle" /\ depth' = 0 /\ last' = tok
  /\ IF mode = "next"
     THEN pos' = p /\ line' = lc[1] /\ column' = lc[2] /\ errorMsg' = err /\ peeked' = NoToken
     ELSE /\ pos' = saved.pos /\ line' = saved.line /\ column' = lc[2]
          /\ errorMsg' = saved.errorMsg /\ peeked' = tok
  /\ saved' = NoSaved
  /\ UNCHANGED <<rules, input>>

Return(tok, p, lc, err) ==
  /\ mode' = "idle" /\ depth' = 0 /\ last' = tok
  /\ IF mode = "next"
     THEN pos' = p /\ line' = lc[1] /\ column' = lc[2] /\ errorMsg' = err /\ peeked' = NoToken
     ELSE /\ pos' = saved.pos /\ line' = saved.line /\ column' = saved.column
          /\ errorMsg' = saved.errorMsg /\ peeked' = tok
  /\ saved' = NoSaved
  /\ UNCHANGED <<rules, input>>

\* at_end() and current_char() (read only when not at the end)
AtEnd == pos >= Len(input)
CurrentChar == input[pos + 1]

Tok(type, text) == [type |-> type, text |-> text, line |-> line, column |-> column, position |-> pos]

\* One activation of next_token: EOF at the end; else the first matching
\* rule, advancing over its text and recursing when it is a skip rule;
\* else an error token of one character, advance(), and error_message_.
ScanStep ==
  /\ mode # "idle" /\ depth < MaxDepth
  /\ LET rem == SubSeq(input, pos + 1, Len(input))
         r   == FirstRule(rem)
     IN  IF AtEnd
         THEN Return(Tok("EOF_TOKEN", <<>>), pos, <<line, column>>, errorMsg)
         ELSE IF r # 0
         THEN LET text == SubSeq(rem, 1, MatchLen(rules[r].pattern, rem))
                  lc   == AdvanceOver(<<line, column>>, text)
              IN  IF rules[r].skip
                  THEN /\ pos' = pos + Len(text) /\ line' = lc[1] /\ column' = lc[2]
                       /\ depth' = depth + 1
                       /\ UNCHANGED <<rules, input, errorMsg, mode, saved, last, peeked>>
                  ELSE Return(Tok(rules[r].type, text), pos + Len(text), lc, errorMsg)
         ELSE Return(Tok("ERROR_TOKEN", <<CurrentChar>>), pos + 1,
                     UpdatePosition(<<line, column>>, CurrentChar),
                     [char |-> CurrentChar, line |-> line, column |-> column])

LexerNext == SetInput \/ Reset \/ CallNext \/ CallPeek \/ ScanStep

\* next_token runs in the caller's thread and never waits
LexerSpec == LexerInit /\ [][LexerNext]_lexVars /\ WF_lexVars(ScanStep)

-----------------------------------------------------------------------------
(* Reference and properties                                                *)

\* Line and column of the character at 0-based position p, counted
\* directly: 1 + the newlines before it, and its distance from the last one
LineCol(p) ==
  LET nls == {i \in 1..p : input[i] = "nl"}
  IN  <<1 + Cardinality(nls),
        IF nls = {} THEN p + 1 ELSE p + 1 - (CHOOSE i \in nls : \A j \in nls : j <= i)>>

\* The text a keyword rule matches
KeywordText(pattern) == [i \in DOMAIN pattern.elems |-> CHOOSE c \in pattern.elems[i].cls : TRUE]

LexerTypeOK ==
  /\ mode \in {"idle", "next", "peek"}
  /\ pos \in 0..Len(input)
  /\ line \in Nat \ {0} /\ column \in Nat \ {0}
  /\ errorMsg = <<>> \/ errorMsg.char \in SX!Range(input)

\* Between calls, the line and column that update_position has kept up
\* through every matched, skipped and error character equal the ones
\* counted from the input; and the token last returned (by next_token or
\* peek_token) is the input text at its position, with that position's
\* line and column (spec 6: 1-based coordinates).
PositionsAgreeWithInput ==
  mode = "idle" =>
    /\ <<line, column>> = LineCol(pos)
    /\ last # NoToken =>
         /\ SubSeq(input, last.position + 1, last.position + Len(last.text)) = last.text
         /\ <<last.line, last.column>> = LineCol(last.position)

\* peek_token returns the token the next next_token call returns: peeking
\* changes nothing a later call reads.
PeekAgreesWithNext ==
  [][(mode = "next" /\ mode' = "idle" /\ peeked # NoToken) => last' = peeked]_lexVars

\* Every recursive call of next_token (line 107) has consumed at least one
\* character of the input: a skip rule never matches empty, so the
\* recursion ends, and it is never deeper than the input is long.
RecursionConsumesInput == mode # "idle" => depth <= pos - saved.pos + 1

\* A keyword added with add_keyword ("exact match pattern") before the
\* other rules is lexed as that keyword.
KeywordLexedAsKeyword ==
  (mode = "idle" /\ last # NoToken) =>
    \A r \in DOMAIN rules :
      (rules[r].pattern.anchoredEnd /\ last.text = KeywordText(rules[r].pattern)
         /\ \A q \in 1..(r - 1) : rules[q].pattern.anchoredEnd)
        => last.type = rules[r].type

=============================================================================
