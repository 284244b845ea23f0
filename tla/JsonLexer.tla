------------------------------ MODULE JsonLexer ------------------------------
(***************************************************************************)
(* generated::SimpleLexer (SimpleLexer.cpp, SimpleLexer.h), the JSON      *)
(* lexer kept in the repository: tokenize skips whitespace, takes the     *)
(* first of eleven patterns matching at the current position, and reports *)
(* a character none matches.  Unlike the lexer cpp_codegen.cpp emits, it  *)
(* skips whitespace with its own loop and moves the column, never the     *)
(* line, over a matched token.  One iteration of the while loop is one    *)
(* step; the token's type is the TokenType's name.                         *)
(***************************************************************************)
EXTENDS TokenPatterns

CONSTANTS
  JsonInputs   \* the strings SimpleLexer is constructed with

VARIABLES
  jsonInput,   \* input_
  jsonPos,     \* pos_
  jsonLine,    \* line_
  jsonColumn,  \* column_
  jsonTokens,  \* tokenize's vector: [type, text, line, column]
  jsonErrors,  \* errors_: [char, line, column], as error() formats them
  jsonPhase    \* "none", "constructed", "tokenizing" or "done"

jsonVars == <<jsonInput, jsonPos, jsonLine, jsonColumn, jsonTokens, jsonErrors, jsonPhase>>

\* The number regex with its integer part written \d*
NumberLenStar(s) ==
  LET i0 == IF s # <<>> /\ s[1] = "-" THEN 1 ELSE 0
      i1 == i0 + SpanLen(DigitChars, s, i0)
      i2 == IF i1 < Len(s) /\ s[i1 + 1] = "." /\ SpanLen(DigitChars, s, i1 + 1) > 0
            THEN i1 + 1 + SpanLen(DigitChars, s, i1 + 1) ELSE i1
      j  == IF i2 + 1 < Len(s) /\ s[i2 + 2] \in {"+", "-"} THEN i2 + 2 ELSE i2 + 1
  IN  IF i2 < Len(s) /\ s[i2 + 1] \in {"e", "E"} /\ SpanLen(DigitChars, s, j) > 0
      THEN j + SpanLen(DigitChars, s, j) ELSE i2

\* -?(?:0|[1-9]\d*)(?:\.\d+)?(?:[eE][+-]?\d+)? : the sign only before a
\* digit, a leading 0 alone, and the fraction and exponent each taken only
\* when complete (else their optional group matches empty)
NumberLen(s) ==
  LET i0 == IF s # <<>> /\ s[1] = "-" THEN 1 ELSE 0
      i1 == CASE i0 < Len(s) /\ s[i0 + 1] = "0"            -> i0 + 1
              [] i0 < Len(s) /\ s[i0 + 1] \in NonZeroChars -> i0 + 1 + SpanLen(DigitChars, s, i0 + 1)
              [] OTHER                                      -> -1
      i2 == IF i1 >= 0 /\ i1 < Len(s) /\ s[i1 + 1] = "." /\ SpanLen(DigitChars, s, i1 + 1) > 0
            THEN i1 + 1 + SpanLen(DigitChars, s, i1 + 1) ELSE i1
      j  == IF i2 + 1 < Len(s) /\ s[i2 + 2] \in {"+", "-"} THEN i2 + 2 ELSE i2 + 1
  IN  IF i1 < 0 THEN -1
      ELSE IF i2 < Len(s) /\ s[i2 + 1] \in {"e", "E"} /\ SpanLen(DigitChars, s, j) > 0
           THEN j + SpanLen(DigitChars, s, j) ELSE i2

\* init_patterns: the patterns in the order match_token tries them
JsonPatterns ==
  <<[type |-> "STRING", kind |-> "string", text |-> <<>>],
    [type |-> "NUMBER", kind |-> "number", text |-> <<>>],
    [type |-> "TRUE", kind |-> "literal", text |-> <<"t", "r", "u", "e">>],
    [type |-> "FALSE", kind |-> "literal", text |-> <<"f", "a", "l", "s", "e">>],
    [type |-> "NULL_TOKEN", kind |-> "literal", text |-> <<"n", "u", "l", "l">>],
    [type |-> "LBRACE", kind |-> "literal", text |-> <<"{">>],
    [type |-> "RBRACE", kind |-> "literal", text |-> <<"}">>],
    [type |-> "LBRACKET", kind |-> "literal", text |-> <<"[">>],
    [type |-> "RBRACKET", kind |-> "literal", text |-> <<"]">>],
    [type |-> "COMMA", kind |-> "literal", text |-> <<",">>],
    [type |-> "COLON", kind |-> "literal", text |-> <<":">>]>>

PatternLen(p, rem) ==
  CASE p.kind = "string" -> StringLen(rem)
    [] p.kind = "number" -> NumberLen(rem)
    [] OTHER             -> LiteralLen(p.text, rem)

\* match_token's loop: the first pattern matching at position 0, or 0
FirstMatchingPattern(rem) ==
  LET hits == {i \in DOMAIN JsonPatterns : PatternLen(JsonPatterns[i], rem) >= 0}
  IN  IF hits = {} THEN 0 ELSE CHOOSE i \in hits : \A q \in hits : i <= q

\* skip_whitespace counting a newline as one more column
RECURSIVE SkipWhitespaceNoLine(_, _)
SkipWhitespaceNoLine(s, st) ==
  IF st.pos < Len(s) /\ s[st.pos + 1] \in WhiteSpaceChars
  THEN SkipWhitespaceNoLine(s, [st EXCEPT !.pos = @ + 1, !.column = @ + 1])
  ELSE st

\* skip_whitespace from (p, line, column): the position, line and column
\* after the run of whitespace, a newline starting a new line
RECURSIVE SkipWhitespace(_, _)
SkipWhitespace(s, st) ==
  IF st.pos < Len(s) /\ s[st.pos + 1] \in WhiteSpaceChars
  THEN SkipWhitespace(s, IF s[st.pos + 1] = "nl"
                         THEN [pos |-> st.pos + 1, line |-> st.line + 1, column |-> 1]
                         ELSE [st EXCEPT !.pos = @ + 1, !.column = @ + 1])
  ELSE st

\* Tokens and errors together never outnumber the characters: the bound
JsonCap == Len(jsonInput)

-----------------------------------------------------------------------------

JsonInit ==
  /\ jsonInput = <<>> /\ jsonPos = 0 /\ jsonLine = 1 /\ jsonColumn = 1
  /\ jsonTokens = <<>> /\ jsonErrors = <<>> /\ jsonPhase = "none"

\* SimpleLexer(input): input_, pos_ 0, line_ 1, column_ 1, init_patterns()
JsonConstruct ==
  /\ jsonPhase = "none"
  /\ \E s \in JsonInputs : jsonInput' = s
  /\ jsonPos' = 0 /\ jsonLine' = 1 /\ jsonColumn' = 1
  /\ jsonPhase' = "constructed"
  /\ UNCHANGED <<jsonTokens, jsonErrors>>

\* tokenize() is called: pos_, line_, column_ reset and errors_ cleared
JsonTokenize ==
  /\ jsonPhase \in {"constructed", "done"}
  /\ jsonPos' = 0 /\ jsonLine' = 1 /\ jsonColumn' = 1
  /\ jsonTokens' = <<>> /\ jsonErrors' = <<>>
  /\ jsonPhase' = "tokenizing"
  /\ UNCHANGED jsonInput

\* Returning without the EOF token
JsonReturnNoEof(line, column) ==
  /\ jsonTokens' = jsonTokens
  /\ jsonPhase' = "done"

\* Add the EOF token at (line_, column_) and return
JsonReturn(line, column) ==
  /\ jsonTokens' = Append(jsonTokens, [type |-> "EOF_TOKEN", text |-> <<>>,
                                       line |-> line, column |-> column])
  /\ jsonPhase' = "done"

\* One iteration of the while loop: skip_whitespace, then break at the end
\* of the input, or match_token (pos_ and column_ advanced by the match's
\* length), or error() and one character skipped
JsonStep ==
  /\ jsonPhase = "tokenizing" /\ jsonPos < Len(jsonInput)
  /\ Len(jsonTokens) + Len(jsonErrors) < JsonCap
  /\ LET st  == SkipWhitespace(jsonInput, [pos |-> jsonPos, line |-> jsonLine, column |-> jsonColumn])
         rem == SubSeq(jsonInput, st.pos + 1, Len(jsonInput))
         p   == FirstMatchingPattern(rem)
         n   == IF p = 0 THEN 1 ELSE PatternLen(JsonPatterns[p], rem)
     IN  /\ jsonLine' = st.line
         /\ IF st.pos >= Len(jsonInput)
            THEN /\ JsonReturn(st.line, st.column)
                 /\ jsonPos' = st.pos /\ jsonColumn' = st.column
                 /\ UNCHANGED jsonErrors
            ELSE /\ jsonPos' = st.pos + n /\ jsonColumn' = st.column + n
                 /\ IF p = 0
                    THEN /\ jsonErrors' = Append(jsonErrors, [char |-> rem[1], line |-> st.line,
                                                              column |-> st.column])
                         /\ UNCHANGED jsonTokens
                    ELSE /\ jsonTokens' = Append(jsonTokens, [type |-> JsonPatterns[p].type,
                                                              text |-> SubSeq(rem, 1, n),
                                                              line |-> st.line, column |-> st.column])
                         /\ UNCHANGED jsonErrors
                 /\ UNCHANGED jsonPhase
  /\ UNCHANGED jsonInput

\* The loop test fails: the EOF token is added and the vector returned
JsonEnd ==
  /\ jsonPhase = "tokenizing" /\ jsonPos >= Len(jsonInput)
  /\ JsonReturn(jsonLine, jsonColumn)
  /\ UNCHANGED <<jsonInput, jsonPos, jsonLine, jsonColumn, jsonErrors>>

JsonNext == JsonConstruct \/ JsonTokenize \/ JsonStep \/ JsonEnd

\* tokenize runs in the caller's thread and never waits
JsonSpec == JsonInit /\ [][JsonNext]_jsonVars /\ WF_jsonVars(JsonStep \/ JsonEnd)

-----------------------------------------------------------------------------
(* Properties                                                              *)

JsonLexerTypeOK ==
  /\ jsonPhase \in {"none", "constructed", "tokenizing", "done"}
  /\ jsonPos \in 0..Len(jsonInput)
  /\ jsonLine \in Nat \ {0} /\ jsonColumn \in Nat \ {0}
  /\ \A i \in DOMAIN jsonTokens :
       jsonTokens[i].type \in {JsonPatterns[q].type : q \in DOMAIN JsonPatterns} \cup {"EOF_TOKEN"}
  /\ jsonPhase = "done" => jsonTokens # <<>> /\ jsonTokens[Len(jsonTokens)].type = "EOF_TOKEN"

\* SimpleLexer reports where it read, as skip_whitespace's line_ and
\* column_ bookkeeping and the line and column every Token and error
\* message carries intend: between iterations line_ and column_ are the
\* input position's, every token is the input text at its line and
\* column, every error in errors_ names the character at its line and
\* column, and the EOF token is at the end.  match_token moves only
\* column_ over what it matched, so a STRING holding a raw newline breaks
\* this.
JsonLexerReportsWhereItRead ==
  jsonPhase \in {"tokenizing", "done"} =>
    /\ ReportsWhereRead(jsonInput, jsonTokens, jsonErrors)
    /\ jsonPhase = "tokenizing" => <<jsonLine, jsonColumn>> = PositionIn(jsonInput, jsonPos)
    /\ jsonPhase = "done" /\ jsonTokens # <<>> =>
         OffsetAt(jsonInput, <<jsonTokens[Len(jsonTokens)].line, jsonTokens[Len(jsonTokens)].column>>)
           = Len(jsonInput)

\* Every tokenize call returns: a match is never empty, and a character no
\* pattern matches is skipped.
JsonTokenizeReturns == jsonPhase = "tokenizing" ~> jsonPhase = "done"

=============================================================================
