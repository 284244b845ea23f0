------------------------------ MODULE GenLexer ------------------------------
(***************************************************************************)
(* The lexer CppCodeGenerator emits (generate_lexer_source,               *)
(* cpp_codegen.cpp): initialize_rules builds a skip rule for \s+ and then *)
(* one rule per terminal of the grammar, in get_terminals() order, its    *)
(* regex chosen by the terminal's token name; tokenize takes the first    *)
(* rule matching at the current position, counts lines and columns over  *)
(* the matched text, and reports a character no rule matches.             *)
(*                                                                         *)
(* A terminal name is a sequence of characters (TokenPatterns).           *)
(* get_terminals() is a std::set<SymbolPtr>, ordered by address: the      *)
(* model takes any order.  A literal terminal's pattern passes through    *)
(* three encodings: the generator's escaping loop, the C++ string literal *)
(* it is written into (not a raw one), and the ECMAScript regex syntax;   *)
(* each is modelled by what it does.  One iteration of tokenize's while   *)
(* loop is one step.                                                       *)
(***************************************************************************)
EXTENDS TokenPatterns, TLC

LOCAL SX == INSTANCE SequencesExt

CONSTANTS
  GenGrammars,   \* the terminal-name sets of the grammars a lexer is generated for
  GenInputs,     \* the strings given to tokenize
  LiteralNames   \* literal terminal names for the escaping check

VARIABLES
  genRules,      \* rules_: [kind, text, type, skip] in emission order
  genPhase,      \* "unbuilt", "ready", "tokenizing" or "done"
  genInput,      \* tokenize's input
  genPos,        \* its locals pos, line, column
  genLine,
  genColumn,
  genTokens,     \* the tokens vector: [type, text, line, column]
  genErrors      \* errors_: [char, line, column], as error() formats them

genVars == <<genRules, genPhase, genInput, genPos, genLine, genColumn, genTokens, genErrors>>

-----------------------------------------------------------------------------
(* Token names                                                             *)

\* The operator names to_cpp_identifier gives fixed identifiers
CppOperatorNames ==
  (<<"+">> :> "PLUS") @@ (<<"-">> :> "MINUS") @@ (<<"*">> :> "MULTIPLY") @@
  (<<"/">> :> "DIVIDE") @@ (<<"(">> :> "LPAREN") @@ (<<")">> :> "RPAREN") @@
  (<<"{">> :> "LBRACE") @@ (<<"}">> :> "RBRACE") @@ (<<"[">> :> "LBRACKET") @@
  (<<"]">> :> "RBRACKET") @@ (<<";">> :> "SEMICOLON") @@ (<<",">> :> "COMMA") @@
  (<<".">> :> "DOT") @@ (<<":">> :> "COLON") @@ (<<"=">> :> "EQUALS") @@
  (<<"<">> :> "LT") @@ (<<">">> :> "GT") @@ (<<"<", "=">> :> "LE") @@
  (<<">", "=">> :> "GE") @@ (<<"=", "=">> :> "EQ") @@ (<<"!", "=">> :> "NE") @@
  (<<"&", "&">> :> "AND") @@ (<<"|", "|">> :> "OR") @@ (<<"!">> :> "NOT")

\* The identifiers the token names are compared with, as characters
Chars(word) ==
  CASE word = "NUM" -> <<"N","U","M">>
    [] word = "NUMBER" -> <<"N","U","M","B","E","R">> [] word = "INT" -> <<"I","N","T">>
    [] word = "ID" -> <<"I","D">> [] word = "IDENTIFIER" -> <<"I","D","E","N","T","I","F","I","E","R">>
    [] word = "STRING" -> <<"S","T","R","I","N","G">> [] word = "NULL" -> <<"N","U","L","L">>
    [] word = "TRUE" -> <<"T","R","U","E">> [] word = "FALSE" -> <<"F","A","L","S","E">>

\* std::toupper on the letters names use
UpperOf == [c \in {"a","d","e","f","g","i","l","m","n","r","s","t","u"} |->
             CASE c = "a" -> "A" [] c = "d" -> "D" [] c = "e" -> "E" [] c = "f" -> "F"
               [] c = "g" -> "G" [] c = "i" -> "I" [] c = "l" -> "L" [] c = "m" -> "M"
               [] c = "n" -> "N" [] c = "r" -> "R" [] c = "s" -> "S" [] c = "t" -> "T"
               [] c = "u" -> "U"]
Upper(c) == IF c \in DOMAIN UpperOf THEN UpperOf[c] ELSE c

\* to_cpp_identifier(name): an operator's fixed name (kept as one element),
\* else every character but a letter, digit or _ replaced by _, and _ put
\* before a leading digit
ToCppIdentifier(name) ==
  IF name \in DOMAIN CppOperatorNames THEN <<CppOperatorNames[name]>>
  ELSE LET r == [i \in DOMAIN name |->
                   IF name[i] \in LetterChars \cup DigitChars \cup {"_"} THEN name[i] ELSE "_"]
       IN  IF r # <<>> /\ r[1] \in DigitChars THEN <<"_">> \o r ELSE r

\* to_token_name(name): upper-cased, NULL, TRUE and FALSE renamed
ToTokenName(name) ==
  LET u == [i \in DOMAIN ToCppIdentifier(name) |-> Upper(ToCppIdentifier(name)[i])]
  IN  IF u \in {Chars("NULL"), Chars("TRUE"), Chars("FALSE")}
      THEN u \o <<"_","T","O","K","E","N">> ELSE u

EofTokenName == <<"E","O","F","_","T","O","K","E","N">>

-----------------------------------------------------------------------------
(* Literal patterns                                                        *)

\* The special_chars string, in its order
SpecialCharsNoDot == <<"*", "+", "?", "^", "$", "{", "}", "(", ")", "|", "[", "]", "bs">>
SpecialChars == <<".", "*", "+", "?", "^", "$", "{", "}", "(", ")", "|", "[", "]", "bs">>

\* The find/replace loop for one special character c: every occurrence
\* becomes \c (pos += 2 steps over the pair it inserted)
EscapeChar(s, c) == SX!FlattenSeq([i \in DOMAIN s |-> IF s[i] = c THEN <<"bs", c>> ELSE <<s[i]>>])

\* The escaped pattern: the loop run for each special character in turn
EscapePattern(name) == SX!FoldLeft(EscapeChar, name, SpecialChars)

\* The value of the C++ string literal "s" the generator writes: \\, \",
\* \n, \t and \' are escapes, another \x is an unknown escape the
\* compilers warn about and read as x; a quote ends the literal early and a
\* raw newline is not allowed in one: the generated file does not compile.
RECURSIVE CppStringValue(_)
CppStringValue(s) ==
  CASE s = <<>> -> [ok |-> TRUE, text |-> <<>>]
    [] s[1] \in {"dq", "nl"} \/ s = <<"bs">> -> [ok |-> FALSE, text |-> <<>>]
    [] s[1] = "bs" ->
         LET c == CASE s[2] = "n" -> "nl" [] s[2] = "t" -> "tab" [] OTHER -> s[2]
             rest == CppStringValue(SubSeq(s, 3, Len(s)))
         IN  [ok |-> rest.ok, text |-> <<c>> \o rest.text]
    [] OTHER ->
         LET rest == CppStringValue(Tail(s)) IN [ok |-> rest.ok, text |-> <<s[1]>> \o rest.text]

\* ECMAScript's syntax characters, and the escapes that name a class or an
\* assertion rather than a character
RegexSyntax == {".", "*", "+", "?", "^", "$", "{", "}", "(", ")", "|", "[", "]"}
RegexClassEscapes == {"d", "D", "s", "S", "w", "W", "b", "B"}

\* What std::regex reads in the pattern r: "literal" with the characters it
\* matches, "meta" when an unescaped syntax character or a class escape
\* gives it another meaning, "error" when it throws regex_error
RECURSIVE RegexReading(_)
RegexReading(r) ==
  LET More(c, rest) ==
        IF rest.kind = "literal" THEN [kind |-> "literal", text |-> <<c>> \o rest.text] ELSE rest
  IN CASE r = <<>> -> [kind |-> "literal", text |-> <<>>]
       [] r = <<"bs">> -> [kind |-> "error", text |-> <<>>]
       [] r[1] = "bs" /\ r[2] \in RegexClassEscapes -> [kind |-> "meta", text |-> <<>>]
       [] r[1] = "bs" /\ r[2] \in (LetterChars \cup DigitChars) \ {"n", "t"} ->
            [kind |-> "error", text |-> <<>>]
       [] r[1] = "bs" ->
            More(CASE r[2] = "n" -> "nl" [] r[2] = "t" -> "tab" [] OTHER -> r[2],
                 RegexReading(SubSeq(r, 3, Len(r))))
       [] r[1] \in RegexSyntax -> [kind |-> "meta", text |-> <<>>]
       [] OTHER -> More(r[1], RegexReading(Tail(r)))

\* The text a literal terminal's rule matches at run time
LiteralRuleText(name) == RegexReading(CppStringValue(EscapePattern(name)).text)

-----------------------------------------------------------------------------
(* Rules                                                                   *)

\* The rule for one terminal: \d+ for NUM, NUMBER and INT, an identifier
\* for ID and IDENTIFIER, the string regex for STRING, else the escaped name
RuleFor(name) ==
  LET tn == ToTokenName(name)
      kind == CASE tn \in {Chars("NUM"), Chars("NUMBER"), Chars("INT")} -> "digits"
                [] tn \in {Chars("ID"), Chars("IDENTIFIER")}            -> "ident"
                [] tn = Chars("STRING")                                  -> "string"
                [] OTHER                                                 -> "literal"
  IN  [kind |-> kind, text |-> IF kind = "literal" THEN LiteralRuleText(name).text ELSE <<>>,
       type |-> tn, skip |-> FALSE]

\* initialize_rules: the whitespace skip rule, then every terminal but one
\* named $, in the order given
InitializeRules(order) ==
  <<[kind |-> "space", text |-> <<>>, type |-> EofTokenName, skip |-> TRUE]>> \o
  [i \in DOMAIN SelectSeq(order, LAMBDA n : n # <<"$">>) |->
     RuleFor(SelectSeq(order, LAMBDA n : n # <<"$">>)[i])]

\* The whitespace rule written \s* rather than \s+
RuleMatchLenSpaceStar(rule, rem) ==
  CASE rule.kind = "space"  -> SpanLen(WhiteSpaceChars, rem, 0)
    [] rule.kind = "digits" -> PlusLen(DigitChars, rem)
    [] rule.kind = "ident"  -> IdentLen(rem)
    [] rule.kind = "string" -> StringLen(rem)
    [] OTHER                -> LiteralLen(rule.text, rem)

\* The length of rule's match at position 0 of rem, or -1
RuleMatchLen(rule, rem) ==
  CASE rule.kind = "space"  -> PlusLen(WhiteSpaceChars, rem)
    [] rule.kind = "digits" -> PlusLen(DigitChars, rem)
    [] rule.kind = "ident"  -> IdentLen(rem)
    [] rule.kind = "string" -> StringLen(rem)
    [] OTHER                -> LiteralLen(rule.text, rem)

\* The first rule, in rules_ order, matching at position 0 (0 if none)
FirstMatchingRule(rules, rem) ==
  LET hits == {r \in DOMAIN rules : RuleMatchLen(rules[r], rem) >= 0}
  IN  IF hits = {} THEN 0 ELSE CHOOSE r \in hits : \A q \in hits : r <= q

\* The counting loop with the column not reset at a newline
RECURSIVE AdvanceLineColumnNoReset(_, _)
AdvanceLineColumnNoReset(lc, text) ==
  IF text = <<>> THEN lc
  ELSE AdvanceLineColumnNoReset(IF Head(text) = "nl" THEN <<lc[1] + 1, lc[2] + 1>>
                                ELSE <<lc[1], lc[2] + 1>>, Tail(text))

\* The counting loop over the matched text: a newline starts a new line
RECURSIVE AdvanceLineColumn(_, _)
AdvanceLineColumn(lc, text) ==
  IF text = <<>> THEN lc
  ELSE AdvanceLineColumn(IF Head(text) = "nl" THEN <<lc[1] + 1, 1>> ELSE <<lc[1], lc[2] + 1>>,
                         Tail(text))

-----------------------------------------------------------------------------

GenLexInit ==
  /\ genRules = <<>> /\ genPhase = "unbuilt"
  /\ genInput = <<>> /\ genPos = 0 /\ genLine = 1 /\ genColumn = 1
  /\ genTokens = <<>> /\ genErrors = <<>>

\* generate_lexer_source for a grammar, and the emitted constructor, which
\* calls initialize_rules
GenerateLexer ==
  /\ genPhase = "unbuilt"
  /\ \E terminals \in GenGrammars :
       \E order \in SX!SetToSeqs(terminals) : genRules' = InitializeRules(order)
  /\ genPhase' = "ready"
  /\ UNCHANGED <<genInput, genPos, genLine, genColumn, genTokens, genErrors>>

\* tokenize(input) is called: an empty tokens vector, errors_.clear(), and
\* pos, line, column at 0, 1, 1
GenTokenize ==
  /\ genPhase \in {"ready", "done"}
  /\ \E s \in GenInputs : genInput' = s
  /\ genPos' = 0 /\ genLine' = 1 /\ genColumn' = 1
  /\ genTokens' = <<>> /\ genErrors' = <<>>
  /\ genPhase' = "tokenizing"
  /\ UNCHANGED genRules

\* A token is added to the vector per character at most: the bound on it
GenTokenCap == Len(genInput)

\* error(message, line, column) after no rule matched: reported at the
\* position of the character, then pos++ and column++
GenLexError ==
  /\ genErrors' = Append(genErrors, [char |-> genInput[genPos + 1], line |-> genLine, column |-> genColumn])
  /\ genPos' = genPos + 1 /\ genColumn' = genColumn + 1
  /\ UNCHANGED <<genLine, genTokens>>

\* One iteration of the while loop: the first rule matching at pos; its
\* token unless it is a skip rule, the counting loop over its text, and
\* pos += its length; else the error branch
GenLexStep ==
  /\ genPhase = "tokenizing" /\ genPos < Len(genInput) /\ Len(genTokens) < GenTokenCap
  /\ LET rem == SubSeq(genInput, genPos + 1, Len(genInput))
         r   == FirstMatchingRule(genRules, rem)
     IN  IF r = 0 THEN GenLexError
         ELSE LET text == SubSeq(rem, 1, RuleMatchLen(genRules[r], rem))
                  lc   == AdvanceLineColumn(<<genLine, genColumn>>, text)
              IN  /\ genTokens' = IF genRules[r].skip THEN genTokens
                                  ELSE Append(genTokens, [type |-> genRules[r].type, text |-> text,
                                                          line |-> genLine, column |-> genColumn])
                  /\ genLine' = lc[1] /\ genColumn' = lc[2]
                  /\ genPos' = genPos + Len(text)
                  /\ UNCHANGED genErrors
  /\ UNCHANGED <<genRules, genPhase, genInput>>

\* The loop end with the EOF token never added
GenLexEndNoEof ==
  /\ genPhase = "tokenizing" /\ genPos >= Len(genInput)
  /\ genPhase' = "done"
  /\ UNCHANGED <<genRules, genInput, genPos, genLine, genColumn, genTokens, genErrors>>

\* The loop ends: the EOF token at the final line and column is added and
\* the vector returned
GenLexEnd ==
  /\ genPhase = "tokenizing" /\ genPos >= Len(genInput)
  /\ genTokens' = Append(genTokens, [type |-> EofTokenName, text |-> <<>>,
                                     line |-> genLine, column |-> genColumn])
  /\ genPhase' = "done"
  /\ UNCHANGED <<genRules, genInput, genPos, genLine, genColumn, genErrors>>

GenNext == GenerateLexer \/ GenTokenize \/ GenLexStep \/ GenLexEnd

\* tokenize runs in the caller's thread and never waits
GenSpec == GenLexInit /\ [][GenNext]_genVars /\ WF_genVars(GenLexStep \/ GenLexEnd)

-----------------------------------------------------------------------------
(* Reference and properties                                                *)

\* The characters an ANTLR literal 'n' denotes, and whether n is a valid
\* literal body: \\, \', \n and \t are escapes, and a quote or a backslash
\* is allowed nowhere else
RECURSIVE G4LiteralValue(_)
G4LiteralValue(n) ==
  LET Esc == ("bs" :> "bs") @@ ("'" :> "'") @@ ("n" :> "nl") @@ ("t" :> "tab")
      More(c, rest) == [ok |-> rest.ok, text |-> <<c>> \o rest.text]
  IN CASE n = <<>> -> [ok |-> TRUE, text |-> <<>>]
       [] n[1] = "bs" /\ Len(n) >= 2 /\ n[2] \in DOMAIN Esc ->
            More(Esc[n[2]], G4LiteralValue(SubSeq(n, 3, Len(n))))
       [] n[1] \in {"bs", "'"} -> [ok |-> FALSE, text |-> <<>>]
       [] OTHER -> More(n[1], G4LiteralValue(Tail(n)))

GenLexerTypeOK ==
  /\ genPhase \in {"unbuilt", "ready", "tokenizing", "done"}
  /\ genPos \in 0..Len(genInput)
  /\ genLine \in Nat \ {0} /\ genColumn \in Nat \ {0}
  /\ \A i \in DOMAIN genRules : genRules[i].kind \in {"space", "digits", "ident", "string", "literal"}
  /\ genPhase = "done" => genTokens # <<>> /\ genTokens[Len(genTokens)].type = EofTokenName

\* The literal branch of generate_lexer_source: for every valid literal
\* body whose C++ string literal compiles, the escaping loop, the string
\* literal and the regex syntax together give a regex matching exactly the
\* characters the grammar's literal denotes (no character left a regex
\* operator or read as a class, and no backslash lost or doubled).
LiteralPatternsFaithful ==
  \A n \in LiteralNames :
    (G4LiteralValue(n).ok /\ CppStringValue(EscapePattern(n)).ok)
      => LiteralRuleText(n) = [kind |-> "literal", text |-> G4LiteralValue(n).text]
GeneratedLiteralPatternFaithful == genPhase = "unbuilt" => LiteralPatternsFaithful

\* The generated tokenize reports where it read: its line and column are
\* the input position's, every token it returned is the input text at its
\* line and column (the counting loop over matched text, newlines in skipped
\* whitespace included), every error in errors_ names the character at its
\* line and column in this input (errors_ cleared per call), and the EOF
\* token is at the end.
GeneratedLexerReportsWhereItRead ==
  genPhase \in {"tokenizing", "done"} =>
    /\ ReportsWhereRead(genInput, genTokens, genErrors)
    /\ genPhase = "tokenizing" => <<genLine, genColumn>> = PositionIn(genInput, genPos)
    /\ genPhase = "done" =>
         OffsetAt(genInput, <<genTokens[Len(genTokens)].line, genTokens[Len(genTokens)].column>>)
           = Len(genInput)

\* Every tokenize call returns: each iteration consumes at least one
\* character, as no rule of the generated lexer matches the empty string.
GenTokenizeReturns == genPhase = "tokenizing" ~> genPhase = "done"

====
