----------------------------- MODULE G4Parser -----------------------------
(***************************************************************************)
(* G4Parser (SimpleLexer.h, the g4_parser.cpp part): reads an ANTLR4      *)
(* grammar file and converts it into a Grammar.                            *)
(*                                                                         *)
(* The input is the file as parse_rules sees it: whether it could be      *)
(* opened, whether `grammar Name;` is present, and the rules the regex    *)
(* (\w+)\s*:\s*([\s\S]*?)\s*; finds, in order, each a name and a body.    *)
(* A body is a sequence of characters: the regex has already removed the  *)
(* whitespace around it and the `;`, and rule_body's regex_replace has    *)
(* made every run of whitespace one space.  The files hold no comments,   *)
(* so remove_comments returns them unchanged.                              *)
(*                                                                         *)
(* A name is the sequence of its characters; a symbol is the record of    *)
(* GrammarAnalysis with that sequence as its base name.  The Grammar the  *)
(* parser returns is a record of its productions (in add_production       *)
(* order), its start symbol (<<>> for nullptr) and its symbol table.      *)
(***************************************************************************)
EXTENDS GrammarAnalysis, SequencesExt

CONSTANT Files

VARIABLES
  file,         \* the grammar file parse_file reads
  errors,       \* errors_
  parserRules,  \* parser_rules_: [name, alternatives]
  lexerRules,   \* lexer_rules_: [name, pattern, isFragment, isSkip]
  nextRule,     \* searchStart of parse_rules, as the index of the next rule
  pc,           \* "idle", "rules" (inside parse_rules) or "done"
  result,       \* "none" before returning, then "null" (nullptr) or "grammar"
  out           \* the Grammar returned

g4vars == <<file, errors, parserRules, lexerRules, nextRule, pc, result, out>>

Space == " "
Bar == "|"
QuoteChar == "'"
OpenBrackets == {"(", "[", "{"}
CloseBrackets == {")", "]", "}"}
UpperChars == {"A", "B", "C", "D", "E", "F", "G", "H", "I", "J", "K", "L", "M",
               "N", "O", "P", "Q", "R", "S", "T", "U", "V", "W", "X", "Y", "Z"}
EofWord == <<"E", "O", "F">>
FragmentWord == <<"f", "r", "a", "g", "m", "e", "n", "t">>
SkipWord == <<"-", ">", " ", "s", "k", "i", "p">>

IDENTIFIER == "IDENTIFIER"

\* The SymbolTable constructor's epsilon ("ε", here "eps") and end-of-input symbols
G4Epsilon == MkSymbol(Name(<<"eps">>, 0), EPSILON, EOF_TOKEN)
G4End     == MkSymbol(Name(<<"$">>, 0), END_OF_INPUT, EOF_TOKEN)
\* get_nonterminal(name) and get_terminal(name, TokenType::IDENTIFIER)
NT(w) == MkSymbol(Name(w, 0), NONTERMINAL, EOF_TOKEN)
TokenTerminal(w) == MkSymbol(Name(w, 0), TERMINAL, IDENTIFIER)

HasSubSeq(s, t) == \E i \in 0..(Len(s) - Len(t)) : SubSeq(s, i + 1, i + Len(t)) = t

-----------------------------------------------------------------------------
(* Text helpers                                                            *)

\* is_lexer_rule_name: !name.empty() && std::isupper(name[0])
IsLexerRuleName(w) == w # <<>> /\ w[1] \in UpperChars

\* normalize_whitespace: regex_replace(text, \s+, " ")
RECURSIVE NormalizeWhitespace(_)
NormalizeWhitespace(s) ==
  IF Len(s) < 2 THEN s
  ELSE IF s[1] = Space /\ s[2] = Space THEN NormalizeWhitespace(Tail(s))
  ELSE <<s[1]>> \o NormalizeWhitespace(Tail(s))

\* split_alternatives: cuts at | outside (), [] and {}; a pending
\* alternative is kept only when non-empty
\* Mutant: a bar inside brackets also separates alternatives
RECURSIVE SplitLoopIgnoringBrackets(_, _, _, _)
SplitLoopIgnoringBrackets(s, depth, cur, alts) ==
  IF s = <<>> THEN IF cur = <<>> THEN alts ELSE Append(alts, NormalizeWhitespace(cur))
  ELSE IF Head(s) = Bar
       THEN SplitLoopIgnoringBrackets(Tail(s), depth, <<>>, Append(alts, NormalizeWhitespace(cur)))
       ELSE SplitLoopIgnoringBrackets(Tail(s), depth, Append(cur, Head(s)), alts)

RECURSIVE SplitLoop(_, _, _, _)
SplitLoop(s, depth, cur, alts) ==
  IF s = <<>> THEN IF cur = <<>> THEN alts ELSE Append(alts, NormalizeWhitespace(cur))
  ELSE LET c == Head(s) IN
       CASE c \in OpenBrackets  -> SplitLoop(Tail(s), depth + 1, Append(cur, c), alts)
         [] c \in CloseBrackets -> SplitLoop(Tail(s), depth - 1, Append(cur, c), alts)
         [] c = Bar /\ depth = 0 ->
              SplitLoop(Tail(s), depth, <<>>, Append(alts, NormalizeWhitespace(cur)))
         [] OTHER -> SplitLoop(Tail(s), depth, Append(cur, c), alts)

SplitAlternatives(text) == SplitLoop(text, 0, <<>>, <<>>)

\* expand_ebnf: an alternative holding | is split once more
ExpandEbnf(alt) ==
  LET cleaned == NormalizeWhitespace(alt)
      parts   == SplitAlternatives(cleaned)
  IN  IF Bar \in ToSet(cleaned)
      THEN [i \in DOMAIN parts |-> NormalizeWhitespace(parts[i])]
      ELSE <<cleaned>>

\* std::istringstream >> token: the maximal runs of non-space characters
RECURSIVE WordsLoop(_, _, _)
WordsLoop(s, cur, ws) ==
  IF s = <<>> THEN IF cur = <<>> THEN ws ELSE Append(ws, cur)
  ELSE IF Head(s) = Space
       THEN WordsLoop(Tail(s), <<>>, IF cur = <<>> THEN ws ELSE Append(ws, cur))
       ELSE WordsLoop(Tail(s), Append(cur, Head(s)), ws)

Words(s) == WordsLoop(s, <<>>, <<>>)

-----------------------------------------------------------------------------
(* convert_to_grammar                                                      *)

IsLiteralWord(w) == w[1] = QuoteChar /\ w[Len(w)] = QuoteChar

\* token.substr(1, token.length() - 2); for the one-character word ' the
\* count wraps to npos and the literal is empty
LiteralName(w) == SubSeq(w, 2, Len(w) - 1)

\* The symbol convert_parser_rules interns for one word of an alternative
WordSymbol(w) ==
  CASE IsLexerRuleName(w) -> TokenTerminal(w)
    [] IsLiteralWord(w)   -> TokenTerminal(LiteralName(w))
    [] OTHER              -> NT(w)

\* Mutant: an empty rhs is added as it is, without epsilon
ProductionForNoEpsilon(lhs, str) ==
  LET ws == SelectSeq(Words(str), LAMBDA w : w # EofWord)
  IN  [lhs |-> lhs, rhs |-> [i \in DOMAIN ws |-> WordSymbol(ws[i])]]

\* The rhs of one production string: EOF is skipped, an empty rhs is
\* {epsilon}
ProductionFor(lhs, str) ==
  LET ws  == SelectSeq(Words(str), LAMBDA w : w # EofWord)
      rhs == [i \in DOMAIN ws |-> WordSymbol(ws[i])]
  IN  [lhs |-> lhs, rhs |-> IF rhs = <<>> THEN <<G4Epsilon>> ELSE rhs]

\* The productions of one parser rule: every alternative, expanded
ConvertRule(rule) ==
  FlattenSeq([i \in DOMAIN rule.alternatives |->
                LET ex == ExpandEbnf(rule.alternatives[i])
                IN  [j \in DOMAIN ex |-> ProductionFor(NT(rule.name), ex[j])]])

\* convert_parser_rules: the rules in order
ConvertParserRules(rules) ==
  FlattenSeq([r \in DOMAIN rules |-> ConvertRule(rules[r])])

\* convert_lexer_rules: the terminals of token rules neither fragment nor
\* skipped
ConvertLexerRules(lexRules) ==
  {TokenTerminal(lexRules[i].name) : i \in {j \in DOMAIN lexRules :
                                     ~lexRules[j].isFragment /\ ~lexRules[j].isSkip}}

\* convert_to_grammar: the symbol table holds epsilon, $, every interned
\* lhs and rhs symbol and the token terminals; the start symbol is the
\* first parser rule's nonterminal, nullptr without parser rules
ConvertToGrammar(rules, lexRules) ==
  LET prods == ConvertParserRules(rules)
  IN  [productions |-> prods,
       start       |-> IF rules = <<>> THEN <<>> ELSE <<NT(rules[1].name)>>,
       table       |-> {G4Epsilon, G4End}
                         \cup {NT(rules[i].name) : i \in DOMAIN rules}
                         \cup UNION {ToSet(prods[i].rhs) : i \in DOMAIN prods}
                         \cup ConvertLexerRules(lexRules)]

-----------------------------------------------------------------------------
(* Actions                                                                 *)

\* Before a return: no productions, no start symbol, an empty table
NoGrammar == [productions |-> <<>>, start |-> <<>>, table |-> {}]

Init ==
  /\ file \in Files
  /\ errors = <<>>
  /\ parserRules = <<>>
  /\ lexerRules = <<>>
  /\ nextRule = 1
  /\ pc = "idle"
  /\ result = "none"
  /\ out = NoGrammar

\* parse_file, when the file does not open: add_error, return nullptr
ParseFileCannotOpen ==
  /\ pc = "idle"
  /\ ~file.readable
  /\ errors' = Append(errors, "CannotOpen")
  /\ result' = "null"
  /\ pc' = "done"
  /\ UNCHANGED <<file, parserRules, lexerRules, nextRule, out>>

\* Mutant: a missing grammar declaration is not an error
ParseStringNoDeclarationCheck ==
  /\ pc = "idle"
  /\ file.readable
  /\ errors' = <<>>
  /\ parserRules' = <<>>
  /\ lexerRules' = <<>>
  /\ nextRule' = 1
  /\ pc' = "rules"
  /\ UNCHANGED <<file, result, out>>

\* parse_grammar_declaration: an error when no `grammar Name;` is found
DeclarationErrors(f) == IF f.declared THEN <<>> ELSE <<"NoGrammarDeclaration">>

\* parse_file, then parse_string up to parse_rules: clear the vectors,
\* remove_comments, parse_grammar_declaration (an error when no
\* `grammar Name;` is found)
ParseString ==
  /\ pc = "idle"
  /\ file.readable
  /\ errors' = DeclarationErrors(file)
  /\ parserRules' = <<>>
  /\ lexerRules' = <<>>
  /\ nextRule' = 1
  /\ pc' = "rules"
  /\ UNCHANGED <<file, result, out>>

RuleFound == pc = "rules" /\ nextRule <= Len(file.rules)
CurrentRule == file.rules[nextRule]

\* One match of parse_rules dispatched to parse_parser_rule.  Its
\* regex_match of name + " : " + body cannot fail: the name is \w+ and the
\* body holds no newline, so the error branch is never taken.
ParseParserRule ==
  /\ RuleFound
  /\ ~IsLexerRuleName(CurrentRule.name)
  /\ parserRules' = Append(parserRules, [name |-> CurrentRule.name,
                                         alternatives |-> SplitAlternatives(CurrentRule.body)])
  /\ nextRule' = nextRule + 1
  /\ UNCHANGED <<file, errors, lexerRules, pc, result, out>>

\* One match of parse_rules dispatched to parse_lexer_rule
ParseLexerRule ==
  /\ RuleFound
  /\ IsLexerRuleName(CurrentRule.name)
  /\ LET pattern == NormalizeWhitespace(CurrentRule.body)
     IN  lexerRules' = Append(lexerRules,
                              [name       |-> CurrentRule.name,
                               pattern    |-> pattern,
                               isFragment |-> IsPrefix(FragmentWord, CurrentRule.name),
                               isSkip     |-> HasSubSeq(pattern, SkipWord)])
  /\ nextRule' = nextRule + 1
  /\ UNCHANGED <<file, errors, parserRules, pc, result, out>>

\* The end of parse_string: nullptr when errors_ is not empty
ReturnNull ==
  /\ pc = "rules" /\ nextRule > Len(file.rules)
  /\ errors # <<>>
  /\ result' = "null"
  /\ pc' = "done"
  /\ UNCHANGED <<file, errors, parserRules, lexerRules, nextRule, out>>

\* The end of parse_string: convert_to_grammar
ReturnGrammar ==
  /\ pc = "rules" /\ nextRule > Len(file.rules)
  /\ errors = <<>>
  /\ result' = "grammar"
  /\ out' = ConvertToGrammar(parserRules, lexerRules)
  /\ pc' = "done"
  /\ UNCHANGED <<file, errors, parserRules, lexerRules, nextRule>>

G4Next ==
  \/ ParseFileCannotOpen
  \/ ParseString
  \/ ParseParserRule
  \/ ParseLexerRule
  \/ ReturnNull
  \/ ReturnGrammar

G4Spec == Init /\ [][G4Next]_g4vars /\ WF_g4vars(G4Next)

-----------------------------------------------------------------------------
(* What a rule body means                                                  *)
(*                                                                         *)
(* The alternatives of a body are its segments between the | that stand   *)
(* outside literals and brackets, an empty segment included (the          *)
(* rhs.empty() branch of convert_parser_rules is there for it).  A        *)
(* literal runs from ' to ' and may hold spaces, bars and brackets.        *)

RECURSIVE RefLoop(_, _, _, _, _, _)
RefLoop(s, inQuote, depth, word, seg, segs) ==
  LET ended == IF word = <<>> THEN seg ELSE Append(seg, word)
  IN  IF s = <<>> THEN Append(segs, ended)
      ELSE LET c == Head(s) IN
           CASE c = QuoteChar -> RefLoop(Tail(s), ~inQuote, depth, Append(word, c), seg, segs)
             [] inQuote       -> RefLoop(Tail(s), inQuote, depth, Append(word, c), seg, segs)
             [] c = Space     -> RefLoop(Tail(s), inQuote, depth, <<>>, ended, segs)
             [] c = Bar /\ depth = 0 ->
                  RefLoop(Tail(s), inQuote, depth, <<>>, <<>>, Append(segs, ended))
             [] OTHER ->
                  RefLoop(Tail(s), inQuote,
                          depth + (IF c \in OpenBrackets THEN 1
                                   ELSE IF c \in CloseBrackets THEN -1 ELSE 0),
                          Append(word, c), seg, segs)

\* Each alternative as the sequence of its words
RefAlternatives(body) == RefLoop(body, FALSE, 0, <<>>, <<>>, <<>>)

RefSymbol(w) ==
  CASE Len(w) >= 2 /\ IsLiteralWord(w) -> TokenTerminal(LiteralName(w))
    [] IsLexerRuleName(w)              -> TokenTerminal(w)
    [] OTHER                           -> NT(w)

RefProductions(rule) ==
  LET alts == RefAlternatives(rule.body)
      Rhs(ws) == LET kept == SelectSeq(ws, LAMBDA w : w # EofWord)
                 IN  [i \in DOMAIN kept |-> RefSymbol(kept[i])]
  IN  [i \in DOMAIN alts |->
         [lhs |-> NT(rule.name),
          rhs |-> IF Rhs(alts[i]) = <<>> THEN <<G4Epsilon>> ELSE Rhs(alts[i])]]

FileParserRules == SelectSeq(file.rules, LAMBDA r : ~IsLexerRuleName(r.name))

\* A body the code reads as written: not empty, not ending in |, and each
\* literal a quoted word of plain characters
PlainLiteral(w) ==
  /\ Len(w) >= 3 /\ IsLiteralWord(w)
  /\ \A i \in 2..(Len(w) - 1) :
       w[i] \notin {QuoteChar, Bar} \cup OpenBrackets \cup CloseBrackets
Plain(body) ==
  /\ body # <<>>
  /\ Last(body) # Bar
  /\ \A w \in ToSet(Words(body)) : QuoteChar \in ToSet(w) => PlainLiteral(w)

ProductionsOf(g, n) == SelectSeq(g.productions, LAMBDA p : p.lhs = NT(n))

Returned == result = "grammar"

-----------------------------------------------------------------------------
(* Properties                                                              *)

G4TypeOK ==
  /\ pc \in {"idle", "rules", "done"}
  /\ result \in {"none", "null", "grammar"}
  /\ nextRule \in 1..(Len(file.rules) + 1)
  /\ result = "none" <=> pc # "done"
  /\ Returned =>
       /\ \A i \in DOMAIN out.productions :
            /\ out.productions[i].lhs.kind = NONTERMINAL
            /\ out.productions[i].rhs # <<>>
            /\ ToSet(out.productions[i].rhs) \subseteq out.table
       /\ {G4Epsilon, G4End} \subseteq out.table

\* parse_string returns a grammar exactly when the file opens and declares
\* its grammar, and then every rule of the file has been dispatched once,
\* to parse_parser_rule or parse_lexer_rule, in file order
RulesDispatchedInOrder ==
  pc = "done" =>
    /\ Returned <=> file.readable /\ file.declared
    /\ Returned =>
         /\ [i \in DOMAIN parserRules |-> parserRules[i].name]
              = [i \in DOMAIN FileParserRules |-> FileParserRules[i].name]
         /\ Len(parserRules) + Len(lexerRules) = Len(file.rules)

\* For every parser rule with a plain body, the productions
\* convert_parser_rules adds for it (split_alternatives, expand_ebnf,
\* istringstream, the symbol choice of each word, the epsilon production)
\* are its alternatives as written, in order
AlternativesOfPlainBodies ==
  Returned =>
    \A i \in DOMAIN FileParserRules :
      LET r == FileParserRules[i] IN
      /\ Plain(r.body)
      /\ \A j \in DOMAIN FileParserRules : FileParserRules[j].name = r.name => j = i
      => ProductionsOf(out, r.name) = RefProductions(r)

\* Every parser rule's productions are its alternatives as written,
\* whatever the body
AlternativesAsWritten ==
  Returned =>
    out.productions
      = FlattenSeq([i \in DOMAIN FileParserRules |-> RefProductions(FileParserRules[i])])

=============================================================================
