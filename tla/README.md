# TLA+ models of the LALR(1) parser generator

This directory models the parser generator under `src/lalr1-parser-generator`
and `src/unnamed`. The models cover the grammar API, the LR(0) automaton, the
LALR(1) table, the shift/reduce driver, the parser that the C++ code generator
writes out, the regex lexer, the lexer the code generator writes out, the
JSON lexer kept in the repository and the ANTLR4 (.g4) grammar reader, and TLC
checks them. Both parsers are shown to implement an abstract recognizer. Each module is
translated from the C++ source. `PROJECT.json` maps every definition to the
lines it models.

## The system and its parts

A client builds a `Grammar` through `SymbolTable` (`symbol.cpp`). The client:
- interns terminals and nonterminals;
- calls `add_production` and `set_start_symbol`;
- calls `augment` to add `S' -> S`.

`Grammar` computes the nullable set, FIRST and FOLLOW (`grammar.cpp`) lazily,
with three fixed-point loops. It caches them behind `*_computed_` flags, which
`clear_cache` resets.

`create_lalr1_parser` (`parser.cpp`) does the following:
1. It copies and augments the grammar.
2. It constructs `LALR1Generator`, whose member `LR0Automaton` (`src/unnamed/part_003`) builds the canonical LR(0) collection with a work list.
3. It calls `generate_table()` (`parse_table.cpp`):
   - `build_lalr_states()` gives every LR(0) item lookaheads. A complete item gets FOLLOW of its left-hand side, `$` for `S' -> S`, or FIRST of the next symbol.
   - The table is then filled through `set_action` and `set_goto`.
4. It throws if the table has conflicts.

A grammar can also come from a `.g4` file. `G4Parser` (declared in
`src/unnamed/part_001`; the implementation is the g4_parser.cpp part of
`SimpleLexer.h`, lines 66-437) finds the rules with a regex, splits parser
rule bodies into alternatives, and converts each alternative into a
production. `process_g4_file` (`lexer.cpp`) then augments that grammar and
builds the table.

`LALR1Parser::parse_internal` then runs the shift/reduce loop on a token
stream from `Lexer` (`lexer.cpp`). `cpp_codegen.cpp` can also write the table
and an equivalent loop out as C++ source, together with a lexer
(`generate_lexer_source`): one regex rule per terminal, chosen by the
terminal's token name, and a `tokenize` loop that takes the first rule
matching at the current position. `generated::SimpleLexer`
(`SimpleLexer.cpp`) is such a lexer for JSON, kept in the repository; it
uses no part of the generator.

## Modules

| Module | Models | State and actions |
|---|---|---|
| `GrammarAnalysis` | `Symbol`, `SymbolType`, and the three loops of `grammar.cpp` | No state. Constant operators. Each `while (changed)` loop is a RECURSIVE operator made of one pass and one step per production, so a pass updates the map in place, as the C++ does. `first_set(vector)` is `FirstOfSeq`. It also holds the reference definitions: nullable as a least fixed point, FIRST as reachability along "begins-with" edges, and FOLLOW from FIRST of the suffixes. |
| `Grammar` | `SymbolTable` and `Grammar` | Variables: `symbols_`, `productions_`, `start_symbol_`, `is_augmented_`, and the three cache flags and maps. Actions: `get_terminal`, `get_nonterminal`, `add_production`, `set_start_symbol`, `augment`, and the three queries on an empty cache. A query on a filled cache changes nothing. The client may call these in any order. |
| `LR0Automaton` | The `LR0Automaton` constructor, `closure`, `goto_set` | `PopState` is one `while` iteration (`back()`/`pop_back()`). `ProcessSymbol` is one iteration of the inner `for` loop: goto, search for an equal state, append and push, record the transition. The `std::set<SymbolPtr>` iteration order depends on addresses, so the model chooses the symbol nondeterministically. |
| `LALRTable` | `build_lalr_states`, `generate_table`, `set_action`, `set_goto` | It extends `LR0Automaton`. `BuildLalrStates` is one step. `EmitItem` handles one LR(1) item of the current state, in any order, because `std::set<LR1Item>` order is by address. `FinishRow` writes the state's gotos. |
| `Driver` | `create_lalr1_parser` and `parse_internal` | It extends `LALRTable`. `StartParse` throws on conflicts, or else pushes state 0 and picks an input. Each `ParseStep` is one loop iteration: shift, reduce, accept or error. `UnknownToken` covers a token type with no terminal. A token is its `TokenType`. |
| `Codegen` | the tables and parse loop written by `CppCodeGenerator` (`cpp_codegen.cpp`) | It extends `Driver`. The generated source is modelled by what it does. `ActionCode` is a cell of `ACTION_TABLE` (shift s → s, reduce p → −(p+1), accept → 0, error → −1). `GenGetGoto` is `GOTO_TABLE`, indexed by the column of a nonterminal in the sorted `nt_vec`. `ProductionLhs` and `ProductionLength` are `PRODUCTION_LHS` and `PRODUCTION_LENGTH`, and `CreateProductionNode` is the generated `switch` with its case labels counted from 1. Variables: `tokens_`, `current_token_`, `state_stack_`, whether `errors_` is empty, and the result. `GenStart` is `parse(tokens)` on the interpreter's input plus EOF. `GenStep` is one iteration of the generated `while (true)`, split into `GenShift`, `GenReduce`, `GenAccept` and `GenError`. |
| `Language` | no code: the meaning of a grammar | `InLanguage` is a span-based recognizer, a least fixed point of "symbol X derives the tokens i..j". `Derives` reads a word of token types through the terminals of each type. `IsDerivation` and `Yield` describe parse trees. |
| `Recognizer` | no code: what a parser promises | The abstract specification. `Create` either fails with conflicts or starts a parse on some input. `Decide` then answers `accept` exactly when the word is in the language, and `reject` otherwise. `Returns` says every started parse decides. |
| `G4Parser` | `G4Parser` (`SimpleLexer.h` 75-366) | A file is whether it opens, whether it declares `grammar Name;`, and the rules the rule regex finds (name and body as character sequences). Variables: `errors_`, `parser_rules_`, `lexer_rules_`, the rule loop's position, the result and the returned `Grammar` (productions, start symbol, symbol table). Actions: `ParseFileCannotOpen`, `ParseString` (clear, declaration check), `ParseParserRule` and `ParseLexerRule` (one match of `parse_rules` each), and `ReturnNull` or `ReturnGrammar` (`convert_to_grammar`). `SplitAlternatives`, `ExpandEbnf`, `Words` (`istringstream`), `WordSymbol` and `ProductionFor` are operators over characters. |
| `Lexer` | `Lexer` (`lexer.cpp`) | Variables: `rules_`, `input_`, `current_pos_`, `current_line_`, `current_column_` and `error_message_`. It also has the call in progress (`mode`) and its recursion `depth`, the state that `peek_token` saves, and the histories `last` and `peeked`. `add_rule`/`add_keyword`/`create_calculator_lexer` are operators that build `rules_`. A regex is a sequence of character classes with `?`, `*` or `+`, plus the `^…$` anchor of keywords. `SetInput`, `Reset`, `CallNext` (`next_token` and `match_token`) and `CallPeek` are client calls. `ScanStep` is one activation of `next_token`: EOF, first matching rule, skip recursion, or a one-character error token with `error_message_`. `Return` ends the call and is where `peek_token` restores its saved state. |
| `TokenPatterns` | the regexes of the two generated lexers | No state. Each regex is the length of its match at position 0 of the remaining input, or −1 (`regex_search` with `position() == 0`): `\s+`, `\d+`, the identifier, the string regex, a literal. Every regex here has a greedy match with no backtracking, so the operators scan. It also holds `PositionIn` and `ReportsWhereRead`, the reference for line and column. |
| `GenLexer` | the lexer `generate_lexer_source` emits (`cpp_codegen.cpp` 820-876, 1049-1169) | `ToCppIdentifier` and `ToTokenName` are `to_cpp_identifier` and `to_token_name`. A literal's pattern goes through three conversions, each modelled by what it does: the escaping loop (`EscapePattern`, a fold of `EscapeChar` over `special_chars`), the non-raw C++ string literal it is written into (`CppStringValue`), and ECMAScript regex syntax (`RegexReading`). `InitializeRules` is `initialize_rules` for one emission order of the terminals. Variables: `rules_`, the phase, and `tokenize`'s input, `pos`, `line`, `column`, tokens and `errors_`. Actions: `GenerateLexer`, `GenTokenize`, `GenLexStep` (one iteration of the `while` loop: first matching rule, the counting loop over its text, or the error branch) and `GenLexEnd` (EOF token). |
| `JsonLexer` | `generated::SimpleLexer` (`SimpleLexer.cpp`) | Variables: `input_`, `pos_`, `line_`, `column_`, `errors_`, the tokens vector and the phase. Actions: `JsonConstruct`, `JsonTokenize` (the reset), `JsonStep` (one iteration: `skip_whitespace`, then `break`, `match_token` over `init_patterns` in order, or `error` and one character skipped) and `JsonEnd`. `NumberLen` is the JSON number regex. |

`Driver` maps its state to the recognizer's: `Verdict` is the driver's
`result`, with a syntax error or an unknown token read as `reject`.
`ImplementsRecognizer` is `Recognizer`'s specification instantiated with
that mapping (`INSTANCE Recognizer WITH verdict <- Verdict`). `Codegen` does
the same for the generated parser, with `GenVerdict` and the word made
visible once `parse(tokens)` has started. The property checks the safety part
(`Init /\ [][Next]_rvars`) and `Returns`. `Returns` is what
`WF_rvars(Decide)` demands, since `Decide` is enabled exactly while a parse
is running.

Modules are composed by `EXTENDS`: the table's state includes the
automaton's, the driver's state includes the table's, and the generated
parser runs beside the interpreter on the same table and input. `MCGrammarTable` and `MCAllLexers`
put independent components under one specification: a variable chosen at
the start says which one a behaviour runs, and the others stay at their
initial state. Each `MC*.tla` gives
the constants their values: symbols as records, and grammars as sequences of
productions.

## Runs

| Run | Cfg | Expect | What it shows |
|---|---|---|---|
| grammar_and_table | `MCGrammarTable.cfg` | pass | `MCGrammarTable` runs either the Grammar API or the table construction per behaviour, chosen at the start (in an API behaviour the table stays at its initial state). **Grammar API:** For every call sequence with 1 nonterminal base (names up to `S'`), 1 terminal, at most 2 productions and right-hand sides of length at most 2 (or `[ε]`): (1) the three loops give exactly the reference nullable set, FIRST and FOLLOW; (2) a filled epsilon or FIRST cache always equals a fresh computation. **Table:** it covers all 812 grammars `S' -> S` plus 1–2 productions over {S, A, a} (rhs length ≤ 2, or `[ε]`), under every symbol order. (3) The automaton's work list empties. (4) The automaton is exactly the canonical collection, each set once, with `Goto` as the transitions. (5) A conflict is reported exactly when the grammar is not SLR(1). (6) Otherwise the table is the SLR(1) table. |
| follow_cache_stale | `MCGrammar_followstale.cfg` | violation | `set_start_symbol` (grammar.h:59) does not clear the caches. After a `follow_set` call, the new start symbol's FOLLOW lacks `$`. |
| augment_collision | `MCGrammar_augment.cfg` | violation | `augment` gets `S'` from `get_nonterminal`, so it reuses a client nonterminal named `S'`. |
| accept_by_name | `MCLALRTable_accept.cfg` | violation | `S -> A'`, `A' -> a`: the accept test matches on the name, so completing `A' -> a` becomes Accept. |
| epsilon_rhs | `MCDriver_epsrhs.cfg` | violation | A production written `A -> [ε]`, as `SimpleLexer.h:267` writes it, is never reduced. Input `a` for `S -> a A` is rejected, so the driver does not implement the recognizer. |
| pipeline_codegen | `MCCodegen.cfg` | pass | The run covers 702 grammars and token strings of length ≤ 3. (1) The interpreter implements `Recognizer` (`ImplementsRecognizer`): it accepts exactly the words of the language and every parse returns. (2) The generated parser implements it too (`GeneratedImplementsRecognizer`). (3) On accept, the interpreter's stack is `[0, S]` and its tree is a derivation whose yield is the input. (4) Every cell of `ACTION_TABLE` decodes back to the table's action. |
| codegen_labels | `MCCodegen_labels.cfg` | violation | `create_production_node` (cpp_codegen.cpp:558) numbers its cases from 1 while `reduce` passes the 0-based production index. The generated parser therefore builds the node of the previous production, or `nullptr`, where the interpreter builds the right tree. |
| lexer | `MCAllLexers.cfg` | pass | `MCAllLexers` runs one of the three lexers per behaviour, chosen at the start. **Calculator lexer:** covers `create_calculator_lexer` on every input of ≤ 3 characters from {letter, digit, `.`, blank, newline, `+`, `@`}, under any interleaving of `set_input`, `reset`, `next_token` and `peek_token`. (1) Between calls, line/column equal the position counted from the input, and the last token is the input text at its position. (2) Each skip recursion consumes input. (3) A `peek_token` returns what the following `next_token` returns. **Generated lexer:** four grammars (NUM and `+`; `=`, `==` and ID; `if`, ID and a terminal `$`; `int` and STRING) in every emission order, on 16 inputs. (4) For every literal body of ≤ 3 characters over {a, n, `+`, `.`, `(`, `\`, `'`, `"`} that is valid in ANTLR and whose C++ literal compiles, the rule matches exactly the characters the literal denotes (`GeneratedLiteralPatternFaithful`). (5) Every token and error is where `tokenize` read it, and EOF is at the end. (6) `tokenize` returns. **JSON lexer:** 22 inputs (strings with escapes and with a raw newline, numbers with sign, fraction and exponent, keywords, whitespace runs, unmatched characters). (7) `tokenize` returns. |
| g4_parser | `MCG4Parser.cfg` | pass | Covers every one-rule file whose body has up to 5 characters over {a, A, `'`, `\|`, `(`, `)`, space}, plus multi-rule files: token rules, a skipped token rule, EOF, a repeated rule name, literals holding brackets, bars and spaces, and unreadable and undeclared files. (1) `parse_string` returns a grammar exactly for a readable, declared file, and every rule is dispatched once, in order. (2) Every parser rule with a plain body becomes its alternatives as written. A plain body is non-empty, does not end in `\|`, and its literals are quoted words. |
| g4_alternatives | `MCG4Parser_alts.cfg` | violation | `s : ;` converts to no production at all. `split_alternatives` (SimpleLexer.h:350) drops an empty last alternative, although the `rhs.empty()` branch of `convert_parser_rules` exists to make it `s -> ε`. A trailing `\| ;`, a quoted bracket and the literal `' '` also break the same property. |
| keyword_anchor | `MCLexer_keyword.cfg` | violation | `add_keyword("ab")` is added before the calculator rules. On input `ab␠`, `ab` lexes as IDENTIFIER, because `^ab$` only matches when the keyword is the whole remaining input (lexer.cpp:33). |
| json_lines | `MCAllLexers_jsonlines.cfg` | violation | `match_token` (SimpleLexer.cpp:67) adds the match length to `column_` and never moves `line_`, while the string regex accepts a raw newline. On the input `"⏎"` the STRING token ends at offset 3, which is line 2, column 2, but the lexer is at line 1, column 4; EOF and any later token or error carry that wrong position. |

## Bounds

The bounds are chosen so that the behaviours these properties are about
actually happen:
- Two productions plus `S' -> S` already give left and right recursion, nullable nonterminals, unproductive nonterminals, shift/reduce and reduce/reduce conflicts, and states reached on several symbols.
- Right-hand sides of length 2 give FIRST/FOLLOW propagation through a nullable prefix.
- One prime on a name is enough to collide with `augment`'s `S'`.
- Inputs of length 3 let a parse use both recursion and the `$` lookahead.
- The generated parser runs on the same grammars and inputs as the interpreter. That covers reductions of production 0 and of the last production, shifts to state 0 (none exist, since state 0 has no incoming edge), and empty-stack pops on error inputs.
- G4 bodies of five characters over seven characters cover these cases:
  - empty, leading, middle and trailing alternatives;
  - bars inside brackets, and unbalanced brackets;
  - literals, including `''`, `'a'` and a lone quote;
  - uppercase and lowercase words.

  The multi-rule files add repeated names, token rules (skipped or not), `EOF`, and literals that are too long for the enumerated bodies.
- Lexer inputs of three characters over seven classes already cover these cases:
  - a number with and without a fraction;
  - a blank or a newline run between tokens (a skip followed by a recursion);
  - a newline followed by a token;
  - an unmatched character, both at the end and before more input.

  `MaxDepth = 5` exceeds the deepest recursion that a 3-character input allows (4 activations), so the bound never cuts a call short.

- Generated lexer: the grammars put a literal before or after a longer one and a keyword before or after ID in some order, include `$` (which gets no rule), and the inputs include a newline inside a skipped run and inside a string, an unmatched character, an unterminated string and the empty input. The literal bodies of three characters put the special characters `+`, `.` and `(` next to an escape, a quote and a backslash at the end (`\\'` against `\'`).
- JSON lexer: inputs that make each pattern match first (`01`, `truea`, `-a`, `1e␠` where the exponent group matches empty), that put a newline before a token, and strings holding a raw newline, alone and followed by a token.

## Fairness

The automaton constructor, `generate_table` and `parse_internal` are
single-threaded loops that never wait. Once they have started, a step of them
is always taken:
- **Automaton and table:** `LR0Automaton` has weak fairness on its next-state relation. `TableSpec`, and `MCGrammarTable`'s specification, state weak fairness for `BuildAutomaton`, the automaton steps inside `generate_table`, because its checked liveness is the termination of the work list. TLC would evaluate ENABLED of `BuildLalrStates` by computing every LR(1) item set in each state.
- **G4 parser:** weak fairness on its next-state relation. `parse_file` is one synchronous call.
- **Driver:** weak fairness on `ParseStep \/ UnknownToken`.
- **Generated parser:** weak fairness on `GenStep`. `parse(tokens)` is one synchronous loop.
- **Lexer:** `next_token` is synchronous, so `LexerSpec` has weak fairness on `ScanStep`. Termination of a call is checked as the invariant `RecursionConsumesInput` (each recursion consumes input) rather than as a liveness property.
- **Generated and JSON lexers:** `tokenize` is one synchronous loop, so `MCAllLexers` has weak fairness on `GenLexStep \/ GenLexEnd` and on `JsonStep \/ JsonEnd`. It states no fairness for the calculator lexer, whose liveness it does not check.

A client's API calls are not assumed to happen, so `Grammar` has no fairness.

## Assumptions

- `std::set` iteration over pointers is treated as an arbitrary order.
- The `const` overloads of `first_set`/`follow_set` declared in grammar.h have no definition in the repository. The model assumes they behave like the non-const ones.
- `get_terminals()` picks the terminal with the lowest address among those sharing a token type. The model lets it pick any of them, and the MC grammars give each terminal its own type.

## Not modelled

- The text of the generated files: the header layout, the AST classes, the test case, the CMake file and the file writing in `cpp_codegen.cpp` and `src/unnamed/part_007`. These are I/O. The generated parser and lexer are modelled by what their tables, rules and loops do.
- The numbering order of LR(0) states. The work list is LIFO and iterates over pointers, so ids depend on addresses. `CollectionIsCanonical` checks the collection only up to numbering.
- Regexes beyond a sequence of quantified character classes (alternation, groups, backtracking). No rule in the code uses them.
- `main` and the tests: I/O and fixed inputs.
- Which token type the generated lexer should give a text: rules are tried in pointer order, first match wins, and a literal `int`, `num`, `id` or `string` gets the regex of the token class of that name (cpp_codegen.cpp:1065, 1071). No text in the repository states the intended behaviour; the runs take every order and check positions and termination.
- Compile errors of the generated lexer (duplicate enumerators from `to_token_name`, a quote or raw newline in a literal): `CppStringValue` marks such a pattern, and the compiler's verdict is outside the models.
- Characters outside ASCII, for which `std::isspace` on a negative `char` is undefined (SimpleLexer.cpp:76).
- In `G4Parser`, `remove_comments` and the rule regex are not modelled. The model starts from the rules the regex finds. Two hazards sit below that level: comments that stay in the text because `$` has no multiline flag (SimpleLexer.h:311), and a literal `';'` ending a rule early (SimpleLexer.h:141). `G4Utils` only wraps `parse_file` and prints.
- Which action survives a table conflict: `create_lalr1_parser` refuses tables with conflicts, so the surviving action is never used.
- A `.g4` grammar fed to the driver: every G4 terminal has token type IDENTIFIER, so the driver cannot tell them apart (parser.cpp:70). No run composes the two.
- Printing and `to_string` (`token.cpp`): output only.
- The dangling `Grammar&` kept by `LALR1Parser` (`parser.cpp:210`): object lifetime is below the level of these models.

## Plan for later work

1. Composing the lexer with the driver: tokens from `Lexer` fed to `parse_internal`.
2. Composing `G4Parser` with `process_g4_file`: augment and table construction on the grammar it returns, including a file without parser rules, where the automaton indexes an empty production list.
3. Grammars whose terminals share a token type.
4. The calculator grammar of `create_calculator_parser`, which has `F -> F ^ F` and so conflicts.
5. A run showing that a literal terminal named like a token class (`'int'`) gets that class's regex in the generated lexer (cpp_codegen.cpp:1071).
