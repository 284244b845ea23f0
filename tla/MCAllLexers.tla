------------------------------ MODULE MCAllLexers ------------------------------
(* The three lexers of the repository, one per behaviour: the calculator  *)
(* lexer of lexer.cpp (over MCLexer's inputs), the lexer cpp_codegen.cpp   *)
(* emits, and the JSON SimpleLexer.  Which one a behaviour runs is chosen *)
(* at the start; they share no state.                                      *)
EXTENDS MCLexer, GenLexer, JsonLexer

LOCAL SX == INSTANCE SequencesExt

VARIABLE lexer   \* "calculator", "generated" or "json"

allLexerVars == <<lexVars, genVars, jsonVars, lexer>>

\* Grammars with a NUM token and '+'; with '=', '==' and ID (the order of
\* the two literals decides how '==' lexes); with the keyword 'if', ID and
\* a literal '$' (which gets no rule); and with the keyword 'int' and STRING
MCGenGrammars ==
  {{<<"+">>, <<"N", "U", "M">>},
   {<<"=">>, <<"=", "=">>, <<"I", "D">>},
   {<<"i", "f">>, <<"I", "D">>, <<"$">>},
   {<<"i", "n", "t">>, <<"S", "T", "R", "I", "N", "G">>}}
\* Inputs for the generated lexers: sums, '=' against '==', the keyword
\* against an identifier, whitespace and newlines before tokens, strings
\* (one holding a newline, which the counting loop steps over), an
\* unterminated quote, a character no rule matches, and the empty input
MCGenInputs ==
  {<<>>, <<"1", "+", "1">>, <<"=", "=">>, <<"=", "sp", "=">>, <<"i", "f">>,
   <<"i", "f", "1">>, <<"f", "i">>, <<"sp", "nl", "1">>, <<"1", "nl", "+">>,
   <<"nl", "nl", "=">>, <<"dq", "i", "dq">>, <<"dq", "nl", "dq">>, <<"dq", "1">>,
   <<"@", "1">>, <<"i", "@", "f">>, <<"1", "sp", "sp">>}

\* Literal bodies over a letter, n, two regex operators, a bracket, the
\* backslash and both quotes
MCLiteralNames == SX!BoundedSeq({"a", "n", "+", ".", "(", "bs", "'", "dq"}, 3)

\* JSON inputs: strings with escapes and with a raw newline (which the
\* string regex accepts), numbers, keywords, whitespace runs and
\* characters no pattern matches
MCJsonInputs ==
  {<<>>, <<"{", "sp", "}">>, <<"dq", "a", "dq">>, <<"dq", "bs", "dq", "dq">>,
   <<"dq", "bs", "a", "dq">>, <<"dq", "a">>, <<"dq", "bs", "nl", "dq">>,
   <<"0", "1">>, <<"-", "1">>, <<"-", "a">>, <<"1", ".">>, <<"-", "0", ".", "1">>,
   <<"1", "e", "-", "1">>, <<"1", "e", "sp">>, <<"sp", "nl", "1">>,
   <<"{", "nl", "a">>, <<"tab", "nl", "nl">>, <<"t", "r", "u", "e">>,
   <<"t", "r", "u", "e", "a">>, <<"n", "u", "l", "l", "1">>, <<"dq", "nl", "dq">>,
   <<"dq", "nl", "dq", "1">>}

LexersInit ==
  /\ LexerInit /\ GenLexInit /\ JsonInit
  /\ lexer \in {"calculator", "generated", "json"}

LexersNext ==
  \/ lexer = "calculator" /\ LexerNext /\ UNCHANGED <<genVars, jsonVars, lexer>>
  \/ lexer = "generated" /\ GenNext /\ UNCHANGED <<lexVars, jsonVars, lexer>>
  \/ lexer = "json" /\ JsonNext /\ UNCHANGED <<lexVars, genVars, lexer>>

\* The fairness of the two lexers whose termination this run checks (the
\* calculator lexer's liveness is not a property here)
LexersSpec ==
  /\ LexersInit /\ [][LexersNext]_allLexerVars
  /\ WF_genVars(GenLexStep \/ GenLexEnd) /\ WF_jsonVars(JsonStep \/ JsonEnd)
=============================================================================
