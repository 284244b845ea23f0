------------------------------- MODULE MCLexer ------------------------------
(* create_calculator_lexer on every input of up to three characters over  *)
(* a letter, a digit, '.', a blank, a newline, '+' and '@' (which no rule *)
(* matches); and a lexer with the keyword "ab" added before those rules.   *)
EXTENDS Lexer

MCChars == {"a", "1", ".", "sp", "nl", "+", "@"}
MCInputs == UNION {[1..n -> MCChars] : n \in 0..3}

MCLexers == {CreateCalculatorLexer}

MCKeywordLexers == {AddKeyword(<<>>, <<"a", "b">>, "CUSTOM_START") \o CreateCalculatorLexer}
MCKeywordInputs == UNION {[1..n -> {"a", "b", "sp"}] : n \in 0..3}
=============================================================================
