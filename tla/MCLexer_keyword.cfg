CONSTANTS
  Lexers <- MCKeywordLexers
  Inputs <- MCKeywordInputs
  MaxDepth = 5
SPECIFICATION LexerSpec
INVARIANT KeywordLexedAsKeyword
