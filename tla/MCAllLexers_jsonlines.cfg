CONSTANTS
  Lexers <- MCLexers
  Inputs <- MCInputs
  MaxDepth = 5
  GenGrammars <- MCGenGrammars
  GenInputs <- MCGenInputs
  LiteralNames <- MCLiteralNames
  JsonInputs <- MCJsonInputs
SPECIFICATION LexersSpec
INVARIANT JsonLexerReportsWhereItRead
