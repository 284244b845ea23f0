CONSTANTS
  Lexers <- MCLexers
  Inputs <- MCInputs
  MaxDepth = 5
  GenGrammars <- MCGenGrammars
  GenInputs <- MCGenInputs
  LiteralNames <- MCLiteralNames
  JsonInputs <- MCJsonInputs
SPECIFICATION LexersSpec
INVARIANTS
  LexerTypeOK
  PositionsAgreeWithInput
  RecursionConsumesInput
  GenLexerTypeOK
  GeneratedLiteralPatternFaithful
  GeneratedLexerReportsWhereItRead
  JsonLexerTypeOK
PROPERTIES
  PeekAgreesWithNext
  GenTokenizeReturns
  JsonTokenizeReturns
