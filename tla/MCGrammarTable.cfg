CONSTANTS
  NonterminalBases <- MCNonterminalBases
  TerminalBases <- MCTerminalBases
  TokenKinds <- MCTokenKinds
  MaxPrimes = 1
  MaxProductions = 2
  MaxRhsLength = 2
  Grammars <- MCGrammars
SPECIFICATION GrammarTableSpec
INVARIANTS
  GrammarTypeOK
  SetAnalysisMatchesReference
  CachesCoherent
  TypeOK
  CollectionIsCanonical
  TableTypeOK
  TableIsSLR
PROPERTY ConstructionTerminates
CHECK_DEADLOCK FALSE
