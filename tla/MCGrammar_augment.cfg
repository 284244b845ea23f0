CONSTANTS
  NonterminalBases <- MCNonterminalBases
  TerminalBases <- MCTerminalBases
  TokenKinds <- MCTokenKinds
  MaxPrimes = 1
  MaxProductions = 2
  MaxRhsLength = 2
SPECIFICATION GrammarSpec
PROPERTY AugmentCreatesFreshStart
