CONSTANTS
  Grammars <- MCGrammars
  Inputs <- MCInputs
SPECIFICATION CodegenSpec
INVARIANTS
  DriverTypeOK
  AcceptReturnsParseTree
  GenTypeOK
  ActionCodesDecode
PROPERTIES
  ImplementsRecognizer
  GeneratedImplementsRecognizer
CHECK_DEADLOCK FALSE
