CONSTANTS
  Grammars <- MCGrammars
  Inputs <- MCInputs
SPECIFICATION CodegenSpec
INVARIANTS
  GeneratedTreeMatches
CHECK_DEADLOCK FALSE
