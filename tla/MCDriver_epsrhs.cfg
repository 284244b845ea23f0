CONSTANTS
  Grammars <- MCEpsilonRhsGrammars
  Inputs <- MCInputs
SPECIFICATION DriverSpec
PROPERTY ImplementsRecognizer
CHECK_DEADLOCK FALSE
