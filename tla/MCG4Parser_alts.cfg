CONSTANT Files <- MCFiles
SPECIFICATION G4Spec
INVARIANT AlternativesAsWritten
CHECK_DEADLOCK FALSE
