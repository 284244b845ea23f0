CONSTANT Grammars <- MCQuotedGrammars
SPECIFICATION TableSpec
INVARIANT AcceptOnlyForAugmentedItem
CHECK_DEADLOCK FALSE
