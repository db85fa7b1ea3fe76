CONSTANTS
  Dictionaries <- MCDictionaries
  Texts <- MCTexts
SPECIFICATION Spec
CHECK_DEADLOCK FALSE
INVARIANT FilterMasks
