SPECIFICATION Spec
CONSTANTS
  Lengths <- With127
  Fill = 34
PROPERTY GivesUpOnlyOnTooLong
