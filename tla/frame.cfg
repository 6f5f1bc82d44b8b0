SPECIFICATION FairSpec
CONSTANTS
  Width = 3
  Pairs = 1
  Glyph <- MCGlyph
  End = 0
  Space = " "
  Square = "square"
  Trailing = {" ", "tab"}
  White = {" ", "tab", "wide"}
  Choices <- MCChoices
  Messages <- MCMessages
  None = none
INVARIANTS PageIsShown MessageIsShown
PROPERTY TornFrameRepaired
