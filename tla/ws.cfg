SPECIFICATION FairSpec
CONSTANTS
  Lengths <- Boundaries
  Fill = 34
INVARIANTS TypeOK OneWriter InSync PongMatchesPing
PROPERTIES ImplementsConnection GivesUpOnlyOnTooLong ReaderEnds CallsReturn
