SPECIFICATION Spec
CONSTANTS
  Pid = {p1}
  Gen = {g1}
  Conn = {c1, c2}
  Text = {t1}
  Pattern = pattern
  Nil = nil
  StaleReadable = TRUE
SYMMETRY Symmetry
VIEW NoStatus
INVARIANTS
  TypeOK
  HandlesAccountedFor
  SocketsAccountedFor
  LinkMatchesLayout
  SuppressionIsSound
  AtMostOneLateFrame
  TestOverMeansClosed
  EngineInv
PROPERTY ImplementsOutput
