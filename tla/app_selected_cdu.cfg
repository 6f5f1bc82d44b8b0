SPECIFICATION AppSpec
CONSTANTS
  Pid = {p1}
  Gen = {g1}
  Conn = {c1, c2}
  Text = {t1}
  Pattern = pattern
  Nil = nil
  StaleReadable = FALSE
ACTION_CONSTRAINT FlightEvents
INVARIANT SelectedCduUsed
