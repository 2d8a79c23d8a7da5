CONSTANTS
  Autos = {1, 2}
  Kind <- MCKind
  Span <- MCSpan
  Runners = {r1, r2}
  Ops = {o}
  None = none
  Missing = missing
  Gone = gone
  MaxTime = 2
  MaxCommands = 1
  MaxFaults = 1
SPECIFICATION LiveSpec
INVARIANT FiresAreDue
INVARIANT FiresAreOnRecord
PROPERTY DueFires
CHECK_DEADLOCK FALSE
