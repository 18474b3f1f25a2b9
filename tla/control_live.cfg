SPECIFICATION Spec
CONSTANTS
  Freqs = {1, 2}
  MaxOpens = 2
  MaxCommands = 2
  MaxReports = 0
  MaxTurns = 1
  MaxFaults = 1
  Reconfigures = FALSE
  Closes = FALSE
PROPERTY DisplayAgrees
PROPERTY PttOffObeyed
CHECK_DEADLOCK FALSE
