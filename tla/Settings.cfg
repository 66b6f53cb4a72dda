\* Two receivers, three lines of any session.
CONSTANTS
  NRx = 2
  Nyquist = 10
  Apart = 3
  DefaultMode = 1
  Measure = FALSE
  MaxCommands = 3
  Sessions <- MCSessions
  Arguments <- MCArguments
SPECIFICATION SettingsSpec
INVARIANT TellsLatest
INVARIANT InstalledAsTold
PROPERTY RefusedChangesNothing
CHECK_DEADLOCK FALSE
