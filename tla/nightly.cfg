\* A day of six ticks, naps of one, and a goroutine that is never late.
SPECIFICATION Spec
CONSTANTS
  Day = 6
  Two = 2
  Nap = 1
  Punctual = TRUE
PROPERTY
  NightlySyncRuns
