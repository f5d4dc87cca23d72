SPECIFICATION Spec
CONSTANTS
  x1 = x1
  x2 = x2
  p0 = p0
  p1 = p1
  Tones = {x1, x2}
  Pins = {p0, p1}
  Pin0 = p0
  TimerOrder <- Order
  Frequencies = {1, 25}
  Durations = {0, 3}
  Byte = 2
  F_CPU = 200
  Second = 2
  Voices = 1
  BYTE = 8
  WATCHDOG_TIMEOUT_SECONDS = 5
INVARIANTS TonesAreRight NoEarlyReset
PROPERTIES HungLoopsReset TonesEnd
