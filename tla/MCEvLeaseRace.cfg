SPECIFICATION Spec
CONSTANTS
  Receivers = {"transport"}
  ClockMod = 11
  Lease = 4
  MaxDelay = 1
  PumpGap = 2
PROPERTY ExpiresOnlyWhenIdle
