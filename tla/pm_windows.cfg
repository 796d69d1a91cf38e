SPECIFICATION PmSpec
CONSTANTS
  Entry <- TwoEntries
  MinutesPer15Min = 2
  MinutesPerHour = 2
  HoursPerDay = 2
  FirstMinute <- Begin
  LastMinute = 8
  MaxPolls = 4
INVARIANTS PmTypeOK NothingLostOrDoubled CompleteIsWhole
CHECK_DEADLOCK FALSE
