SPECIFICATION Spec
CONSTANTS
  LastDay = 4
  Window = 2
  Weekdays = {1, 2, 4}
  DayNumbers <- MCDayNumbers
  Agents = {a1}
  Ranges <- MCRanges
  Years <- MCYears
  MaxFaults = 1
INVARIANTS
  TypeOK
  RecomputedFlags
  SpikesHaveHistory
  AgreesWithTagger
