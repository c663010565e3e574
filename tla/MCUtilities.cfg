CONSTANTS
  FirstYear = 1900
  LastYear = 2299
  FirstJulianDay = 2415021
  FirstWeekDay = 1
  ZoneFiles <- MCZoneFiles
  Offsets <- MCOffsets
  Seconds = {0, 1, 2, 3, 4, 5}
  BuffSize = 2
  MaxSizes = {0, 3, 5}
  MaxFile = 5
  MaxChanges = 2
SPECIFICATION UtilitiesSpec
INVARIANTS DateIsCalendar FindsLocalTime ReadExact
 
CHECK_DEADLOCK FALSE
