\* Ticks, lost reports, reloads and restarts, over all levels and styles.
SPECIFICATION Spec
CONSTANTS
  Margin <- MCMargin
  MaxValueChars = 14
  Sample <- MCSample
  Setting <- MCSetting
  MaxSamples = 5
INVARIANTS TypeOK ShowsOneReport HistoryIsRecent HistoryShowsNow ReadingsAreWhole
PROPERTIES NoFlicker
\* The samples are bounded.
CHECK_DEADLOCK FALSE
