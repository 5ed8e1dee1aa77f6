\* One run after another over eight files and twelve command lines.
SPECIFICATION Spec
CONSTANTS
  Plain <- MCPlain
  Threshold <- MCThreshold
  PlainValue <- MCPlainValue
  PlainDefault <- MCPlainDefault
  MaxTomlInteger = 1000000000
  Files <- MCFiles
  CommandLines <- MCCommandLines
INVARIANTS SettingsTypeOK FlagsStand PrintedStands
PROPERTIES EditsStayLocal TemplateSpares
