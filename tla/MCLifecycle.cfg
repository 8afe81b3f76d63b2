\* Two processes, five files to begin with and to put there in between.
CONSTANTS
  Edits <- MCEdits
  MaxStarts = 2
SPECIFICATION FairSpec
INVARIANT OnlyKnownMisuse
INVARIANT SettingsSurvive
PROPERTY QuitEnds
