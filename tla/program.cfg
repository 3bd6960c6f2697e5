\* The command line, the threads and SIGINT.
SPECIFICATION FairSpec
CONSTANTS
  Words <- AllWords
  MaxArgs = 4
INVARIANTS
  OptionsAsGiven StartsInRanges NoThreadIsLeft EndsForAReason
PROPERTIES
  TakesTurns ServerEnds
