CONSTANTS
  N = 3
  Own = {3}
  FailAfter = 3
  RecoverAfter = 2
  MaxFaults = 2
  MaxRestarts = 1
SPECIFICATION FairSpec
INVARIANTS RulesMatch HoleWhenNoneAnswers
PROPERTIES TakesBack
