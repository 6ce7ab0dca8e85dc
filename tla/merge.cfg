SPECIFICATION Spec
CONSTANTS
  Keys = {1, 2, 3}
  NumSources = 3
  Entries <- MCEntries
  Ranges <- MCRanges
INVARIANTS
  MergesNewest
  LiveShowsNewest
PROPERTY
  Drains
CHECK_DEADLOCK FALSE
