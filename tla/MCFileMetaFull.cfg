SPECIFICATION LiveSpec
CONSTANTS
  Eps = {e1, e2}
  Stale = 1
  NoListing = NoListing
PROPERTY LabelsBecomeFull
