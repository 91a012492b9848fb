CONSTANTS
  Kind = {"ranking"}
  MaxFits = 2
  MaxSearched = 1
  MaxRestarts = 1
  Spread = 10
SPECIFICATION SyncSpec
INVARIANTS LabelNotBehind
PROPERTIES LabelsConverge PulledIsUsed
