CONSTANTS
  Kind = {"ranking"}
  MaxFits = 2
  MaxSearched = 0
  MaxRestarts = 0
  Spread = 10
SPECIFICATION SyncSpec
PROPERTY ModelsConverge
