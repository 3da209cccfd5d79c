CONSTANTS
  b60 = b60
  b70 = b70
  Cards <- MCCards
  First <- MCFirst
  Counters <- MCCounters
  Order <- MCOrder
  Provided <- MCProvided
  Modules <- MCModules
  HistLen = 2
  Nothing = Nothing
  MaxTime = 1
  MaxEvents = 3
SPECIFICATION FairSpec
INVARIANT TypeOK
PROPERTY RatesOfOneCard
PROPERTY ItemTogglesItsTile
PROPERTY CatchesUp
