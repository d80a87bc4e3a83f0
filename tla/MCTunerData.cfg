CONSTANTS
  Event = {svrlistint, annoint}
  svrlistint = svrlistint
  MaxVersion = 2
  DefaultList <- MCDefaultList
  BandIII <- MCBandIII
  Service <- MCService
  Property <- MCProperty
  Leftover <- MCLeftover
  Station <- MCStation
  Numeral <- MCNumeral
  MaxFaults = 3
SPECIFICATION DataSpec
INVARIANTS
  DataInv
  TunedAsListed
  ReadBackAsSet
  StartedOrZero
  EachBitOnce
  ShownWasAnswered
PROPERTIES
  OnlyLateOnesAreMissed
  ShownOnce
