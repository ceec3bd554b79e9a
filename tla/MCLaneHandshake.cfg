SPECIFICATION FairSpec
CONSTANTS
  LAT = 3
  MaxItems = 6
INVARIANTS
  TypeOK
  Conservation
PROPERTIES
  TakenInOrder
  ImplementsDelayLine
  EventuallyPresented
