SPECIFICATION Spec
CONSTANTS
  Cap = 4
  MaxItems = 6
  Values = {1, 2, 3, 4, 5, 6}
  Null = Null
  Producer = Producer
  Consumer = Consumer
INVARIANTS
  TypeOK
  BlockLosesNothing
  DropsOnlyOldest
  NoDoubleDelivery
PROPERTIES
  EnqueueReturns
