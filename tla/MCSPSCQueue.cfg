SPECIFICATION Spec
CONSTANTS
  Cap = 4
  a = a
  b = b
  c = c
  Values = {a, b, c}
  Null = Null
  Producer = Producer
  Consumer = Consumer
INVARIANTS
  IInv
  NoDataRace
  
PROPERTIES
  ImplementsFIFO
  ItemsAreServed
