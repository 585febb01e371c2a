SPECIFICATION Spec
CONSTANTS
  Topics = {ticker}
  Keys = {key}
  None = None
  Workers = 1
  WorkerOf <- MCWorkerOf
  RawCap = 1
  EvtCap = 1
  SocketCap = 1
  MaxMessages = 1
  MaxSubscribes = 2
INVARIANTS AppliedUnlessOvertaken KnownUnlessReplaced
PROPERTIES DecodedUnlessMissed EventsAreDrained CloseReturnsUnlessMissed
CHECK_DEADLOCK FALSE
