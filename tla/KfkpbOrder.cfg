SPECIFICATION Spec
CONSTANTS
  Topics = {ticker}
  Keys = {key}
  None = None
  Workers = 2
  WorkerOf <- MCWorkerOf
  RawCap = 1
  EvtCap = 1
  SocketCap = 1
  MaxMessages = 2
  MaxSubscribes = 1
INVARIANTS TypeOK  
CHECK_DEADLOCK FALSE
