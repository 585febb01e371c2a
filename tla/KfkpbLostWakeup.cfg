SPECIFICATION Spec
CONSTANTS
  Topics = {ticker}
  Keys = {key}
  None = None
  Workers = 1
  WorkerOf <- MCWorkerOf
  RawCap = 1
  EvtCap = 1
  SocketCap = 2
  MaxMessages = 1
  MaxSubscribes = 1
PROPERTIES IsDecoded
CHECK_DEADLOCK FALSE
