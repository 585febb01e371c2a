SPECIFICATION PathSpec
CONSTANTS
  s1 = s1
  s2 = s2
  Securities = {s1, s2}
  SubTypes <- MCSubTypes
  Absent = Absent
  Malformed = Malformed
  NotMap = NotMap
  MaxEntries = 2
  Files <- MCFiles
  MarketOf <- MCMarketOf
  PushesOf <- MCPushesOf
INVARIANTS
  CurrentIsConfig
  
  DiffIsMinimal
  ColumnsAreFields
  WholePushOrError
CHECK_DEADLOCK FALSE
