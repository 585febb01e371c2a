SPECIFICATION Spec
CONSTANTS
  s1 = s1
  s2 = s2
  s3 = s3
  t1 = t1
  t2 = t2
  Securities = {s1, s2, s3}
  SubTypes = {t1, t2}
  Files <- MCFiles
  Unreadable = Unreadable
  Missing = Missing
  Times = {1, 2}
  MaxConnects = 2
  MaxRejects = 1
INVARIANTS
  Synced
