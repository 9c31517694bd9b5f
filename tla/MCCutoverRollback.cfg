SPECIFICATION Spec
CONSTANTS
  i1 = i1  i2 = i2  i3 = i3
  r1 = r1  r2 = r2
  Inserts = {i1, i2}
  Cutovers = {k1}
  Records = {r1, r2}
  Keys = {r1}
  Absent = Absent
  Careless = {}
  RecordOf <- MCRecordOfTwo
  OptionsOf <- MCOptionsOfTwo
  PoolMax = 2
INVARIANT RollbackHolds
CHECK_DEADLOCK FALSE
