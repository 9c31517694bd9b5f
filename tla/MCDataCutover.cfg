SPECIFICATION LiveSpec
CONSTANTS
  i1 = i1  i2 = i2  i3 = i3
  r1 = r1  r2 = r2
  Inserts = {i1, i2, i3}
  Cutovers = {k1}
  Records = {r1, r2}
  Keys = {r1}
  Absent = Absent
  Careless = {i2}
  RecordOf <- MCRecordOf
  OptionsOf <- MCOptionsOf
  PoolMax = 2
INVARIANTS AllOrNothing AnswerTellsRecord RecordedOnce GateKept
PROPERTY EveryCallEnds
CHECK_DEADLOCK FALSE
