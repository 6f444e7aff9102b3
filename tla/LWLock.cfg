SPECIFICATION Spec
CONSTANTS
  p1 = p1
  Procs = {p1, p2, p3}
  LW_VAL_EXCLUSIVE = 4
  InitUses = {"insert", "write"}
  MaxCalls = 3
  MaxVal = 1
  MaxSignals <- OneSignal
CHECK_DEADLOCK FALSE
INVARIANTS TypeOK MutualExclusion SignalsKept NoLostWakeup NeverPanics VarNoticed
PROPERTIES CallsReturn
