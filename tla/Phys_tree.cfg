SPECIFICATION PhysSpec
CONSTANTS Procs = {p1}
          NodeCount = 5
          P = 1
          Values = {0, 1}
          Lens = {}
          RootCow = FALSE
          NoEntry = NoEntry
          Ops <- TreeOps
INVARIANT TreeSound
CHECK_DEADLOCK FALSE
