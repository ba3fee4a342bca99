SPECIFICATION PhysSpec
CONSTANTS Procs = {p1, p2}
          NodeCount = 5
          P = 1
          Values = {0, 1}
          Lens = {}
          RootCow = FALSE
          NoEntry = NoEntry
          Ops <- PrivateOps
INVARIANT ReadsRight
CHECK_DEADLOCK FALSE
