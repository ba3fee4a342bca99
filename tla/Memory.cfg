SPECIFICATION MemorySpec
CONSTANTS Procs = {p1}
          NodeCount = 3
          P = 2
          Values = {0, 1}
          Lens = {1}
          RootCow = FALSE
          Ops <- SliceOps
          NoEntry = NoEntry
INVARIANTS LeafReads RangesExact WalkExact 
CHECK_DEADLOCK FALSE
