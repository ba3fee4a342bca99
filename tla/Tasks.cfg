SPECIFICATION TasksSpec
CONSTANTS Procs = {t1, t2, t3}
          Ops <- WakingOps
          Nothing = Nothing
          NoTask = NoTask
INVARIANTS Exclusion WordCounts NoMissedWakeup 
PROPERTIES ImplementsSharedLock AnswerExact WaitsEnd
