SPECIFICATION SyncSpec
CONSTANTS Procs = {t1, t2, t3}
          Null = Null
INVARIANTS MutualExclusion WordCounts NoLostWakeup
           OneshotSafe  PermitsConserved NoUseAfterFree OneOwner
PROPERTIES SlowPathServed ImplementsLock 
