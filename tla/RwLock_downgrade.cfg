SPECIFICATION Spec
CONSTANTS Procs = {t1, t2}
          Ops <- AllOps
INVARIANT NoLostWakeup
