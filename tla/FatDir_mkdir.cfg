SPECIFICATION MkdirSpec
CONSTANTS None = None
          NoEnd = NoEnd
INVARIANT NoPanic
CHECK_DEADLOCK FALSE
