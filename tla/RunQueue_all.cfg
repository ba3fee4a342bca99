SPECIFICATION Spec
CONSTANTS Workers = {w1, w2}
          Tasks = {a, b, c, d, e}
          N = 4
          Wrap = 16
          Start = 13
          PushLimit = 5
          None = None
SYMMETRY Symmetry
INVARIANTS ExactlyOnce RingSound
PROPERTY ImplementsStealQueues
CHECK_DEADLOCK FALSE
