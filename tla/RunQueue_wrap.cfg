SPECIFICATION Spec
CONSTANTS Workers = {w1, w2}
          Tasks = {a, b, c}
          N = 2
          Wrap = 16
          Start = 15
          PushLimit = 5
          None = None
SYMMETRY Symmetry
INVARIANT ExactlyOnce
CHECK_DEADLOCK FALSE
