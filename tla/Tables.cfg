SPECIFICATION TablesSpec
CONSTANTS NumWorkers = 2
          Tasks = {m, a, b, c}
          Main = m
          N = 2
          Interval = 1
          None = None
INVARIANTS OnePlace PagesSound  LruSound DescriptorsSound
PROPERTY ImplementsLru
CHECK_DEADLOCK FALSE
