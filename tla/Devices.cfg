SPECIFICATION Spec
CONSTANTS NoOp = NoOp
          NoTask = NoTask
INVARIANTS QueuesSound  
 
