CONSTANTS Chain = {c1, c2}
          Write = {w1, w2}
          MaxDepth = 3
          MaxStack = 4
SPECIFICATION Spec
SYMMETRY Symmetry
CHECK_DEADLOCK FALSE
INVARIANTS
  DepthCountsCalls
  OutcomeIsAsTold
PROPERTIES
  ImplementsScope
