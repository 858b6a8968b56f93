SPECIFICATION Spec
CONSTANTS
  Thread = {t1, t2}
  NoThread = NoThread
  MaxLive = 2
  MaxDepth = 2
  MaxWindows = 2
SYMMETRY Threads
INVARIANTS
  OneThreadMeasures
  ArmedWhileOpen
  WindowsSeeTheAllocator
  AnswersAreTrue
