CONSTANTS
  Ids = {i1,i2}
  w1 = w1
  t1 = t1
  Kinds <- MixedKinds
  Windows = {w1}
  Callers = {c1}
  Loops = {l1}
  None = None
SPECIFICATION Spec
INVARIANT PendingIsAnswerable
INVARIANT PanelIsWatched
INVARIANT TypeOK
PROPERTY UIHearsTheEnd
PROPERTY KeepsPromise
PROPERTY AnswerReturns
PROPERTY ClosedUIRejects
