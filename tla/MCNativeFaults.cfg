SPECIFICATION Spec
CONSTANTS
  w1 = w1
  w2 = w2
  f1 = f1
  o1 = o1
  m1 = m1
  m2 = m2
  salt1 = salt1
  salt2 = salt2
  none = none
  None <- none
  Capacity = 2
  Frames <- OneFrame
  Workers <- OneWorker
  Outs <- OneOut
  Masters <- TwoMasters
  Salts <- OneSalt
  AesBits <- KeySizes
  MaxProcessors = 2
  Lens <- LensAll
  Faulty <- AllCalls
  Tampers <- AllFields
  MaxTasks = 3
  MaxFaults = 1
  MaxTampers = 1
CHECK_DEADLOCK FALSE
INVARIANTS
  TypeOK
  SealedFramesCorrect
  NoncesUnique
PROPERTIES
  IsEndpoint
  TasksAnswered
