SPECIFICATION Spec
CONSTANTS
  w1 = w1
  w2 = w2
  f1 = f1
  o1 = o1
  m1 = m1
  m2 = m2
  salt1 = salt1
  salt2 = salt2
  none = none
  None <- none
  Capacity = 2
  Frames <- OneFrame
  Workers <- TwoWorkers
  Outs <- OneOut
  Masters <- OneMaster
  Salts <- TwoSalts
  AesBits <- KeySizes
  MaxProcessors = 1
  Lens <- LensTwo
  Faulty <- NoCalls
  Tampers <- NoFields
  MaxTasks = 4
  MaxFaults = 0
  MaxTampers = 0
CHECK_DEADLOCK FALSE
INVARIANT
  IntactFramesOpen
PROPERTY
  IsEndpoint
