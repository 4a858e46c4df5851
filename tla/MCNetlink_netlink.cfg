SPECIFICATION Spec
CONSTANTS
  Short = 1
  Long = 1
  SeqMod = 3
  MaxQueue = 1
  MaxChanges = 1
  MaxTalks = 2
  MaxFaults = 2
PROPERTIES
  AnswersAreOwn
  FollowsKernel
