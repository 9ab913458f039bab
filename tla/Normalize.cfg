SPECIFICATION Spec
CONSTANTS
  K = 4
  Low = 1
  FirstSecond = 2
  MaxInt = 255
  Configs <- SampleConfigs
  Instants <- SampleInstants
  Lines <- SampleLines
  Bounds <- SampleBounds
INVARIANTS
  IdentityKept
  TimeAsStated
  ServiceBelieved
  NothingLostButTheBound
CHECK_DEADLOCK FALSE
