SPECIFICATION StartSpec
CONSTANTS
  Definitions <- MCDefinitions
  Builders <- MCBuilders
  Optional <- MCOptional
  Faulty <- MCFaulty
  Makes <- MCMakes
  Sources <- MCSources
  Reconfigured <- MCReconfigured
  Redeployed <- MCRedeployed
  Requests <- MCRequests
  StepContexts <- MCStepContexts
  Promotions <- MCPromotions
  Exact = 1048576
  MaxLaunches = 3
  MaxSteps = 2
INVARIANTS
  BuildSound
  BuildExact
  RequestFindsInstance
  ResolvesAlike
CHECK_DEADLOCK FALSE
