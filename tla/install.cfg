\* Ten memory maps, and two functions near or far, with even and odd addresses.
CONSTANTS
  s_MaxModules = 5
  Self = "self"
  Maps <- MCMaps
  ProcessInput = ProcessInput
  nvnBootstrapLoader = nvnBootstrapLoader
  Function <- MCFunction
  FunLen = 6
  HookMax = 3
  Plan <- MCPlan
SPECIFICATION Spec
INVARIANTS FindsEveryModule SlotsApart CallsAsInstalled
PROPERTY CallReturns
\* An aborted program stays so.
CHECK_DEADLOCK FALSE
