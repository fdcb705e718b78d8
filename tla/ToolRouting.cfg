SPECIFICATION Spec
CONSTANTS
  Callers = {c1, c2}
  c1 = c1
  c2 = c2
  Absent = Absent
  Nowhere = Nowhere
  Servers <- AllServers
  Offered <- Bindings
  Restrictable = {"mcp-atlassian"}
  Deployments <- AllDeployments
SYMMETRY AnyCaller
INVARIANT
  AdvertisedIsServed
  ReadOnlyIsUntouched
  OneServerPerCall
  NothingAfterClose
CHECK_DEADLOCK FALSE
