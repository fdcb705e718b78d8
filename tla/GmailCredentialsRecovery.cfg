SPECIFICATION CredentialsFairSpec
CONSTANTS
  c1 = c1
  c2 = c2
  authorise = authorise
  g1 = g1
  g2 = g2
  g3 = g3
  g4 = g4
  Tasks <- TwoTasks
  Command = authorise
  Grants <- ThreeGrants
  Lifetime = 2
  Margin = 1
  MaxDelay = 1
  MaxMishaps = 1
INVARIANTS
  GivenTokenIsAlive
PROPERTY
  ConsentIsRecoverable
