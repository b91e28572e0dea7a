CONSTANTS
  Requests = {q1}
  Contexts = {c1, c2}
  None = None
  RolesOf <- Accounts
  Scenarios <- LoseIdentity
  Creds <- MCCreds
  Inputs <- LoseInputs
SPECIFICATION Spec
INVARIANT IdentityReachesHandler
