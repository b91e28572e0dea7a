CONSTANTS
  Requests = {q1, q2}
  Contexts = {c1, c2, c3, c4}
  None = None
  RolesOf <- Accounts
  Scenarios <- MCScenarios
  Creds <- MCCreds
  Inputs <- MCInputs
SYMMETRY Symmetry
SPECIFICATION Spec
INVARIANTS
  TypeOK
  ContextsExclusive
  NoCrossTalk
  HandlerGuarded
  OneAnswer
  AccessLog
  AnswersAsAlone
