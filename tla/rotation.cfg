SPECIFICATION RequestsSpec
CONSTANTS
  ta = ta  tb = tb  a1 = a1  a2 = a2  b1 = b1  s1 = s1  r1 = r1  r2 = r2
  Tenants <- MCTenants
  Accounts <- MCAccounts
  Home <- MCHome
  Roles = {"customer", "admin"}
  Threads <- MCThreads
  Owner <- MCOwner
  Replicas <- MCReplicas
  Callers = {c1}
  Nobody = Nobody
  Configurations <- NamedKeys
  Memberships <- MCMemberships
  MaxTokens = 1
  MaxChanges = 2
  MaxAge = 1
  MaxKeys = 2
  u1 = u1  u2 = u2  i1 = i1
  Users <- TwoUsers
  Addresses <- OneAddress
  Processes <- MCReplicas
  Window = 2
  AccountLimit = 1
  IpLimit = 2
  MaxFailures = 1
  BackoffBase = 1
  BackoffMax = 2
  MaxLost = 1
INVARIANTS OldTokensValid
CHECK_DEADLOCK FALSE
SYMMETRY Symmetry
