SPECIFICATION StoresSpec
CONSTANTS
  n1 = n1  n2 = n2
  NoRow = NoRow  NoNonce = NoNonce
  Callers = {c1, c2}
  Nonces <- TwoNonces
  Written <- MCWritten
  MaxCreates = 2
  MaxCalls = 3
  t1 = t1  t2 = t2
  Tenants <- TwoTenants
  Keys = {k1}
  Requests = {r1}
  MaxApprovals = 2
  MaxStreams = 2
  MaxEvents = 2
INVARIANTS OpenInWindow StoresAgree
PROPERTIES ImplementsLedger TenantsApart
SYMMETRY Symmetry
CHECK_DEADLOCK FALSE
