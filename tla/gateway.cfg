SPECIFICATION Spec
CONSTANTS
  c1 = c1  c2 = c2  t1 = t1  t2 = t2  k1 = k1
  NoTxn = NoTxn
  Callers <- TwoCallers
  Tenants <- TwoTenants
  Keys <- OneKey
  Setups <- MCSetups
  MaxRequests = 3
  MaxCrashes = 1
INVARIANTS RefusedNoEffect NotFoundIsForeign
PROPERTIES ImplementsContract
SYMMETRY Symmetry
CHECK_DEADLOCK FALSE
