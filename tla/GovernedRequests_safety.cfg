SPECIFICATION Spec
CONSTANTS
  r1 = r1
  r2 = r2
  q1 = q1
  q2 = q2
  q3 = q3
  Runs = {r1, r2}
  Requests = {q1, q2, q3}
  RunOf <- MCRunOf
  NoRequest = NoRequest
  Callers = {c1, c2}
  Liability <- MCLiability
  MaximumRequests = 1
  Authorized = 2
  MaxClaims <- MCMaxClaims
SYMMETRY Symmetry
INVARIANTS
  AccountBalances
  WithinAuthority
  SentAtMostOnce
  SentIsAccounted
  RequestsWithinAuthority
PROPERTY
  ImplementsLedger
