SPECIFICATION FairSpec
CONSTANTS
  NumSrc = 2
  MaxPrio = 2
  ConfigWrites <- MCConfigWrites
  ClaimsUndisturbed = TRUE
INVARIANTS TypeOK ScanIsArbitration NotPendingInService ClaimMatches HeldIsInService
PROPERTY FavouredServed
