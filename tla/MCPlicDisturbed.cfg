SPECIFICATION Spec
CONSTANTS
  NumSrc = 2
  MaxPrio = 2
  ConfigWrites <- MCConfigWrites
  ClaimsUndisturbed = FALSE
INVARIANT ClaimMatches
