SPECIFICATION FairSpec
CONSTANTS
  NumCh = 2
  BurstLen = 2
  Sources = {"a"}
  Copies <- MCCopies
  Pairs <- MCPairs
  Jobs <- MCJobs
  BufLen = 6
  MaxCalls = 2
  MaxFaults = 1
INVARIANTS TypeOK OneReaderOneWriter ReturnsTruth WritesStayInBurst
PROPERTY CallsComplete
