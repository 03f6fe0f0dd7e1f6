SPECIFICATION FairSpec
CONSTANTS
  Used <- MCUsed
  Indexes = {0, 1}
  Words = 2
  Loads <- MCLoads
  Stores <- MCStores
  Devices = TRUE
  Snooped <- MCSnooped
  Written <- MCWritten
  Fences <- MCFences
  Windows = {}
INVARIANTS TypeOK LoadsSeeTheLatest SnoopsSeeTheLatest NoStartIsLost NothingIsLost DirtyLinesTracked
PROPERTIES Answered FencesEnd
