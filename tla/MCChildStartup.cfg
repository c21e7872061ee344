SPECIFICATION FairSpec
INVARIANTS NothingOutsideLeaf QuietMeansEmpty
PROPERTIES OrphansDie KillEndsTree
CHECK_DEADLOCK FALSE
