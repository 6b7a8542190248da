SPECIFICATION FairSpec
CONSTANT LIMIT = 3
INVARIANTS ConnectedTrue OpeningAlive RetryComing
PROPERTIES GivesUp
