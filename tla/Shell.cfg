SPECIFICATION FairSpec
INVARIANTS StopsBeforeTarget LastExact
PROPERTY RunEnds
CHECK_DEADLOCK FALSE
