CONSTANTS
    Saves = {s1, s2, s3}
SPECIFICATION FairSpec
INVARIANTS TypeOK LeftOutOnlyBySaves DatedOnceReady
PROPERTIES PublicIsListed
CHECK_DEADLOCK FALSE
