SPECIFICATION Spec
CONSTANTS
    first = first  second = second  third = third  cron = cron  nobody = nobody
    Pubs <- MCPubs  First = first  Uploads <- MCUploads  Cleaners <- MCCleaners  Nobody = nobody
    MaxFaults = 1
INVARIANTS PublishedExists OwnerMatchesLedger NothingLost
CHECK_DEADLOCK FALSE
