\* Both CM4 applications: how many connection attempts before giving up.
CONSTANTS
    NetworkConnMaxRetry = 5
SPECIFICATION FairSpec
INVARIANT GivesUpAfterMaxRetries
