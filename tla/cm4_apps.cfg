\* Both CM4 applications, with NETWORK_CONN_MAX_RETRY = 5.
CONSTANTS
    NetworkConnMaxRetry = 5
SPECIFICATION FairSpec
INVARIANT ProvisionOnlyWhenConnected
PROPERTY WifiConnectTerminates
PROPERTY PressStartsNetwork
PROPERTY LedShowsLife
PROPERTY ImplementsWifiPolicy
