CONSTANTS
    Executors = {e1, e2}
    JobAttempts = 3
    MaxQueueFaults = 2
    Txs = {t1, t2}
    PollWorkers = {w1, w2}
    MaxPollAttempts = 1
    MaxPollFaults = 1
    BreakerWindow = 3
    BreakerThreshold = 2
    MaxOutcomes = 6
    Outputs = {0, 1, 2}
    MinOutput = 2
    PollAttempts = 2
    JobAttemptsFx = 3
    Depositors = {"d1", "d2"}
    SharesOf <- MCSharesOf
    WithdrawalCalls = {1, 2}
    MaxTransferFaults = 1
    Replicas = {"p1", "p2"}
    Sources <- MCSources
    SyncThrottle = 1
    SyncLease = 2
    MaxSyncTime = 3
    MaxSyncFaults = 1
    EntryIds = {1, 2, 3, 4}
    PageLimit = 2
    MaxEntryTime = 2
    Tokens = {"s1", "s2"}
    MaxSessions = 4
    FirstBlock = 1
    ChunkSize = 1
    LastBlock = 6
SPECIFICATION MCSpec
CHECK_DEADLOCK FALSE
INVARIANTS ExecutedIsMined FxFollowsEvidence FeedIsFaithful
PROPERTIES TasksFinish ProviderAndFeedSettle
