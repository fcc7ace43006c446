SPECIFICATION FairSpec
CONSTANTS
    c1 = c1
    c2 = c2
    Callers = {c1, c2}
    Lifetime = 3
    Lags <- MCLags
    Margin = 2
    Timeout = 1
    Retries = 1
    LastCall = 3
    MaxTokens = 3
    MaxTime = 11
    MaxLosses = 2
PROPERTIES
    CallsSettle
INVARIANTS
    TokensUsable
    UsedOnlyAfterLoss
