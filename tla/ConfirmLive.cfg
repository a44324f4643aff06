SPECIFICATION FairSpec
CONSTANTS
    d1 = d1
    d2 = d2
    first = first
    again = again
    other = other
    cross = cross
    k1 = k1
    k2 = k2
    v1 = v1
    v2 = v2
    shop = shop
    NoKey = NoKey
    NoConfirm = NoConfirm
    Confirms = {first, again, cross}
    Tasks = {first, again, cross}
    Keys = {k1, k2}
    KeyOf <- MCKeyOf
    Merchants = {shop}
    MerchantOf <- MCMerchantOf
    Sources = {v1, v2}
    SourcesOf <- MCSourcesOf
    SameCurrency <- MCSameCurrency
    Drains = {d1}
    MaxAttempts = 2
    BackoffBase = 1
    CapPerDay = 2
    LeaseTicks = 1
    MaxDisruptions = 2
PROPERTIES
    RetriesSettle
CHECK_DEADLOCK FALSE
