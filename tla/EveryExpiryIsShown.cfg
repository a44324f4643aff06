SPECIFICATION LoyaltySpec
CONSTANTS
    LoyaltyIds = {"i1", "i2"}
    Expiries = {3, 8}
    MaxDay = 1
INVARIANTS
    EveryExpiryIsShown
CHECK_DEADLOCK FALSE
