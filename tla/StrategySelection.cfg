SPECIFICATION Spec
CONSTANTS
    RateScale = 100
    MaxCoupons = 2
    MaxOffers = 2
    GiftCardRate = 4
    GiftCardMerchants = {"amazon"}
    MinConfidence = 50
    MaxComplexity = 8
    Weights <- MCWeights
    Requests <- MCRequests
INVARIANTS
    ParetoFront
    NothingBetterIsLost
    TopIsCheapest
CHECK_DEADLOCK FALSE
