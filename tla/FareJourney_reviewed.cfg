CONSTANTS
    Null = Null
    BadTime = BadTime
    Country <- MCCountry
    Markets <- MCMarkets
    RuleSets <- MCRuleSets
    Queries <- MCQueries
    Parties <- MCParties
    Tiers <- MCTiers
    From = "SGN"
    To = "HAN"
    Attempts = 2
    LimitPairs <- MCLimitPairs
    PaymentBuffer = 60
    MinWindow = 15
    FallbackHold = 240
    BeforeDeparture = 180
SPECIFICATION Spec
CHECK_DEADLOCK FALSE
INVARIANTS ReviewedPriceIsCharged
