SPECIFICATION ShopsSpec
CONSTANTS
    Products = {"mug", "star"}
    Currencies = {"USD", "EUR"}
    Default = "USD"
    Price <- MCPrice
    CostPerItem = 9
    Exchange <- MCExchange
    Cards <- MCCards
    Now = 100
    Quantities = {1, 3}
    Nano = 100
    None = None
    MaxCalls = 3
    MaxUpsets = 1
    MaxFetches = 1
    Servers = {"demo", "lan"}
    Home = "demo"
    MaxLaunches = 2
    MaxMoves = 1
    MaxRequests = 3
    MaxTroubles = 1
INVARIANTS
    CartIsShown
    
    OrderPageShowsCharge
    RefusedIsNotCharged
    OneSession
CHECK_DEADLOCK FALSE
