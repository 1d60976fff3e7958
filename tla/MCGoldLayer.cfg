SPECIFICATION GoldSpec
CONSTANTS
    NULL = NULL
    NullText = NullText
    EndOfTime = 9
    LapsedDays = 1
    HighValue = 100
    ana = ana
    bob = bob
    eve = eve
    north = north
    south = south
    c1 = c1
    c2 = c2
    c3 = c3
    o1 = o1
    o2 = o2
    Customers <- MCCustomers
    Places <- MCPlaces
    SilverCustomers <- MCSilverCustomers
    SilverOrders <- MCGoldOrders
    SilverItems <- MCGoldItems
    SilverPayments <- MCGoldPayments
    Dates <- MCDates
    Days <- MCDays
    ChangeFiles <- MCGoldFiles
    Runs = {r1, r2}
    MaxAttempts = 4
SYMMETRY AnyRun
INVARIANTS
    GoldTypeOK
    OneRowPerGrain
    EveryRowResolves
    PublishedFactsAreCurrent
PROPERTIES
    HistoryNotRestated
    RerunIsGreen
    RedIffDimensionGrew
