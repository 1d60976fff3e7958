SPECIFICATION Spec
CONSTANTS
    NULL = NULL
    NullText = NullText
    EndOfTime = 9
    LapsedDays = 1
    HighValue = 100
    ana = ana
    bob = bob
    eve = eve
    north = north
    south = south
    c1 = c1
    c2 = c2
    c3 = c3
    o1 = o1
    o2 = o2
    Customers <- MCCustomers
    Places <- MCPlaces
    SilverCustomers <- MCSilverCustomers
    SilverOrders <- MCSilverOrders
    SilverItems <- MCSilverItems
    Dates <- MCDates
    Days <- MCDays
    ChangeFiles <- MCChangeFiles
    Runs = {r1, r2, r3}
SYMMETRY AnyRun
INVARIANTS
    TypeOK
    AtMostOneCurrent
    DisjointWindows
    CurrentUnlessTorn
    NothingBlanked
    ReplayIsNoOp
    FileIsReflected
    KeylessRowsAccumulate
PROPERTIES
    HistoryIsAppendOnly
