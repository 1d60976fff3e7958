SPECIFICATION Spec
CONSTANTS
    ana = ana
    eve = eve
    u1 = u1
    u2 = u2
    u3 = u3
    u4 = u4
    u5 = u5
    u6 = u6
    People = {ana, eve}
    Places = {north, south}
    NewPeople <- MCNewPeople
    Correct = correct
    Days = 2
    Updates = 2
    Deletes = 1
INVARIANTS
    KeysAreDecided
    DaysTakeDistinctRows
PROPERTIES
    RegeneratesTheSame
