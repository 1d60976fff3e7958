SPECIFICATION Spec
CONSTANTS
    Runs = {r1, r2}
    Tasks <- MCTasks
    Logged <- MCLogged
    MaxAttempts = 2
SYMMETRY AnyRun
INVARIANTS
    TypeOK
    OneRowPerAttempt
    PassedTasksAreLogged
    RaisedIsNotSucceeded
