SPECIFICATION Spec
CONSTANTS
    Runs = {r1, r2}
    Tasks <- MCTasks
    Logged <- MCLogged
    MaxAttempts = 3
INVARIANTS
    SucceededMeansDone
