SPECIFICATION GatesSpec
CONSTANTS
    Paths = {"a.go", "b.go", "a_test.go"}
    Relevant = {"a.go", "b.go"}
    MaxLine = 3
    MaxCount = 2
    MaxHunks = 2
    Blocks <- MCBlocks
    MaxReports = 4
    Modules = {"m1", "m2"}
    ThisModule = "this"
    Std = {"stdlib"}
    Findings <- MCFindings
    MaxLines = 5
    MaxMessages = 2
INVARIANTS
    GreenIsEarned
    FixableIsBlocked
CHECK_DEADLOCK FALSE
