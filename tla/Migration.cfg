SPECIFICATION Spec
CONSTANTS
    t1 = t1
    t2 = t2
    t3 = t3
    t4 = t4
    Nothing = Nothing
    Instances <- MCInstances
    Teams <- MCTeams
    Tables <- MCTables
    Parts <- MCParts
    Chosen <- MCChosen
    TableOf <- MCTableOf
    InstanceOf <- MCInstanceOf
INVARIANTS
    TypeOK
    CountAddsUp
    OnePartIsLoggedTruly
    OwnTablesAreComplete
    NoDeadlock
PROPERTY SessionsFinish
