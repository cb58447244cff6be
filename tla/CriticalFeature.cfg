SPECIFICATION Spec
CONSTANTS
    s1 = s1
    s2 = s2
    h1 = h1
    h2 = h2
    AnyHost = AnyHost
    Sessions <- MCSessions
    Hosts <- MCHosts
    Home <- MCHome
    Settings <- MCSettings
INVARIANTS
    TypeOK
    VerdictIsJustified
    HangIsEarned
    CheckedReportsAreTrue
    NoneIsMissed
    StopIsEarned
PROPERTIES
    CheckReturns
    StopReturns
    CheckKeepsContract
