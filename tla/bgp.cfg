SPECIFICATION Spec
CONSTANTS
    s1 = s1
    s2 = s2
    Session <- Sessions
    Greeting <- Greetings
    Update <- Updates
    MaxSent <- ShortSessions
    Capacity = 2
INVARIANTS
    TypeOK
    ReportsWhatIsSaid
PROPERTY EverythingArrives
CHECK_DEADLOCK FALSE
