CONSTANTS
    l1 = l1
    l2 = l2
    q = q
    NoLogin = NoLogin
    EnvKeys = {{}, {"claude"}, {"other"}}
    Logins <- MCLogins
    Requests <- MCRequests
    MaxCallbacks = 3
SPECIFICATION Spec
INVARIANTS
    TypeOK
    SavedIsWhole
PROPERTIES
    LoginEnds
    KeylessOnlyIfOvertaken
CHECK_DEADLOCK FALSE
