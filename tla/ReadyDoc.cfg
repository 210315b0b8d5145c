CONSTANTS
    acct = acct
    code = code
    slot = slot
    v1 = v1
    v2 = v2
    Absent = Absent
    NoHeight = NoHeight
    Garbage = Garbage
    Keys <- MCKeys
    Values <- MCValues
    Diffs <- MCDiffs
    SnapKeys <- AccountKeys
    MaxHeight = 3
SPECIFICATION DocSpec
INVARIANT ReadyMeansCaughtUp
