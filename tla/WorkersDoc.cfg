CONSTANTS
    acct = acct
    r1 = r1
    e1 = e1
    b1 = b1
    r2 = r2
    e2 = e2
    b2 = b2
    la = la
    lb = lb
    lc = lc
    lx = lx
    A0 = A0
    A1 = A1
    A2 = A2
    R1 = R1
    E1 = E1
    B1 = B1
    R2 = R2
    E2 = E2
    B2 = B2
    LA = LA
    LB = LB
    LC = LC
    LX = LX
    w1 = w1
    owner = owner
    Absent = Absent
    NoHeight = NoHeight
    NilHash = NilHash
    EmptyRoot = EmptyRoot
    Keys <- MCKeys
    Values <- MCValues
    Fields <- MCFields
    Storage <- MCStorage
    Below <- MCBelow
    Live <- MCLive
    Slots <- MCSlots
    Diffs <- MCDiffs
    SnapKeys <- MCAccounts
    Accounts <- MCAccounts
    Others <- MCOthers
    ByteSize = 2
    MaxTasks = 1
    MaxHeight = 2
SPECIFICATION ASpec
INVARIANT OthersFallBackToL3
