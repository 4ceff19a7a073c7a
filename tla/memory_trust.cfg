SPECIFICATION Spec
CONSTANTS
    page = page
    note = note
    rumor = rumor
    boss = boss
    pref = pref
    sub = sub
    Content = {"paris", "likes", "rule", "summary"}
    Source = {"url"}
    None = None
    RuleRejects <- FlowRejects
    Similar <- SameText
    Sensitive = {"summary"}
    Worker = {}
    Sweeper = sweeper
    Needed = 2
    TTL = 1
    HalfLife <- SensitiveFaster
    Floor = 60
    WeakFloor = 95
    MinInterval = 0
    ReviewGap = 1
    MaxTime = 2
    MaxEvidence = 1
    MaxCount <- PrefReaffirmed
    Item = {boss, pref, sub}
    Profile <- TrustProfile
INVARIANTS TypeOK
PROPERTIES WeakNeverRaises OperatorStands
