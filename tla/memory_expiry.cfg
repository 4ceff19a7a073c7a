SPECIFICATION Spec
CONSTANTS
    page = page
    note = note
    rumor = rumor
    boss = boss
    pref = pref
    sub = sub
    Content = {"paris", "likes", "rule", "summary"}
    Source = {"url"}
    None = None
    RuleRejects <- FlowRejects
    Similar <- SameText
    Sensitive = {}
    Worker = {w1}
    Sweeper = sweeper
    Needed = 2
    TTL = 1
    HalfLife <- OneTick
    Floor = 25
    WeakFloor = 85
    MinInterval = 0
    ReviewGap = 1
    MaxTime = 2
    MaxEvidence = 2
    MaxCount <- NeverReaffirmed
    Item = {page}
    Profile <- FlowProfile
PROPERTY UnconfirmedExpires
