SPECIFICATION Spec
CONSTANTS
    tg = tg
    sl = sl
    Gateway = {tg}
    Cli = {op}
    Channel = {"telegram", "slack"}
    Serves <- ServesOne
    User = {u1, u2}
    Code = {c1}
    Wrong = Wrong
    None = None
    Torn = Torn
    TTL = 2
    Interval = 1
    MaxFailures = 2
    Lockout = 2
    MaxTime = 3
    MaxAsks = 3
    MaxStarts = 3
CHECK_DEADLOCK FALSE
PROPERTY NewCodeWorks
