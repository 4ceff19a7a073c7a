SPECIFICATION Spec
CONSTANTS
    Turn = {"t"}
    Session = {1}
    Tool = {"read_file", "run_shell"}
    Reply <- Answers
    Spend = {1}
    MaxIterations = 2
    MaxTokens = 9
    Task = {t1, t2}
    Requests <- SomeRequests
    Unit <- Units
    Minutes = 2
    Hours = 1
    WeekDays = 2
    YearMinutes = 4
    MaxNow = 5
    MaxFailures = 2
    Server = {1, 2}
    Offers <- SomeOffers
    Builtin = {"read_file"}
    Caller = {c1, c2}
    MaxNotices = 1
    File = {"a", "b"}
    MaxChanges = 2
    MaxEdits = 4
    Writer = {w1, w2, w3}
    Name = {"a", "b"}
    Text <- SomeTexts
    Bundled <- Shipped
    Platform = "linux"
    Line <- SomeLines
    Alike <- AlikeLines
    MinCount = 2
    Suggestions = 5
    MaxSessions = 2
    MaxTurns = 2
    MaxLines = 3
    Unknown = 9
    MaxCalls = 2
    MaxFragments = 2
    Actor = {"u", "v"}
    Memory <- SomeMemories
    Setting = {"none", "default"}
    Limit = 2
    Budget = 3
    ShowBudget = 4
    K = 1
    ToolHits = 2
    MaxItems = 3
    Channel = {"slack", "whatsapp", "telegram", "discord"}
    Connections = 2
    Window = 0
    MaxPosts = 2
    MaxRequests = 2
    MaxRestarts = 1
    MaxClock = 1
    Url <- SomeUrls
    Query = {"q"}
    Listing <- SomeListings
    Sources = 2
    Subqueries = 2
    Results = 2
    Hops = 2
    Command = {d1, d2}
    Path = {"a", "b"}
    Key = {k1, k2}
    Claim = {1}
    ReviewGap = 1
    MaxTime = 2
CHECK_DEADLOCK FALSE
INVARIANTS RunsAreSpaced RepliesMatch WorkSurvives ShownIsVetted NothingIrreversibleUnasked CallsAreWhole NoCrowdingOut AnswersAreOwn MessagesAreHeard ReportsAreSourced SessionIsKept OperatorSigns
PROPERTIES DueTasksRun HealthyServersAnswer RequestsAnswered
