SPECIFICATION Spec
CONSTANTS
    Turn = {r1, r2}
    Session = {u1}
    Tool = {"read_file", "run_shell"}
    Reply <- Answers
    Spend = {0}
    MaxIterations = 2
    MaxTokens = 1
    Kind = {"telegram"}
    Text = {"task", "yes", "pair"}
    MaxSent = 2
    MaxFaults = 1
CHECK_DEADLOCK FALSE
INVARIANT NextMessageAnswers
