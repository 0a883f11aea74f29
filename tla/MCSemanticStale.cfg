CONSTANTS
    Interactive = {i1}
    Retrying = {r1}
    Methods = {"completion", "sync"}
    Capacity = 2
    MaxSessions = 2
    MaxCalls = 2
    Queries <- OneQuery
    MaxEdits = 2
    MaxFaults = 0
    DocumentSessions = 1
    q1 = q1
SPECIFICATION AllSpec
\* The user and the callers may stop for good.
CHECK_DEADLOCK FALSE
INVARIANT AnswersAreCurrent
