CONSTANTS
    Capacity = 3
    ChannelCount = 2
    IdCount = 2
    Timeout = 1
    MaxExpire = 1
    MaxNow = 2
    Queries = {1, 2, 3, 4}
    None = None
    Batch = 3
    RebuildDelay = 1
    QuestionOf <- SomeQuestions
SPECIFICATION Spec
INVARIANTS TableExact  Tracked BatchPointersGood
