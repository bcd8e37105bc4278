SPECIFICATION FairSpec
CONSTANTS
    Schemas <- MCSchemas
    Operations <- AnyOfOperations
    Code <- MCCode
    Calls = {"/call"}
    Null = Null
    MinInt <- MCMinInt
    MaxInt = 7
    MaxInt32 = 2
    DefaultMinInt = 0
    DefaultMaxInt = 3
    DefaultMinFloat <- MCMinFloat
    DefaultMaxFloat = 2
    DefaultMaxLength = 3
    Texts = {t}
    Keys = {"k1", "k2", "id"}
    MaxLevel = 4
    MaxAttempts = 2
    MaxMerging <- MCMaxMerging
CHECK_DEADLOCK FALSE
INVARIANTS AnyOfGenerates
