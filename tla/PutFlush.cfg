SPECIFICATION Spec
CONSTANTS
    Handles = {h1, h2}
    Tasks = {t1}
    Values = {0, 1}
    Formats = {"vector", "str"}
    Builds = {"verilator", "bak"}
    MaxWrites = 2
    ReentrantRewrites = FALSE
CHECK_DEADLOCK FALSE
INVARIANTS
    TypeOK
    FlagIsQueued
    QueueExact
    FlushedBeforeReadOnly
    OneChain
PROPERTIES
    AwaitRwSeesValues
    AwaitRwResumes
    ImplementsPostedWrites
