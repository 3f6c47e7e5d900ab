SPECIFICATION Spec
CONSTANTS
    Handles = {h1, h2, h3}
    Tasks = {}
    Values = {0, 1}
    Formats = {"vector"}
    Builds = {"bak"}
    MaxWrites = 3
    ReentrantRewrites = TRUE
CHECK_DEADLOCK FALSE
INVARIANTS
    FlagIsQueued
SYMMETRY HandleSymmetry
