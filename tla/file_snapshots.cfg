SPECIFICATION FairSpec
CONSTANTS
    Writers = {w1}
    Janitor = janitor
    Nobody = nobody
    MaxVersion = 2
    MaxFailures = 2
    MaxRestarts = 1
INVARIANTS SnapshotIsWhole NothingForgotten
PROPERTIES NoOlderSnapshot EventuallyDurable
