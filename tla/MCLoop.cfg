SPECIFICATION TwoFairSpec
CONSTANTS
    Tasks = {t1, t2, t3}
    Nil = Nil
    Never = Never
    Delays = {1, 2}
    Steps = {2}
    Horizon = 3
    MaxDepth = 2
    Disciplined = TRUE
    LiteTasks = {t1, t2}
    LiteDelay = 2
    LiteTimeout = 1
    LiteStep = 1
INVARIANTS NoTaskLost RunningAlive
PROPERTIES NoEarlyWake PoolKept EveryTaskRuns DelayEnds
