SPECIFICATION MCSpec
CONSTANTS
    Promises = {p, q}
    Callbacks = {c1, c2, c3}
    Values = {v1, v2}
    Nil = Nil
    MaxDepth = 3
    MaxSize = 4
INVARIANTS CalledFittingly NoReactionLost AnswerSound
PROPERTIES SettledOnce AnswersCome
CHECK_DEADLOCK FALSE
