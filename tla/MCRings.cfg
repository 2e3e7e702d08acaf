SPECIFICATION TwoFairSpec
CONSTANTS
    f1 = f1
    f2 = f2
    Fds = {f1, f2}
    Scenes <- AllScenes
    PortScenes <- AllPortScenes
    Nil = Nil
    Entries = 8
    MaxIn = 1
    MaxOut = 2
    Room = 1
    MaxLives = 2
    MaxWakes = 1
    Reopened = {"server", "client"}
    Balks = FALSE
    Addresses = {f1, f2}
INVARIANTS DataExact NoneLeftBehind
CHECK_DEADLOCK FALSE
PROPERTIES AllServed
