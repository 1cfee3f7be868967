CONSTANTS
    d1 = d1
    d2 = d2
    Fds <- MCFds
    MaxFiles = 3
    MaxEvents = 2
    CrossClose = TRUE
SPECIFICATION FairSpec
INVARIANTS TypeOK CountMatches Watched Mirrors Fresh CrashOnlyIfHit
PROPERTIES BatchDrains ClosedEndsRun
