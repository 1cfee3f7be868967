CONSTANTS
    logger = logger
    main = main
    helper = helper
    parser = parser
    link = link
    core = core
    app = app
    lib = lib
    rel = rel
    inc = inc
    Scripts <- MCScripts
    AbsNames <- MCAbsNames
    Names <- MCNames
    Dirs <- MCDirs
    CoreDir = core
    DirOf <- MCDirOf
    Real <- MCReal
    Local <- MCLocal
    Besides <- MCBesides
    Boot <- MCBoot
SPECIFICATION Spec
INVARIANTS DirOfRunning MarksInProgress RunsOnce KeysAgree OwnExports MarkHidden
