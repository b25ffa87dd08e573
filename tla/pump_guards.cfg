SPECIFICATION Spec
CONSTANTS
    main = main
    game = game
    sound = sound
    Fibers = {main, game, sound}
    Priority <- Priorities
    Alarms = {a1, a2}
    MaxTime = 2
    MaxCallbacks = 2
    Idle = Idle
INVARIANTS TypeOK GuardsMatchFrames HoldersRunnable HandlersNotPreempted AlarmsSorted
CHECK_DEADLOCK FALSE
