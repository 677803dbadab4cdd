SPECIFICATION Spec
CONSTANTS
    main = main
    timer = timer
    child = child
    Writer = {main, timer}
    Main = main
    Keeper = {child}
    Header = 2
    Texts = {0, 1, 2}
    Capacity = 3
    Limit = 4
    MaxFrames <- TwoWritersFrames
INVARIANT ReceivedInOrder
CHECK_DEADLOCK FALSE
