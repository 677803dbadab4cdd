SPECIFICATION FairSpec
CONSTANTS
    main = main
    timer = timer
    child = child
    Writer = {main}
    Main = main
    Keeper = {child}
    Header = 2
    Texts = {0, 1, 2}
    Capacity = 3
    Limit = 4
    MaxFrames <- OneWriterFrames
INVARIANT FrameIsWhole
PROPERTIES FrameQueue Delivered FrameIsFinished
CHECK_DEADLOCK FALSE
