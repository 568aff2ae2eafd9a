SPECIFICATION FairSpec
CONSTANTS
    None = None
    Blank = Blank
    Page = {1, 2}
    SlotCount = 3
    MaxRequests = 4
CHECK_DEADLOCK FALSE
INVARIANTS RingsIntact AnsweredAtMostOnce PagesExclusive
PROPERTIES FramesReturn ReleaseCompletes
