CONSTANTS
    MaxFiles = 2
    MaxBuffers = 3
    TextSize = 2
    MaxTexts <- MCTexts
    MaxInput <- MCInput
    Needs <- MCNeeds
    Careless = {1}
SPECIFICATION FairSpec
INVARIANTS TypeOK DirectionsApart InOrder Told Exclusive
CHECK_DEADLOCK FALSE
PROPERTY WritesEnd
