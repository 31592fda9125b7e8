SPECIFICATION Spec
CONSTANTS
    size_x = 2
    size_y = 3
    Counts <- MCCounts
    MaxLine = 2
    SavedAt <- MCSavedAt
    Care = {"drag", "slider"}
PROPERTY LineFeedAfterLeave
