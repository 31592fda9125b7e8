SPECIFICATION Spec
CONSTANTS
    size_x = 2
    size_y = 3
    Counts <- MCCounts
    MaxLine = 1
    SavedAt <- MCSavedAt
    Care = {"text", "drag"}
PROPERTY ScrollbackKept
