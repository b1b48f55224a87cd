CONSTANTS
    ROOMS = {"plan"}
    Doc = {"notes", "draft"}
    Skipped = {}
    Ignored = {"draft"}
    Line = {"phase one", "origin"}
    Dictionary <- TheDictionary
    MaxEdits = 3
SPECIFICATION Spec
PROPERTY NothingLost
CHECK_DEADLOCK FALSE
