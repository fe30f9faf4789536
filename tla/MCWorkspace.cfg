CONSTANTS
    Calls = {"c1", "c2"}
    Paths = {"f", "g"}
    NoFile = NoFile
    Directories <- MCDirectories
    RequestsOf <- MCRequestsOf
    Gaps <- MCGaps
SPECIFICATION Spec
INVARIANTS FailsBetweenHunks
PROPERTIES ChangesOnlyWhatAsked
CHECK_DEADLOCK FALSE
