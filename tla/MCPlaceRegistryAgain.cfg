SPECIFICATION Spec
CONSTANTS
    Names = {"casa"}
    NoName = none
    Spots = {"kitchen"}
    Unseen = {}
    Grace = 2
    MaxSize = 2
    MaxMaps = 2
    MaxFrames = 3
    MaxRestarts = 1
    MaxLineages = 3
PROPERTY SavedAgainKeepsPlaces
