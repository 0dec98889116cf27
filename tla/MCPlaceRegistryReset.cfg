SPECIFICATION Spec
CONSTANTS
    Names = {"casa"}
    NoName = none
    Spots = {"kitchen"}
    Unseen = {"save"}
    Grace = 2
    MaxSize = 2
    MaxMaps = 3
    MaxFrames = 4
    MaxRestarts = 1
    MaxLineages = 3
INVARIANT NamesMeanMaps
