SPECIFICATION Spec
CONSTANTS
    Names = {"casa"}
    NoName = none
    Default = "casa"
    MaxMaps = 2
    Holed = {1, 2}
PROPERTY BookIsTheMaps
