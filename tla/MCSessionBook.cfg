SPECIFICATION Spec
CONSTANTS
    Names = {"casa"}
    NoName = none
    Default = "casa"
    MaxMaps = 2
    Holed = {2}
INVARIANTS Inv BooksAreOfSavedMaps
PROPERTIES DeclaredIsCarried
