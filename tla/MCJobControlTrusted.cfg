SPECIFICATION Spec
CONSTANTS
    Callers = {c1}
    Relocator = relocator
    Homecoming = homecoming
    NoThread = none
    Jobs = {j1, j2}
    Untrusted = FALSE
    Asked = {"explore", "watch", "goTo", "stop", "move", "complete"}
    MaxRequests = 1
INVARIANTS Inv OneJob HandDrivesAlone
PROPERTIES OwnMotionWaits StopEndsTheJob CompletionComes MotionSpec
