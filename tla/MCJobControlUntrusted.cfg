SPECIFICATION Spec
CONSTANTS
    Callers = {c1}
    Relocator = relocator
    Homecoming = homecoming
    NoThread = none
    Jobs = {j1}
    Untrusted = TRUE
    Asked = {"goTo", "stop"}
    MaxRequests = 1
INVARIANTS RelocalizingIsServed
