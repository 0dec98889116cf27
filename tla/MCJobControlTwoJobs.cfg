SPECIFICATION Spec
CONSTANTS
    Callers = {c1}
    Relocator = relocator
    Homecoming = homecoming
    NoThread = none
    Jobs = {j1, j2}
    Untrusted = TRUE
    Asked = {"goTo"}
    MaxRequests = 1
INVARIANT OneJob
