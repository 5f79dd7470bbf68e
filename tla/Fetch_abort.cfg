\* The signal is aborted while the request is in flight: does the fetch reject?
CONSTANTS
    Methods = {"GET"}
    Modes = {"cors"}
    Redirects = {"follow"}
    CredentialModes = {"omit"}
    CacheModes = {"default"}
    Schemes = {"http"}
    Ports = {0}
    NoPort = 0
    ReqHeaderNames = {}
    RespHeaderNames = {}
    AcahValues = {}
    Statuses = {200}
    RedirectLimit = 0
SPECIFICATION Spec
CONSTRAINT MCConstraint
INVARIANT AbortBeforeResponseRejects
CHECK_DEADLOCK FALSE
