\* A cors response: are only the headers Access-Control-Allow-Headers names exposed?
CONSTANTS
    Methods = {"GET"}
    Modes = {"cors"}
    Redirects = {"follow"}
    CredentialModes = {"omit", "include"}
    CacheModes = {"default"}
    Schemes = {"http"}
    Ports = {0}
    NoPort = 0
    ReqHeaderNames = {}
    RespHeaderNames = {"x-a", "x-b"}
    AcahValues = {"x-a"}
    Statuses = {200}
    RedirectLimit = 0
SPECIFICATION Spec
CONSTRAINT MCConstraint
INVARIANT CorsExposesOnlyAllowed
CHECK_DEADLOCK FALSE
