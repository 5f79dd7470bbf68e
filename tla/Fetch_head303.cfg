\* A HEAD fetch redirected by a 303: does it still come back without a body?
CONSTANTS
    Methods = {"HEAD"}
    Modes = {"cors"}
    Redirects = {"follow"}
    CredentialModes = {"omit"}
    CacheModes = {"default"}
    Schemes = {"http"}
    Ports = {0}
    NoPort = 0
    ReqHeaderNames = {}
    RespHeaderNames = {}
    AcahValues = {}
    Statuses = {200, 303}
    RedirectLimit = 1
SPECIFICATION Spec
CONSTRAINT MCConstraint
INVARIANT HeadHasNoBody
CHECK_DEADLOCK FALSE
