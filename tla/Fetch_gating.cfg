\* Every entry gate of fetch and main_fetch (abort before the call, modes,
\* local and unknown schemes, bad ports, only-if-cached, redirect modes,
\* 407) and the response filter under every Access-Control-Allow-Headers
\* value, with and without credentials: no path hands Set-Cookie to the
\* script or contacts a bad port.
CONSTANTS
    Methods = {"GET"}
    Modes = {"same-origin", "no-cors", "cors"}
    Redirects = {"follow", "error", "manual"}
    CredentialModes = {"omit", "include"}
    CacheModes = {"default", "only-if-cached"}
    Schemes = {"http", "about", "data", "blob", "file", "ftp"}
    Ports = {0, 25}
    NoPort = 0
    ReqHeaderNames = {}
    RespHeaderNames = {"set-cookie", "x-a"}
    AcahValues = {"x-a", "*"}
    Statuses = {200, 302, 407}
    RedirectLimit = 1
SPECIFICATION Spec
CONSTRAINT MCConstraint
INVARIANT NoForbiddenHeaderLeak
PROPERTY FetchRefinesContract
CHECK_DEADLOCK FALSE
