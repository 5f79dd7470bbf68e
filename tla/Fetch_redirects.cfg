\* Redirect chains, bad ports, credentials in redirect targets, the method
\* rewrite and the 421 retry.  Response headers are not drawn.
CONSTANTS
    Methods = {"GET", "POST", "PUT"}
    Modes = {"cors", "no-cors"}
    Redirects = {"follow"}
    CredentialModes = {"omit"}
    CacheModes = {"default"}
    Schemes = {"http", "file"}
    Ports = {0, 25}
    NoPort = 0
    ReqHeaderNames = {}
    RespHeaderNames = {}
    AcahValues = {}
    Statuses = {200, 301, 303, 421}
    RedirectLimit = 2
SPECIFICATION Spec
CONSTRAINT MCConstraint
INVARIANT NoBadPortContacted
INVARIANT NoCredentialedCorsRedirect
INVARIANT NoBodyOnGetOrHead
INVARIANT RetryAtMostOnce
PROPERTY FetchRefinesContract
CHECK_DEADLOCK FALSE
