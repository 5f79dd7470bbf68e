------------------------------- MODULE Fetch -------------------------------
(***************************************************************************)
(* One call of the global `fetch`, runtime/src/globals/fetch/mod.rs:       *)
(* fetch -> future_to_promise(fetch_internal) -> main_fetch, which for     *)
(* network schemes runs http_fetch -> http_network_fetch (one retry on     *)
(* 421) and, on a 3xx in "follow" mode, http_redirect_fetch, which         *)
(* re-enters main_fetch with `redirections + 1`.  fetch_internal races     *)
(* main_fetch against the request's AbortSignal with                       *)
(* `select(send, signal)`, which polls `send` first.                       *)
(*                                                                         *)
(* The fetch task runs on the runtime's single thread; it suspends only at *)
(* `client.request(..).await` and `read(path).await`.  The script (which   *)
(* may abort the signal) and the transport (which may deliver a response)  *)
(* act while it is suspended.  `phase` is the point the task has reached:  *)
(*   "call"     the script is about to call fetch;                         *)
(*   "spawned"  fetch returned its promise, the task is not yet polled;    *)
(*   "main"     start of main_fetch for hop `hops`;                        *)
(*   "send"     http_network_fetch building and sending the request;       *)
(*   "wait"     suspended in client.request(..).await;                     *)
(*   "read"     suspended in read(path).await (file: scheme);              *)
(*   "net"      http_network_fetch after the transport answered;           *)
(*   "http"     http_fetch looking at the status;                          *)
(*   "redirect" http_redirect_fetch;                                       *)
(*   "post"     the outermost main_fetch (redirections = 0) finishing;     *)
(*   "done"     the promise is settled.                                    *)
(*                                                                         *)
(* URLs are records of the parts the code looks at; headers are sets of    *)
(* names; bodies are present or absent.                                    *)
(***************************************************************************)
EXTENDS Naturals, FiniteSets

CONSTANTS
    Methods,          \* request methods the script may use
    Modes,            \* RequestMode values the script may use
    Redirects,        \* RequestRedirect values
    CredentialModes,  \* RequestCredentials values
    CacheModes,       \* RequestCache values
    Schemes,          \* URL schemes
    Ports,            \* explicit ports; NoPort stands for `url.port() == None`
    NoPort,
    ReqHeaderNames,   \* names of request headers the script may set
    RespHeaderNames,  \* names of response headers the server may send
    AcahValues,       \* values of Access-Control-Allow-Headers the server may send
    Statuses,         \* status codes the server may answer with
    RedirectLimit     \* the literal 20 of `if redirections >= 20`

ASSUME FetchAssumption ==
    /\ Methods \subseteq {"GET", "HEAD", "POST", "PUT"}
    /\ Modes \subseteq {"same-origin", "no-cors", "cors"}
    /\ Redirects \subseteq {"follow", "error", "manual"}
    /\ CredentialModes \subseteq {"omit", "same-origin", "include"}
    /\ CacheModes \subseteq {"default", "no-store", "reload", "no-cache",
                             "force-cache", "only-if-cached"}
    /\ Schemes \subseteq {"http", "https", "about", "blob", "data", "file", "ftp"}
    /\ Ports \subseteq Nat /\ NoPort \in Ports
    /\ Statuses \subseteq 100..599
    /\ RedirectLimit \in Nat

(* BAD_PORTS, mod.rs. *)
BAD_PORTS ==
    {1, 7, 9, 11, 13, 15, 17, 19, 20, 21, 22, 23, 25, 37, 42, 43, 53, 69, 77,
     79, 87, 95, 101, 102, 103, 104, 109, 110, 111, 113, 115, 117, 119, 123,
     135, 137, 139, 143, 161, 179, 389, 427, 465, 512, 513, 514, 515, 526,
     530, 531, 532, 540, 548, 554, 556, 563, 587, 601, 636, 989, 990, 993,
     995, 1719, 1720, 1723, 2049, 3659, 4045, 5060, 5061, 6000, 6566, 6665,
     6666, 6667, 6668, 6669, 6697, 10080}

(* SCHEMES, mod.rs: the schemes main_fetch hands to scheme_fetch. *)
SCHEMES == {"about", "blob", "data", "file"}

(* FORBIDDEN_RESPONSE_HEADERS (header.rs, not in this tree; the spec      *)
(* names Set-Cookie and Set-Cookie2).                                      *)
FORBIDDEN_RESPONSE_HEADERS == {"set-cookie", "set-cookie2"}

(* The headers http_redirect_fetch strips when it rewrites the method.     *)
CONTENT_HEADERS ==
    {"content-encoding", "content-language", "content-location", "content-type"}

(* Statuses whose body main_fetch drops.                                   *)
NULL_BODY_STATUSES == {101, 103, 204, 205, 304}

NoStatus == 0
(* The Location of a response whose value does not parse as a URL.        *)
InvalidUrl == [scheme |-> "unparsable", port |-> NoPort, userinfo |-> FALSE]

Urls == [scheme : Schemes, port : Ports, userinfo : BOOLEAN]

Requests ==
    [method : Methods, url : Urls, mode : Modes, redirect : Redirects,
     credentials : CredentialModes, cache : CacheModes,
     hdrs : SUBSET ReqHeaderNames, body : BOOLEAN, clientWindow : BOOLEAN]

(* A response: `kind`, `status`, the header names it carries (`multi`: the *)
(* names with more than one value), the values of its                      *)
(* Access-Control-Allow-Headers, whether it has a body, how many Location  *)
(* values it has and the first one, and its `redirected` flag.  A local   *)
(* response (about:, data:, file:) has status 200.                         *)
Responses ==
    [kind : {"basic", "cors", "opaque", "opaqueredirect", "error"},
     status : Statuses \cup {NoStatus, 200},
     names : SUBSET RespHeaderNames, multi : SUBSET RespHeaderNames,
     acah : SUBSET AcahValues, body : BOOLEAN,
     locs : 0..2, loc : Urls \cup {InvalidUrl}, redirected : BOOLEAN]

(* network_error(): response.rs, not in this tree; a response of kind      *)
(* Error with nothing else set.                                            *)
NetworkError ==
    [kind |-> "error", status |-> NoStatus, names |-> {}, multi |-> {},
     acah |-> {}, body |-> FALSE, locs |-> 0, loc |-> InvalidUrl,
     redirected |-> FALSE]

(* `arrived` while the awaited future is still pending.                   *)
NoResponse == [NetworkError EXCEPT !.kind = "none"]

VARIABLES
    phase,      \* how far the fetch task has got (see above)
    req,        \* the Request, as http_redirect_fetch rewrites it
    origMethod, \* history: the method the script asked for
    hops,       \* `redirections` of the main_fetch now running
    taint,      \* `taint` of the main_fetch now running
    taint0,     \* `taint` of the outermost main_fetch
    opaque,     \* `opaque_redirect` of the outermost main_fetch
    isNew,      \* `is_new` of the http_network_fetch now running
    attempts,   \* requests sent by the http_network_fetch calls of this hop
    arrived,    \* what the transport or the file system has delivered
    resp,       \* the Response being worked on
    aborted,    \* whether the AbortSignal has been aborted
    promise,    \* the state of the promise fetch returned
    sent,       \* history: every request handed to the transport
    abortedEarly \* history: the signal was aborted while the task waited
                 \* for the transport and before anything had arrived

vars == <<phase, req, origMethod, hops, taint, taint0, opaque, isNew,
          attempts, arrived, resp, aborted, promise, sent, abortedEarly>>

Phases == {"call", "spawned", "main", "send", "wait", "read", "net", "http",
           "redirect", "post", "done"}

SentRecords == [url : Urls, hop : Nat, taint : {"basic", "cors"},
                method : Methods \cup {"GET"}, body : BOOLEAN]

(* The requests a fetch can hold: a redirect's rewrite to GET produces    *)
(* one even where the script may not ask for GET.                          *)
RequestValues ==
    [method : Methods \cup {"GET"}, url : Urls, mode : Modes,
     redirect : Redirects, credentials : CredentialModes, cache : CacheModes,
     hdrs : SUBSET ReqHeaderNames, body : BOOLEAN, clientWindow : BOOLEAN]

TypeOK ==
    /\ phase \in Phases
    /\ req \in RequestValues
    /\ origMethod \in Methods
    /\ hops \in Nat
    /\ taint \in {"basic", "cors", "opaque"}
    /\ taint0 \in {"basic", "cors", "opaque"}
    /\ opaque \in BOOLEAN
    /\ isNew \in BOOLEAN
    /\ attempts \in Nat
    /\ arrived \in Responses \cup {NoResponse}
    /\ resp \in Responses
    /\ aborted \in BOOLEAN
    /\ promise \in {"pending", "fulfilled", "rejected_abort", "rejected_type"}
    /\ sent \subseteq SentRecords
    /\ abortedEarly \in BOOLEAN

(* The Request constructor (request.rs, not in this tree) rejects a body   *)
(* on GET and HEAD, as the Fetch standard requires.                        *)
ValidRequest(r) == r.method \in {"GET", "HEAD"} => ~r.body

Init ==
    /\ phase = "call"
    /\ req \in {r \in Requests : ValidRequest(r)}
    /\ origMethod = req.method
    /\ hops = 0
    /\ taint = "basic"
    /\ taint0 = "basic"
    /\ opaque = FALSE
    /\ isNew = FALSE
    /\ attempts = 0
    /\ arrived = NoResponse
    /\ resp = NetworkError
    /\ aborted = FALSE
    /\ promise = "pending"
    /\ sent = {}
    /\ abortedEarly = FALSE

-----------------------------------------------------------------------------
(***************************************************************************)
(* Helpers.                                                                *)
(***************************************************************************)

IsRedirection(s) == s \in 300..399

(* `if let Some(port) = request.url.port() { if BAD_PORTS.contains(&port) *)
BadPort(u) == u.port # NoPort /\ u.port \in BAD_PORTS

(* Response::new_from_bytes for about:blank and data: URLs and file reads  *)
(* (response.rs, not in this tree): a 200 response with a body; its one    *)
(* Content-Type header is not among the names the model tracks.            *)
LocalResponse ==
    [NetworkError EXCEPT !.kind = "basic", !.status = 200, !.body = TRUE]

(* main_fetch of hop `hops` has produced `r` (mod.rs 237-241): a nested    *)
(* main_fetch (redirections > 0) marks it redirected and returns it        *)
(* unfiltered through http_redirect_fetch and http_fetch to the outermost  *)
(* main_fetch, which continues at line 237 with it.  The error returns of  *)
(* lines 219 and 224 skip the marking, which the outermost main_fetch      *)
(* overwrites for an error anyway.                                         *)
Return(r) ==
    /\ resp' = [r EXCEPT !.redirected = (hops > 0)]
    /\ phase' = "post"

(* The header names the cors branch of main_fetch removes (mod.rs          *)
(* 291-317): with a `*` value and credentials other than include, every    *)
(* name with more than one value; otherwise every name listed in           *)
(* Access-Control-Allow-Headers.                                           *)
CorsRemoved(r) ==
    IF req.credentials # "include" /\ "*" \in r.acah
    THEN r.names \cap r.multi
    ELSE r.names \cap r.acah

(* Mutants of the filtering (plausible slips in mod.rs 271-324): the cors *)
(* arm forgetting FORBIDDEN_RESPONSE_HEADERS, and the opaque-redirect arm  *)
(* forgetting `headers.headers.clear()`.                                   *)
FilteredCorsKeepsForbidden(r) ==
    LET nobody == ~opaque /\ (req.method = "HEAD" \/ r.status \in NULL_BODY_STATUSES)
        b == r.body /\ ~nobody
    IN  IF opaque
        THEN [r EXCEPT !.kind = "opaqueredirect", !.status = NoStatus,
                       !.body = FALSE, !.names = {}, !.multi = {}]
        ELSE CASE taint0 = "basic" ->
                    [r EXCEPT !.kind = "basic", !.body = b,
                              !.names = @ \ FORBIDDEN_RESPONSE_HEADERS]
               [] taint0 = "cors" ->
                    [r EXCEPT !.kind = "cors", !.body = b, !.names = @ \ CorsRemoved(r)]

(* The outermost main_fetch's filtering of a non-error response            *)
(* (mod.rs 243-337).  ResponseTaint::Opaque is never assigned in this      *)
(* file, so the range-reuse guard (247-257) and the opaque arm (325-333)   *)
(* cannot be reached and are left out.                                     *)
Filtered(r) ==
    LET nobody == ~opaque /\ (req.method = "HEAD" \/ r.status \in NULL_BODY_STATUSES)
        b == r.body /\ ~nobody
    IN  IF opaque
        THEN [r EXCEPT !.kind = "opaqueredirect", !.status = NoStatus,
                       !.body = FALSE, !.names = {}, !.multi = {}]
        ELSE CASE taint0 = "basic" ->
                    [r EXCEPT !.kind = "basic", !.body = b,
                              !.names = @ \ FORBIDDEN_RESPONSE_HEADERS]
               [] taint0 = "cors" ->
                    [r EXCEPT !.kind = "cors", !.body = b,
                              !.names = (@ \ CorsRemoved(r)) \ FORBIDDEN_RESPONSE_HEADERS]

-----------------------------------------------------------------------------
(***************************************************************************)
(* Actions.                                                                *)
(***************************************************************************)

(* The script aborts the AbortSignal.  It runs only while the fetch task   *)
(* is not running: before fetch, while the task waits, or after.           *)
Abort ==
    /\ ~aborted
    /\ phase \in {"call", "spawned", "wait", "read", "done"}
    /\ aborted' = TRUE
    /\ abortedEarly' = (phase = "wait" /\ arrived = NoResponse)
    /\ UNCHANGED <<phase, req, origMethod, hops, taint, taint0, opaque, isNew,
                   attempts, arrived, resp, promise, sent>>

(* fetch (mod.rs 57-72) with the signal already aborted: the promise is    *)
(* rejected with the reason.                                               *)
FetchAlreadyAborted ==
    /\ phase = "call"
    /\ aborted
    /\ promise' = "rejected_abort"
    /\ phase' = "done"
    /\ UNCHANGED <<req, origMethod, hops, taint, taint0, opaque, isNew,
                   attempts, arrived, resp, aborted, abortedEarly, sent>>

(* fetch (mod.rs 74-96): add Accept and Accept-Language (not tracked) and  *)
(* spawn fetch_internal through future_to_promise.                         *)
FetchCall ==
    /\ phase = "call"
    /\ ~aborted
    /\ phase' = "spawned"
    /\ UNCHANGED <<req, origMethod, hops, taint, taint0, opaque, isNew,
                   attempts, arrived, resp, aborted, abortedEarly, promise, sent>>

(* The executor first polls fetch_internal (mod.rs 98-102), which polls    *)
(* main_fetch(.., 0).                                                      *)
TaskStart ==
    /\ phase = "spawned"
    /\ phase' = "main"
    /\ UNCHANGED <<req, origMethod, hops, taint, taint0, opaque, isNew,
                   attempts, arrived, resp, aborted, abortedEarly, promise, sent>>

(* main_fetch, mod.rs 212-213: same-origin mode is a network error.        *)
MainFetchSameOrigin ==
    /\ phase = "main"
    /\ req.mode = "same-origin"
    /\ Return(NetworkError)
    /\ UNCHANGED <<req, origMethod, hops, taint, taint0, opaque, isNew,
                   attempts, arrived, aborted, abortedEarly, promise, sent>>

(* main_fetch, mod.rs 214-215, and scheme_fetch (340-387) for the schemes  *)
(* that complete without waiting: about (the model's about: URLs are all   *)
(* about:blank), data (the URL may fail to parse or decode), blob (not     *)
(* implemented: a network error).                                          *)
MainFetchScheme ==
    /\ phase = "main"
    /\ req.mode # "same-origin"
    /\ req.url.scheme \in SCHEMES \ {"file"}
    /\ \/ req.url.scheme = "about" /\ Return(LocalResponse)
       \/ req.url.scheme = "data" /\ \E r \in {LocalResponse, NetworkError} : Return(r)
       \/ req.url.scheme = "blob" /\ Return(NetworkError)
    /\ UNCHANGED <<req, origMethod, hops, taint, taint0, opaque, isNew,
                   attempts, arrived, aborted, abortedEarly, promise, sent>>

(* scheme_fetch for file: URLs (mod.rs 375-377): suspend in read(path).    *)
MainFetchFile ==
    /\ phase = "main"
    /\ req.mode # "same-origin"
    /\ req.url.scheme = "file"
    /\ phase' = "read"
    /\ UNCHANGED <<req, origMethod, hops, taint, taint0, opaque, isNew,
                   attempts, arrived, resp, aborted, abortedEarly, promise, sent>>

(* Mutant of the port gate: checking the port only on the first call of    *)
(* main_fetch (redirections = 0), not on the hops a redirect starts.       *)
MainFetchHttpFirstHopPortCheck ==
    /\ phase = "main"
    /\ req.mode # "same-origin"
    /\ req.url.scheme \in {"http", "https"}
    /\ \/ /\ hops = 0 /\ BadPort(req.url)
          /\ Return(NetworkError)
          /\ UNCHANGED <<taint, taint0, isNew, attempts>>
       \/ /\ ~(hops = 0 /\ BadPort(req.url))
          /\ req.mode = "no-cors" /\ req.redirect # "follow"
          /\ Return(NetworkError)
          /\ UNCHANGED <<taint, taint0, isNew, attempts>>
       \/ /\ ~(hops = 0 /\ BadPort(req.url))
          /\ ~(req.mode = "no-cors" /\ req.redirect # "follow")
          /\ taint' = IF req.mode = "no-cors" THEN "basic" ELSE "cors"
          /\ taint0' = IF hops = 0 THEN taint' ELSE taint0
          /\ isNew' = FALSE
          /\ attempts' = 0
          /\ phase' = "send"
          /\ UNCHANGED resp
    /\ UNCHANGED <<req, origMethod, hops, opaque, arrived, aborted, abortedEarly, promise, sent>>

(* main_fetch, mod.rs 216-228: http and https.  A bad port, or no-cors     *)
(* mode without redirect "follow", returns a network error at once;        *)
(* otherwise the taint is cors unless the mode is no-cors, and             *)
(* http_fetch starts http_network_fetch(.., false).                        *)
MainFetchHttp ==
    /\ phase = "main"
    /\ req.mode # "same-origin"
    /\ req.url.scheme \in {"http", "https"}
    /\ \/ /\ BadPort(req.url)
          /\ Return(NetworkError)
          /\ UNCHANGED <<taint, taint0, isNew, attempts>>
       \/ /\ ~BadPort(req.url)
          /\ req.mode = "no-cors" /\ req.redirect # "follow"
          /\ Return(NetworkError)
          /\ UNCHANGED <<taint, taint0, isNew, attempts>>
       \/ /\ ~BadPort(req.url)
          /\ ~(req.mode = "no-cors" /\ req.redirect # "follow")
          /\ taint' = IF req.mode = "no-cors" THEN "basic" ELSE "cors"
          /\ taint0' = IF hops = 0 THEN taint' ELSE taint0
          /\ isNew' = FALSE
          /\ attempts' = 0
          /\ phase' = "send"
          /\ UNCHANGED resp
    /\ UNCHANGED <<req, origMethod, hops, opaque, arrived, aborted, abortedEarly, promise, sent>>

(* main_fetch, mod.rs 232-233: any other scheme is a network error.        *)
MainFetchOther ==
    /\ phase = "main"
    /\ req.mode # "same-origin"
    /\ req.url.scheme \notin SCHEMES \cup {"http", "https"}
    /\ Return(NetworkError)
    /\ UNCHANGED <<req, origMethod, hops, taint, taint0, opaque, isNew,
                   attempts, arrived, aborted, abortedEarly, promise, sent>>

(* http_network_fetch, mod.rs 407-479: build the outgoing request (the     *)
(* Content-Length, Referer, User-Agent, cache, Range and Host headers it   *)
(* adds are not tracked); with cache mode only-if-cached return a network  *)
(* error; otherwise hand the request to the transport and suspend.  The    *)
(* suspension returns Pending from `send` to select(send, signal), which   *)
(* then polls the signal: if it is aborted the fetch is rejected here,     *)
(* after the request has gone out.                                         *)
HttpNetworkFetchOnlyIfCached ==
    /\ phase = "send"
    /\ req.cache = "only-if-cached"
    /\ resp' = NetworkError
    /\ phase' = "http"
    /\ UNCHANGED <<req, origMethod, hops, taint, taint0, opaque, isNew,
                   attempts, arrived, aborted, abortedEarly, promise, sent>>

HttpNetworkFetchSend ==
    /\ phase = "send"
    /\ req.cache # "only-if-cached"
    /\ sent' = sent \cup {[url |-> req.url, hop |-> hops, taint |-> taint,
                           method |-> req.method, body |-> req.body]}
    /\ attempts' = attempts + 1
    /\ IF aborted
       THEN /\ promise' = "rejected_abort"
            /\ phase' = "done"
       ELSE /\ phase' = "wait"
            /\ UNCHANGED promise
    /\ UNCHANGED <<req, origMethod, hops, taint, taint0, opaque, isNew,
                   arrived, resp, aborted, abortedEarly>>

(* The transport answers the suspended client.request: a response          *)
(* (Response::new, mod.rs 480-488: status, headers, a streamed body), or   *)
(* a failure.  Location values are drawn only for redirection statuses,    *)
(* the only ones whose Location the code reads.                            *)
TransportRespond ==
    /\ phase = "wait"
    /\ arrived = NoResponse
    /\ \E status \in Statuses, names \in SUBSET RespHeaderNames,
          acah \in SUBSET AcahValues :
         \E multi \in SUBSET names,
            locs \in (IF IsRedirection(status) THEN 0..2 ELSE {0}),
            loc \in Urls \cup {InvalidUrl} :
           /\ locs = 1 \/ loc = InvalidUrl
           /\ arrived' = [kind |-> "basic", status |-> status, names |-> names,
                          multi |-> multi, acah |-> acah, body |-> TRUE,
                          locs |-> locs, loc |-> loc, redirected |-> FALSE]
    /\ UNCHANGED <<phase, req, origMethod, hops, taint, taint0, opaque, isNew,
                   attempts, resp, aborted, abortedEarly, promise, sent>>

TransportFail ==
    /\ phase = "wait"
    /\ arrived = NoResponse
    /\ arrived' = NetworkError
    /\ UNCHANGED <<phase, req, origMethod, hops, taint, taint0, opaque, isNew,
                   attempts, resp, aborted, abortedEarly, promise, sent>>

(* The file system finishes the suspended read(path).                      *)
FileReadDone ==
    /\ phase = "read"
    /\ arrived = NoResponse
    /\ arrived' \in {LocalResponse, NetworkError}
    /\ UNCHANGED <<phase, req, origMethod, hops, taint, taint0, opaque, isNew,
                   attempts, resp, aborted, abortedEarly, promise, sent>>

(* The executor polls the suspended task: select(send, signal) polls       *)
(* `send` first, so whatever has arrived is taken even when the signal has *)
(* been aborted too; only a `send` still pending lets the abort win        *)
(* (mod.rs 102-105).                                                       *)
PollSend ==
    /\ phase \in {"wait", "read"}
    /\ arrived # NoResponse
    /\ arrived' = NoResponse
    /\ IF phase = "wait"
       THEN /\ phase' = "net"
            /\ resp' = arrived
       ELSE Return(arrived)
    /\ UNCHANGED <<req, origMethod, hops, taint, taint0, opaque, isNew,
                   attempts, aborted, abortedEarly, promise, sent>>

(* Mutant: the abort arm of the select still armed once the fetch has     *)
(* settled its promise.                                                     *)
PollAbortAfterSettled ==
    /\ phase \in {"wait", "read", "done"}
    /\ arrived = NoResponse
    /\ aborted
    /\ promise' = "rejected_abort"
    /\ phase' = "done"
    /\ UNCHANGED <<req, origMethod, hops, taint, taint0, opaque, isNew,
                   attempts, arrived, resp, aborted, abortedEarly, sent>>

PollAbort ==
    /\ phase \in {"wait", "read"}
    /\ arrived = NoResponse
    /\ aborted
    /\ promise' = "rejected_abort"
    /\ phase' = "done"
    /\ UNCHANGED <<req, origMethod, hops, taint, taint0, opaque, isNew,
                   attempts, arrived, resp, aborted, abortedEarly, sent>>

(* Mutant: the 421 retry without the `!is_new` guard.                      *)
HttpNetworkFetchRespondRetryAlways ==
    /\ phase = "net"
    /\ \/ /\ resp.kind = "error"
          /\ phase' = "http"
          /\ UNCHANGED <<resp, isNew>>
       \/ /\ resp.kind # "error"
          /\ resp.status = 407 /\ ~req.clientWindow
          /\ resp' = NetworkError
          /\ phase' = "http"
          /\ UNCHANGED isNew
       \/ /\ resp.kind # "error"
          /\ ~(resp.status = 407 /\ ~req.clientWindow)
          /\ resp.status = 421
          /\ isNew' = TRUE
          /\ phase' = "send"
          /\ UNCHANGED resp
       \/ /\ resp.kind # "error"
          /\ ~(resp.status = 407 /\ ~req.clientWindow)
          /\ resp.status # 421
          /\ phase' = "http"
          /\ UNCHANGED <<resp, isNew>>
    /\ UNCHANGED <<req, origMethod, hops, taint, taint0, opaque, attempts,
                   arrived, aborted, abortedEarly, promise, sent>>

(* http_network_fetch after the await (mod.rs 489-502): a transport error  *)
(* (`resp` is already the network error) is returned; a 407 without a     *)
(* client window becomes a network error; a 421 on the first attempt is   *)
(* retried once with is_new = true (`req.body.is_not_stream()` always      *)
(* holds: FetchBody has no stream variant, body.rs 29-32).                 *)
HttpNetworkFetchRespond ==
    /\ phase = "net"
    /\ \/ /\ resp.kind = "error"
          /\ phase' = "http"
          /\ UNCHANGED <<resp, isNew>>
       \/ /\ resp.kind # "error"
          /\ resp.status = 407 /\ ~req.clientWindow
          /\ resp' = NetworkError
          /\ phase' = "http"
          /\ UNCHANGED isNew
       \/ /\ resp.kind # "error"
          /\ ~(resp.status = 407 /\ ~req.clientWindow)
          /\ resp.status = 421 /\ ~isNew
          /\ isNew' = TRUE
          /\ phase' = "send"
          /\ UNCHANGED resp
       \/ /\ resp.kind # "error"
          /\ ~(resp.status = 407 /\ ~req.clientWindow)
          /\ ~(resp.status = 421 /\ ~isNew)
          /\ phase' = "http"
          /\ UNCHANGED <<resp, isNew>>
    /\ UNCHANGED <<req, origMethod, hops, taint, taint0, opaque, attempts,
                   arrived, aborted, abortedEarly, promise, sent>>

(* http_fetch, mod.rs 393-403: a redirection status is followed, turned    *)
(* into a network error, or returned as an opaque redirect, by the         *)
(* request's redirect mode; anything else is returned to main_fetch.       *)
HttpFetch ==
    /\ phase = "http"
    /\ \/ /\ resp.status # NoStatus /\ IsRedirection(resp.status)
          /\ req.redirect = "follow"
          /\ phase' = "redirect"
          /\ UNCHANGED <<resp, opaque>>
       \/ /\ resp.status # NoStatus /\ IsRedirection(resp.status)
          /\ req.redirect = "error"
          /\ Return(NetworkError)
          /\ UNCHANGED opaque
       \/ /\ resp.status # NoStatus /\ IsRedirection(resp.status)
          /\ req.redirect = "manual"
          /\ opaque' = TRUE
          /\ Return(resp)
       \/ /\ ~(resp.status # NoStatus /\ IsRedirection(resp.status))
          /\ Return(resp)
          /\ UNCHANGED opaque
    /\ UNCHANGED <<req, origMethod, hops, taint, taint0, isNew, attempts,
                   arrived, aborted, abortedEarly, promise, sent>>

(* The method rewrite of http_redirect_fetch, mod.rs 543-546, as written:  *)
(* `method != GET || method != HEAD` holds for every method.               *)
RewritesMethod(status, method) ==
    \/ status \in {301, 302} /\ method = "POST"
    \/ status = 303 /\ (method # "GET" \/ method # "HEAD")

(* The body of http_redirect_fetch with three of its details as           *)
(* parameters, so that the code and its mutants below share the rest:     *)
(* `credCheck` the cors credentials check, `capOk` the redirect cap,       *)
(* `clearBody` whether a rewrite to GET drops the body.                    *)
RedirectFetchWith(credCheck, capOk, clearBody) ==
    /\ phase = "redirect"
    /\ \/ /\ resp.locs = 0
          /\ Return(resp)
          /\ UNCHANGED <<req, hops>>
       \/ /\ resp.locs # 0
          /\ \/ resp.locs > 1
             \/ resp.loc = InvalidUrl
             \/ resp.loc.scheme \notin {"http", "https"}
             \/ ~capOk
             \/ credCheck /\ taint = "cors" /\ resp.loc.userinfo
          /\ Return(NetworkError)
          /\ UNCHANGED <<req, hops>>
       \/ /\ resp.locs = 1
          /\ resp.loc # InvalidUrl
          /\ resp.loc.scheme \in {"http", "https"}
          /\ capOk
          /\ ~(credCheck /\ taint = "cors" /\ resp.loc.userinfo)
          /\ req' = IF RewritesMethod(resp.status, req.method)
                    THEN [req EXCEPT !.method = "GET", !.body = @ /\ ~clearBody,
                                     !.hdrs = @ \ CONTENT_HEADERS,
                                     !.url = resp.loc]
                    ELSE [req EXCEPT !.url = resp.loc]
          /\ hops' = hops + 1
          /\ phase' = "main"
          /\ UNCHANGED resp
    /\ UNCHANGED <<origMethod, taint, taint0, opaque, isNew, attempts,
                   arrived, aborted, abortedEarly, promise, sent>>

(* Mutants: no credentials check; `redirections > 20`; body kept on the    *)
(* rewrite to GET.                                                         *)
RedirectFetchNoCredCheck == RedirectFetchWith(FALSE, hops < RedirectLimit, TRUE)
RedirectFetchCapOffByOne == RedirectFetchWith(TRUE, hops <= RedirectLimit, TRUE)
RedirectFetchKeepsBody == RedirectFetchWith(TRUE, hops < RedirectLimit, FALSE)

(* http_redirect_fetch, mod.rs 505-568.  No Location: the response is      *)
(* returned; several, or one that does not parse: a network error.  The   *)
(* target must be http(s), fewer than 20 redirects may have been followed  *)
(* and a cors fetch may not be sent to a URL with credentials (the check   *)
(* for a streamed body on a non-303 can never fire: FetchBody has no       *)
(* stream).  Then the method may become GET without body and content       *)
(* headers, the URL becomes the target, and main_fetch runs again with     *)
(* redirections + 1.  The Referrer-Policy update changes a field nothing   *)
(* in this tree reads, and is left out.                                    *)
HttpRedirectFetch == RedirectFetchWith(TRUE, hops < RedirectLimit, TRUE)

(* The outermost main_fetch finishes (mod.rs 237-337) and fetch_internal   *)
(* settles the promise (106-115): an error response rejects it with a      *)
(* TypeError; anything else is filtered and fulfils it.                    *)
MainFetchFinish ==
    /\ phase = "post"
    /\ \/ /\ resp.kind = "error"
          /\ promise' = "rejected_type"
          /\ resp' = [resp EXCEPT !.redirected = FALSE]
       \/ /\ resp.kind # "error"
          /\ promise' = "fulfilled"
          /\ resp' = Filtered(resp)
    /\ phase' = "done"
    /\ UNCHANGED <<req, origMethod, hops, taint, taint0, opaque, isNew,
                   attempts, arrived, aborted, abortedEarly, sent>>

Next ==
    \/ Abort
    \/ FetchAlreadyAborted
    \/ FetchCall
    \/ TaskStart
    \/ MainFetchSameOrigin
    \/ MainFetchScheme
    \/ MainFetchFile
    \/ MainFetchHttp
    \/ MainFetchOther
    \/ HttpNetworkFetchOnlyIfCached
    \/ HttpNetworkFetchSend
    \/ TransportRespond
    \/ TransportFail
    \/ FileReadDone
    \/ PollSend
    \/ PollAbort
    \/ HttpNetworkFetchRespond
    \/ HttpFetch
    \/ HttpRedirectFetch
    \/ MainFetchFinish

Spec == Init /\ [][Next]_vars

-----------------------------------------------------------------------------
(***************************************************************************)
(* Properties.                                                             *)
(***************************************************************************)

(* A response handed to the script never carries Set-Cookie or            *)
(* Set-Cookie2, whatever the redirects, taint and CORS headers were: the   *)
(* nested main_fetch calls return unfiltered and only the outermost one    *)
(* filters.                                                                *)
NoForbiddenHeaderLeak ==
    promise = "fulfilled" => resp.names \cap FORBIDDEN_RESPONSE_HEADERS = {}

(* No request is ever sent to a port on BAD_PORTS, neither the first one   *)
(* nor one reached through redirects.                                      *)
NoBadPortContacted ==
    \A s \in sent : ~BadPort(s.url)

(* A cors fetch never follows a redirect to a URL with embedded            *)
(* credentials.                                                            *)
NoCredentialedCorsRedirect ==
    \A s \in sent : (s.hop > 0 /\ s.taint = "cors") => ~s.url.userinfo

(* Every request sent as GET or HEAD, including those rewritten by         *)
(* redirects, is sent without a body.                                      *)
NoBodyOnGetOrHead ==
    \A s \in sent : s.method \in {"GET", "HEAD"} => ~s.body

(* Each hop sends its request at most twice: the 421 retry happens once.   *)
RetryAtMostOnce == attempts <= 2

-----------------------------------------------------------------------------
(***************************************************************************)
(* Refinement.  The pipeline implements FetchContract, what one fetch      *)
(* call promises its caller: the promise is the same, the abort flag the  *)
(* signal's, the requests sent the same records, and the script sees the  *)
(* header names of the response only once the promise is fulfilled.  The  *)
(* bad ports of the contract are BAD_PORTS less the model value for "no   *)
(* explicit port".                                                         *)
(***************************************************************************)
Contract == INSTANCE FetchContract
                WITH BadPorts <- BAD_PORTS \ {NoPort},
                     ForbiddenNames <- FORBIDDEN_RESPONSE_HEADERS,
                     exposed <- IF promise = "fulfilled" THEN resp.names ELSE {}

(* Every behaviour of the pipeline is one the contract allows: the promise *)
(* of `fetch` settles once and never changes after, it is rejected with    *)
(* the abort reason only after the signal is aborted, nothing is sent once *)
(* it is settled, every request sent (first hop, redirects, the 421 retry) *)
(* passes the standard's checks, and a fulfilled response hides Set-Cookie.*)
FetchRefinesContract == Contract!Spec

(***************************************************************************)
(* What the spec says of the program, checked against the code (these are *)
(* expected to be violated; see the README).                               *)
(***************************************************************************)

(* Spec 4.7 step 5: a 303 rewrites the method to GET only when it is       *)
(* neither GET nor HEAD.  Hence a HEAD fetch never yields a body.          *)
HeadHasNoBody ==
    (promise = "fulfilled" /\ origMethod = "HEAD") => ~resp.body

(* Spec 4.5 step 8: a cors response keeps only the headers named by        *)
(* Access-Control-Allow-Headers (all of them for `*` without credentials). *)
CorsExposesOnlyAllowed ==
    (promise = "fulfilled" /\ resp.kind = "cors"
       /\ ~("*" \in resp.acah /\ req.credentials # "include"))
    => resp.names \subseteq resp.acah

(* Spec 5 and 8: aborting the signal before the transport responds makes   *)
(* the fetch reject with the abort reason, never fulfil.                   *)
AbortBeforeResponseRejects ==
    (abortedEarly /\ phase = "done") => promise = "rejected_abort"

=============================================================================
