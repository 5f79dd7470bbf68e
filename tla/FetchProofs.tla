----------------------------- MODULE FetchProofs -----------------------------
(***************************************************************************)
(* Proofs about the fetch pipeline (Fetch.tla) for every value of its      *)
(* constants: the type invariant, the invariants of the request gates, and *)
(* that the pipeline implements FetchContract.                             *)
(*                                                                         *)
(* The gates are checked where a request is made, and the request is sent *)
(* later: main_fetch checks the port and picks the taint, then             *)
(* http_network_fetch sends, possibly twice, and http_redirect_fetch       *)
(* checks the credentials of the next URL against the taint of the hop     *)
(* before.  None of the invariants about `sent` is inductive by itself;    *)
(* CoreInv carries what holds of the request between those steps.            *)
(***************************************************************************)
EXTENDS Fetch, TLAPS

(* The taint main_fetch gives an http(s) fetch in mode m (mod.rs 225-227). *)
TaintOf(m) == IF m = "no-cors" THEN "basic" ELSE "cors"

(* Between main_fetch's gates and the next redirect.                        *)
InHttp == phase \in {"send", "wait", "net", "http", "redirect"}

(* The request a hop works on passes the checks that do not depend on the *)
(* phase: the Request constructor's and the redirect's credentials check   *)
(* (made with the taint of the hop before, which its mode fixes).          *)
ReqInv ==
    /\ hops <= RedirectLimit
    /\ ValidRequest(req)
    /\ (hops > 0 /\ req.mode # "no-cors") => ~req.url.userinfo

(* From main_fetch's port check until the next redirect.                   *)
HttpInv == InHttp => ~BadPort(req.url) /\ taint = TaintOf(req.mode)

(* The promise stays pending until the task is done; the outermost taint   *)
(* is never opaque, so Filtered always takes one of its arms.              *)
PromiseInv ==
    /\ phase # "done" => promise = "pending"
    /\ taint0 \in {"basic", "cors"}

SentInv == \A s \in sent : Contract!Allowed(s)

CoreInv == TypeOK /\ ReqInv /\ HttpInv /\ PromiseInv /\ SentInv

(* The 421 retry: a hop sends once, and once more after setting is_new;   *)
(* in "send" the request about to go out is counted.                      *)
RetryInv ==
    attempts + (IF phase = "send" THEN 1 ELSE 0) <= (IF isNew THEN 2 ELSE 1)

(* The inductive invariant: a fulfilled promise also holds the filtered    *)
(* response, which nothing changes once the task is done.                  *)
IInv == CoreInv /\ NoForbiddenHeaderLeak /\ RetryInv

(* The fetch starts in a state of the invariant.                           *)
LEMMA InitCore == Init => CoreInv
<1> SUFFICES ASSUME Init PROVE CoreInv
    OBVIOUS
<1>1. req \in RequestValues
    BY DEF Init, Requests, RequestValues
<1>2. NetworkError \in Responses
    BY FetchAssumption DEF NetworkError, Responses, NoStatus, InvalidUrl
<1>3. TypeOK
    BY <1>1, <1>2, FetchAssumption DEF Init, TypeOK, Requests, Phases
<1>4. QED
    BY <1>3, FetchAssumption
       DEF Init, CoreInv, ReqInv, HttpInv, PromiseInv, SentInv, InHttp

(* Return hands main_fetch a response of the type, marked redirected.     *)
LEMMA ReturnType ==
    ASSUME NEW r \in Responses, Return(r)
    PROVE  resp' \in Responses /\ phase' = "post"
<1>1. (hops > 0) \in BOOLEAN
    OBVIOUS
<1>2. [r EXCEPT !.redirected = (hops > 0)] \in Responses
    BY <1>1 DEF Responses
<1>3. QED
    BY <1>2 DEF Return

(* The responses the pipeline makes up itself are of the type.            *)
LEMMA LocalResponseType == LocalResponse \in Responses /\ NetworkError \in Responses
<1>1. NetworkError \in Responses
    BY FetchAssumption DEF NetworkError, Responses, NoStatus, InvalidUrl
<1>2. LocalResponse = [NetworkError EXCEPT !.kind = "basic", !.status = 200,
                                           !.body = TRUE]
    BY DEF LocalResponse
<1>3. ASSUME NEW r \in Responses
      PROVE  [r EXCEPT !.kind = "basic", !.status = 200, !.body = TRUE] \in Responses
    BY ZenonT(60) DEF Responses
<1>4. LocalResponse \in Responses
    BY <1>1, <1>2, <1>3, Zenon
<1>5. QED
    BY <1>1, <1>4

(* Steps that only move the phase, or end a hop with a response.           *)
LEMMA AbortCore == CoreInv /\ Abort => CoreInv'
BY DEF CoreInv, ReqInv, HttpInv, PromiseInv, SentInv, TypeOK, Phases, InHttp, Abort

LEMMA FetchAlreadyAbortedCore == CoreInv /\ FetchAlreadyAborted => CoreInv'
BY DEF CoreInv, ReqInv, HttpInv, PromiseInv, SentInv, TypeOK, Phases, InHttp, FetchAlreadyAborted

LEMMA FetchCallCore == CoreInv /\ FetchCall => CoreInv'
BY DEF CoreInv, ReqInv, HttpInv, PromiseInv, SentInv, TypeOK, Phases, InHttp, FetchCall

LEMMA TaskStartCore == CoreInv /\ TaskStart => CoreInv'
BY DEF CoreInv, ReqInv, HttpInv, PromiseInv, SentInv, TypeOK, Phases, InHttp, TaskStart

LEMMA MainFetchFileCore == CoreInv /\ MainFetchFile => CoreInv'
BY DEF CoreInv, ReqInv, HttpInv, PromiseInv, SentInv, TypeOK, Phases, InHttp, MainFetchFile

LEMMA MainFetchSameOriginCore == CoreInv /\ MainFetchSameOrigin => CoreInv'
BY ReturnType, LocalResponseType DEF CoreInv, ReqInv, HttpInv, PromiseInv, SentInv, TypeOK, Phases, InHttp, MainFetchSameOrigin

LEMMA MainFetchSchemeCore == CoreInv /\ MainFetchScheme => CoreInv'
BY ReturnType, LocalResponseType DEF CoreInv, ReqInv, HttpInv, PromiseInv, SentInv, TypeOK, Phases, InHttp, MainFetchScheme

LEMMA MainFetchOtherCore == CoreInv /\ MainFetchOther => CoreInv'
BY ReturnType, LocalResponseType DEF CoreInv, ReqInv, HttpInv, PromiseInv, SentInv, TypeOK, Phases, InHttp, MainFetchOther

(* main_fetch's port check and taint are what InHttp carries to the send. *)
LEMMA MainFetchHttpCore == CoreInv /\ MainFetchHttp => CoreInv'
<1> SUFFICES ASSUME CoreInv, MainFetchHttp PROVE CoreInv'
    OBVIOUS
<1>1. CASE BadPort(req.url)
    BY <1>1, ReturnType, LocalResponseType
       DEF CoreInv, ReqInv, HttpInv, PromiseInv, SentInv, TypeOK, Phases, InHttp, MainFetchHttp
<1>2. CASE ~BadPort(req.url) /\ req.mode = "no-cors" /\ req.redirect # "follow"
    BY <1>2, ReturnType, LocalResponseType
       DEF CoreInv, ReqInv, HttpInv, PromiseInv, SentInv, TypeOK, Phases, InHttp, MainFetchHttp
<1>3. CASE ~BadPort(req.url) /\ ~(req.mode = "no-cors" /\ req.redirect # "follow")
    <2>0. /\ phase = "main"
          /\ taint' = TaintOf(req.mode)
          /\ taint0' = IF hops = 0 THEN taint' ELSE taint0
          /\ isNew' = FALSE /\ attempts' = 0 /\ phase' = "send"
          /\ UNCHANGED <<resp, req, origMethod, hops, opaque, arrived,
                         aborted, abortedEarly, promise, sent>>
        BY <1>3 DEF MainFetchHttp, TaintOf
    <2>1. TypeOK'
        BY <2>0 DEF CoreInv, TypeOK, Phases, TaintOf
    <2>2. HttpInv'
        BY <1>3, <2>0 DEF HttpInv, InHttp
    <2>3. PromiseInv'  
        BY <2>0 DEF CoreInv, PromiseInv, TaintOf
    <2>4. QED
        BY <2>0, <2>1, <2>2, <2>3 DEF CoreInv, ReqInv, HttpInv, SentInv
<1>4. QED
    BY <1>1, <1>2, <1>3

(* Only-if-cached, the transport, the file system and the abort arm.       *)
LEMMA HttpNetworkFetchOnlyIfCachedCore == CoreInv /\ HttpNetworkFetchOnlyIfCached => CoreInv'
BY LocalResponseType DEF CoreInv, ReqInv, HttpInv, PromiseInv, SentInv, TypeOK, Phases, InHttp, HttpNetworkFetchOnlyIfCached

LEMMA TransportFailCore == CoreInv /\ TransportFail => CoreInv'
BY LocalResponseType DEF CoreInv, ReqInv, HttpInv, PromiseInv, SentInv, TypeOK, Phases, InHttp, TransportFail

LEMMA FileReadDoneCore == CoreInv /\ FileReadDone => CoreInv'
BY LocalResponseType DEF CoreInv, ReqInv, HttpInv, PromiseInv, SentInv, TypeOK, Phases, InHttp, FileReadDone

LEMMA PollAbortCore == CoreInv /\ PollAbort => CoreInv'
BY DEF CoreInv, ReqInv, HttpInv, PromiseInv, SentInv, TypeOK, Phases, InHttp, PollAbort

(* The response the transport delivers is of the type.                     *)
LEMMA TransportRespondCore == CoreInv /\ TransportRespond => CoreInv'
<1> SUFFICES ASSUME CoreInv, TransportRespond PROVE CoreInv'
    OBVIOUS
<1>1. arrived' \in Responses
    BY FetchAssumption DEF TransportRespond, Responses, IsRedirection
<1>2. QED
    BY <1>1 DEF CoreInv, ReqInv, HttpInv, PromiseInv, SentInv, TypeOK, Phases, InHttp, TransportRespond

(* select polls `send` first: whatever arrived is taken.                    *)
LEMMA PollSendCore == CoreInv /\ PollSend => CoreInv'
<1> SUFFICES ASSUME CoreInv, PollSend PROVE CoreInv'
    OBVIOUS
<1>1. arrived \in Responses
    BY DEF CoreInv, TypeOK, PollSend
<1>2. CASE phase = "wait"
    BY <1>1, <1>2 DEF CoreInv, ReqInv, HttpInv, PromiseInv, SentInv, TypeOK, Phases, InHttp, PollSend
<1>3. CASE phase = "read"
    BY <1>1, <1>3, ReturnType DEF CoreInv, ReqInv, HttpInv, PromiseInv, SentInv, TypeOK, Phases, InHttp, PollSend
<1>4. QED
    BY <1>2, <1>3 DEF PollSend

(* The request http_network_fetch sends passes every check: the port and   *)
(* taint were fixed by main_fetch, the credentials by the redirect.        *)
LEMMA HttpNetworkFetchSendCore == CoreInv /\ HttpNetworkFetchSend => CoreInv'
<1> SUFFICES ASSUME CoreInv, HttpNetworkFetchSend PROVE CoreInv'
    OBVIOUS
<1> DEFINE s0 == [url |-> req.url, hop |-> hops, taint |-> taint,
                  method |-> req.method, body |-> req.body]
<1>1. sent' = sent \cup {s0}
    BY DEF HttpNetworkFetchSend
<1>2. /\ ~BadPort(req.url)
      /\ taint = TaintOf(req.mode)
    BY DEF CoreInv, HttpInv, InHttp, HttpNetworkFetchSend
<1>3. s0 \in SentRecords
    BY <1>2 DEF CoreInv, TypeOK, RequestValues, SentRecords, TaintOf
<1>4. Contract!Allowed(s0)
    <2>1. req.url.port \notin BAD_PORTS \ {NoPort}
        BY <1>2 DEF BadPort
    <2>2. (hops > 0 /\ taint = "cors") => ~req.url.userinfo
        BY <1>2 DEF CoreInv, ReqInv, TaintOf
    <2>3. QED
        BY <2>1, <2>2 DEF Contract!Allowed, CoreInv, ReqInv, ValidRequest
<1>5. TypeOK'
    BY <1>1, <1>3 DEF CoreInv, TypeOK, Phases, HttpNetworkFetchSend
<1>6. SentInv'
    BY <1>1, <1>4 DEF CoreInv, SentInv
<1>7. QED
    BY <1>5, <1>6 DEF CoreInv, ReqInv, HttpInv, PromiseInv, InHttp, HttpNetworkFetchSend

(* http_network_fetch after the await, and http_fetch: the phase stays     *)
(* within InHttp or the hop ends with a response.                          *)
LEMMA HttpNetworkFetchRespondCore == CoreInv /\ HttpNetworkFetchRespond => CoreInv'
<1> SUFFICES ASSUME CoreInv, HttpNetworkFetchRespond PROVE CoreInv'
    OBVIOUS
<1>1. CASE resp.kind # "error" /\ resp.status = 407 /\ ~req.clientWindow
    BY <1>1, LocalResponseType DEF CoreInv, ReqInv, HttpInv, PromiseInv, SentInv, TypeOK, Phases, InHttp, HttpNetworkFetchRespond
<1>2. CASE ~(resp.kind # "error" /\ resp.status = 407 /\ ~req.clientWindow)
    <2>0. isNew \in BOOLEAN
        BY DEF CoreInv, TypeOK
    <2>1. /\ phase = "net" /\ phase' \in {"http", "send"} /\ isNew' \in BOOLEAN
          /\ UNCHANGED <<resp, req, origMethod, hops, taint, taint0, opaque,
                         attempts, arrived, aborted, abortedEarly, promise, sent>>
        BY <1>2, <2>0 DEF HttpNetworkFetchRespond
    <2>2. QED
        BY <2>1 DEF CoreInv, ReqInv, HttpInv, PromiseInv, SentInv, TypeOK, Phases, InHttp
<1>3. QED
    BY <1>1, <1>2

LEMMA HttpFetchCore == CoreInv /\ HttpFetch => CoreInv'
<1> SUFFICES ASSUME CoreInv, HttpFetch PROVE CoreInv'
    OBVIOUS
<1> DEFINE redir == resp.status # NoStatus /\ IsRedirection(resp.status)
<1>1. resp \in Responses
    BY DEF CoreInv, TypeOK
<1>2. CASE redir /\ req.redirect = "follow"
    BY <1>2 DEF CoreInv, ReqInv, HttpInv, PromiseInv, SentInv, TypeOK, Phases, InHttp, HttpFetch
<1>3. CASE redir /\ req.redirect = "error"
    BY <1>3, ReturnType, LocalResponseType DEF CoreInv, ReqInv, HttpInv, PromiseInv, SentInv, TypeOK, Phases, InHttp, HttpFetch
<1>4. CASE redir /\ req.redirect = "manual"
    BY <1>1, <1>4, ReturnType DEF CoreInv, ReqInv, HttpInv, PromiseInv, SentInv, TypeOK, Phases, InHttp, HttpFetch
<1>5. CASE ~redir
    BY <1>1, <1>5, ReturnType DEF CoreInv, ReqInv, HttpInv, PromiseInv, SentInv, TypeOK, Phases, InHttp, HttpFetch
<1>6. QED
    BY <1>2, <1>3, <1>4, <1>5, FetchAssumption DEF CoreInv, TypeOK, RequestValues

(* main_fetch's filter yields a response of the type without Set-Cookie, *)
(* on each of its arms.                                                    *)
LEMMA FilteredType ==
    ASSUME NEW r \in Responses, taint0 \in {"basic", "cors"}
    PROVE  /\ Filtered(r) \in Responses
           /\ Filtered(r).names \cap FORBIDDEN_RESPONSE_HEADERS = {}
<1>1. CASE opaque
    <2>1. Filtered(r) = [r EXCEPT !.kind = "opaqueredirect", !.status = NoStatus,
                                  !.body = FALSE, !.names = {}, !.multi = {}]
        BY <1>1 DEF Filtered
    <2>2. /\ [r EXCEPT !.kind = "opaqueredirect", !.status = NoStatus,
                       !.body = FALSE, !.names = {}, !.multi = {}] \in Responses
          /\ [r EXCEPT !.kind = "opaqueredirect", !.status = NoStatus,
                       !.body = FALSE, !.names = {}, !.multi = {}].names = {}
        BY DEF Responses, NoStatus
    <2>3. QED
        BY <2>1, <2>2
<1>2. CASE ~opaque /\ taint0 = "basic"
    <2>1. \E b \in BOOLEAN :
             Filtered(r) = [r EXCEPT !.kind = "basic", !.body = b,
                                     !.names = @ \ FORBIDDEN_RESPONSE_HEADERS]
        BY <1>2 DEF Filtered
    <2>2. ASSUME NEW b \in BOOLEAN
          PROVE  /\ [r EXCEPT !.kind = "basic", !.body = b,
                              !.names = @ \ FORBIDDEN_RESPONSE_HEADERS] \in Responses
                 /\ [r EXCEPT !.kind = "basic", !.body = b,
                              !.names = @ \ FORBIDDEN_RESPONSE_HEADERS].names
                      \cap FORBIDDEN_RESPONSE_HEADERS = {}
        BY DEF Responses
    <2>3. QED
        BY <2>1, <2>2
<1>3. CASE ~opaque /\ taint0 = "cors"
    <2>1. \E b \in BOOLEAN :
             Filtered(r) = [r EXCEPT !.kind = "cors", !.body = b,
                                     !.names = (@ \ CorsRemoved(r)) \ FORBIDDEN_RESPONSE_HEADERS]
        BY <1>3 DEF Filtered
    <2>2. ASSUME NEW b \in BOOLEAN
          PROVE  /\ [r EXCEPT !.kind = "cors", !.body = b,
                              !.names = (@ \ CorsRemoved(r)) \ FORBIDDEN_RESPONSE_HEADERS]
                      \in Responses
                 /\ [r EXCEPT !.kind = "cors", !.body = b,
                              !.names = (@ \ CorsRemoved(r)) \ FORBIDDEN_RESPONSE_HEADERS].names
                      \cap FORBIDDEN_RESPONSE_HEADERS = {}
        BY DEF Responses
    <2>3. QED
        BY <2>1, <2>2
<1>4. QED
    BY <1>1, <1>2, <1>3

(* main_fetch ends and the promise settles: the only step into "done"     *)
(* besides the aborts.                                                     *)
LEMMA MainFetchFinishCore == CoreInv /\ MainFetchFinish => CoreInv'
<1> SUFFICES ASSUME CoreInv, MainFetchFinish PROVE CoreInv'
    OBVIOUS
<1>1. resp \in Responses
    BY DEF CoreInv, TypeOK
<1>2. CASE resp.kind = "error"
    <2>1. resp' \in Responses
        <3>1. resp' = [resp EXCEPT !.redirected = FALSE]
            BY <1>2 DEF MainFetchFinish
        <3>2. QED
            BY <1>1, <3>1, Zenon DEF Responses
    <2>2. QED
        BY <1>2, <2>1 DEF CoreInv, ReqInv, HttpInv, PromiseInv, SentInv, TypeOK, Phases, InHttp, MainFetchFinish
<1>3. CASE resp.kind # "error"
    <2>1. /\ Filtered(resp) \in Responses
          /\ Filtered(resp).names \cap FORBIDDEN_RESPONSE_HEADERS = {}
        BY <1>1, FilteredType DEF CoreInv, PromiseInv
    <2>2. QED
        BY <1>3, <2>1 DEF CoreInv, ReqInv, HttpInv, PromiseInv, SentInv, TypeOK,
                          Phases, InHttp, MainFetchFinish
<1>4. QED
    BY <1>2, <1>3

(* http_redirect_fetch follows the Location: every check of mod.rs       *)
(* 505-541 passes.                                                         *)
Follows ==
    /\ resp.locs = 1
    /\ resp.loc # InvalidUrl
    /\ resp.loc.scheme \in {"http", "https"}
    /\ hops < RedirectLimit
    /\ ~(taint = "cors" /\ resp.loc.userinfo)

(* http_redirect_fetch: the credentials check is made with the taint of    *)
(* the hop before, which is the one the next hop gets, since the mode is   *)
(* never rewritten; the rewrite to GET drops the body.                     *)
LEMMA HttpRedirectFetchCore == CoreInv /\ HttpRedirectFetch => CoreInv'
<1> SUFFICES ASSUME CoreInv, RedirectFetchWith(TRUE, hops < RedirectLimit, TRUE)
             PROVE  CoreInv'
    BY DEF HttpRedirectFetch
<1>1. resp \in Responses /\ req \in RequestValues /\ hops \in Nat
    BY DEF CoreInv, TypeOK
<1>2. CASE ~Follows
    BY <1>1, <1>2, ReturnType, LocalResponseType
       DEF CoreInv, ReqInv, HttpInv, PromiseInv, SentInv, TypeOK, Phases, InHttp,
           RedirectFetchWith, Follows
<1>3. CASE Follows
    <2>1. /\ req' = IF RewritesMethod(resp.status, req.method)
                    THEN [req EXCEPT !.method = "GET", !.body = @ /\ ~TRUE,
                                     !.hdrs = @ \ CONTENT_HEADERS,
                                     !.url = resp.loc]
                    ELSE [req EXCEPT !.url = resp.loc]
          /\ hops' = hops + 1
          /\ phase' = "main" /\ phase = "redirect"
          /\ UNCHANGED <<resp, origMethod, taint, taint0, opaque, isNew,
                         attempts, arrived, aborted, abortedEarly, promise, sent>>
        BY <1>3 DEF RedirectFetchWith, Follows
    <2>2. resp.loc \in Urls
        BY <1>1, <1>3 DEF Responses, Follows
    <2>3. /\ req' \in RequestValues
          /\ req'.url = resp.loc /\ req'.mode = req.mode
          /\ ValidRequest(req')
        <3>1. CASE RewritesMethod(resp.status, req.method)
            BY <1>1, <2>1, <2>2, <3>1 DEF RequestValues, ValidRequest
        <3>2. CASE ~RewritesMethod(resp.status, req.method)
            BY <1>1, <2>1, <2>2, <3>2 DEF RequestValues, ValidRequest, CoreInv, ReqInv
        <3>3. QED
            BY <3>1, <3>2
    <2>4. taint = TaintOf(req.mode)
        BY <2>1 DEF CoreInv, HttpInv, InHttp
    <2>5. ReqInv'
        <3>1. hops' <= RedirectLimit
            BY <1>1, <1>3, <2>1, FetchAssumption DEF Follows
        <3>2. (hops' > 0 /\ req'.mode # "no-cors") => ~req'.url.userinfo
            BY <1>3, <2>3, <2>4 DEF TaintOf, Follows
        <3>3. QED
            BY <2>3, <3>1, <3>2 DEF ReqInv
    <2>6. TypeOK'
        BY <1>1, <2>1, <2>3 DEF CoreInv, TypeOK, Phases
    <2>7. QED
        BY <2>1, <2>5, <2>6 DEF CoreInv, HttpInv, PromiseInv, SentInv, InHttp
<1>4. QED
    BY <1>2, <1>3

-----------------------------------------------------------------------------
(* Every step of the pipeline keeps CoreInv.                               *)
LEMMA NextCore == CoreInv /\ [Next]_vars => CoreInv'
<1> SUFFICES ASSUME CoreInv, [Next]_vars PROVE CoreInv'
    OBVIOUS
<1>1. CASE UNCHANGED vars
    BY <1>1 DEF vars, CoreInv, ReqInv, HttpInv, PromiseInv, SentInv, TypeOK, InHttp
<1>2. CASE Next
    BY <1>2, AbortCore, FetchAlreadyAbortedCore, FetchCallCore, TaskStartCore,
       MainFetchSameOriginCore, MainFetchSchemeCore, MainFetchFileCore,
       MainFetchHttpCore, MainFetchOtherCore,
       HttpNetworkFetchOnlyIfCachedCore, HttpNetworkFetchSendCore,
       TransportRespondCore, TransportFailCore, FileReadDoneCore,
       PollSendCore, PollAbortCore, HttpNetworkFetchRespondCore,
       HttpFetchCore, HttpRedirectFetchCore, MainFetchFinishCore
       DEF Next
<1>3. QED
    BY <1>1, <1>2

(* Once fulfilled, the promise and its response never change: only        *)
(* MainFetchFinish fulfils, and in "done" no step but Abort runs.          *)
LEMMA NextLeak == IInv /\ [Next]_vars => NoForbiddenHeaderLeak'
<1> SUFFICES ASSUME IInv, [Next]_vars PROVE NoForbiddenHeaderLeak'
    OBVIOUS
<1>1. /\ NoForbiddenHeaderLeak
      /\ phase # "done" => promise = "pending"
      /\ taint0 \in {"basic", "cors"}
      /\ resp \in Responses
    BY DEF IInv, CoreInv, PromiseInv, TypeOK
<1>2. CASE Abort
    BY <1>2, <1>1 DEF Abort, NoForbiddenHeaderLeak
<1>3. CASE FetchAlreadyAborted
    BY <1>3, <1>1 DEF FetchAlreadyAborted, NoForbiddenHeaderLeak
<1>4. CASE FetchCall
    BY <1>4, <1>1 DEF FetchCall, NoForbiddenHeaderLeak
<1>5. CASE TaskStart
    BY <1>5, <1>1 DEF TaskStart, NoForbiddenHeaderLeak
<1>6. CASE MainFetchSameOrigin
    BY <1>6, <1>1 DEF MainFetchSameOrigin, NoForbiddenHeaderLeak
<1>7. CASE MainFetchScheme
    BY <1>7, <1>1 DEF MainFetchScheme, NoForbiddenHeaderLeak
<1>8. CASE MainFetchFile
    BY <1>8, <1>1 DEF MainFetchFile, NoForbiddenHeaderLeak
<1>9. CASE MainFetchHttp
    BY <1>9, <1>1 DEF MainFetchHttp, NoForbiddenHeaderLeak
<1>10. CASE MainFetchOther
    BY <1>10, <1>1 DEF MainFetchOther, NoForbiddenHeaderLeak
<1>11. CASE HttpNetworkFetchOnlyIfCached
    BY <1>11, <1>1 DEF HttpNetworkFetchOnlyIfCached, NoForbiddenHeaderLeak
<1>12. CASE HttpNetworkFetchSend
    BY <1>12, <1>1 DEF HttpNetworkFetchSend, NoForbiddenHeaderLeak
<1>13. CASE TransportRespond
    BY <1>13, <1>1 DEF TransportRespond, NoForbiddenHeaderLeak
<1>14. CASE TransportFail
    BY <1>14, <1>1 DEF TransportFail, NoForbiddenHeaderLeak
<1>15. CASE FileReadDone
    BY <1>15, <1>1 DEF FileReadDone, NoForbiddenHeaderLeak
<1>16. CASE PollSend
    BY <1>16, <1>1 DEF PollSend, NoForbiddenHeaderLeak
<1>17. CASE PollAbort
    BY <1>17, <1>1 DEF PollAbort, NoForbiddenHeaderLeak
<1>18. CASE HttpNetworkFetchRespond
    BY <1>18, <1>1 DEF HttpNetworkFetchRespond, NoForbiddenHeaderLeak
<1>19. CASE HttpFetch
    BY <1>19, <1>1 DEF HttpFetch, NoForbiddenHeaderLeak
<1>20. CASE HttpRedirectFetch
    BY <1>20, <1>1 DEF HttpRedirectFetch, RedirectFetchWith, NoForbiddenHeaderLeak
<1>21. CASE MainFetchFinish
    <2>1. CASE resp.kind = "error"
        BY <1>21, <2>1 DEF MainFetchFinish, NoForbiddenHeaderLeak
    <2>2. CASE resp.kind # "error"
        BY <1>1, <1>21, <2>2, FilteredType DEF MainFetchFinish, NoForbiddenHeaderLeak
    <2>3. QED
        BY <2>1, <2>2
<1>22. CASE UNCHANGED vars
    BY <1>1, <1>22 DEF vars, NoForbiddenHeaderLeak
<1>23. QED
    BY <1>2, <1>3, <1>4, <1>5, <1>6, <1>7, <1>8, <1>9, <1>10, <1>11, <1>12, <1>13, <1>14, <1>15, <1>16, <1>17, <1>18, <1>19, <1>20, <1>21, <1>22 DEF Next

(* Only main_fetch, which zeroes the count, and the 421 arm, which sets    *)
(* is_new, enter "send"; the send counts the request it makes.             *)
LEMMA NextRetry == CoreInv /\ RetryInv /\ [Next]_vars => RetryInv'
<1> SUFFICES ASSUME CoreInv, RetryInv, [Next]_vars PROVE RetryInv'
    OBVIOUS
<1>1. attempts \in Nat /\ isNew \in BOOLEAN
    BY DEF CoreInv, TypeOK
<1>2. CASE Abort
    BY <1>2, <1>1 DEF Abort, RetryInv
<1>3. CASE FetchAlreadyAborted
    BY <1>3, <1>1 DEF FetchAlreadyAborted, RetryInv
<1>4. CASE FetchCall
    BY <1>4, <1>1 DEF FetchCall, RetryInv
<1>5. CASE TaskStart
    BY <1>5, <1>1 DEF TaskStart, RetryInv
<1>6. CASE MainFetchSameOrigin
    BY <1>6, <1>1 DEF MainFetchSameOrigin, RetryInv, Return
<1>7. CASE MainFetchScheme
    BY <1>7, <1>1 DEF MainFetchScheme, RetryInv, Return
<1>8. CASE MainFetchFile
    BY <1>8, <1>1 DEF MainFetchFile, RetryInv
<1>9. CASE MainFetchHttp
    BY <1>9, <1>1 DEF MainFetchHttp, RetryInv, Return
<1>10. CASE MainFetchOther
    BY <1>10, <1>1 DEF MainFetchOther, RetryInv, Return
<1>11. CASE HttpNetworkFetchOnlyIfCached
    BY <1>11, <1>1 DEF HttpNetworkFetchOnlyIfCached, RetryInv
<1>12. CASE HttpNetworkFetchSend
    BY <1>12, <1>1 DEF HttpNetworkFetchSend, RetryInv
<1>13. CASE TransportRespond
    BY <1>13, <1>1 DEF TransportRespond, RetryInv
<1>14. CASE TransportFail
    BY <1>14, <1>1 DEF TransportFail, RetryInv
<1>15. CASE FileReadDone
    BY <1>15, <1>1 DEF FileReadDone, RetryInv
<1>16. CASE PollSend
    BY <1>16, <1>1 DEF PollSend, RetryInv, Return
<1>17. CASE PollAbort
    BY <1>17, <1>1 DEF PollAbort, RetryInv
<1>18. CASE HttpNetworkFetchRespond
    BY <1>18, <1>1 DEF HttpNetworkFetchRespond, RetryInv
<1>19. CASE HttpFetch
    BY <1>19, <1>1 DEF HttpFetch, RetryInv, Return
<1>20. CASE HttpRedirectFetch
    BY <1>20, <1>1 DEF HttpRedirectFetch, RetryInv, RedirectFetchWith, Return
<1>21. CASE MainFetchFinish
    BY <1>21, <1>1 DEF MainFetchFinish, RetryInv
<1>22. CASE UNCHANGED vars
    BY <1>22 DEF vars, RetryInv
<1>23. QED
    BY <1>2, <1>3, <1>4, <1>5, <1>6, <1>7, <1>8, <1>9, <1>10, <1>11, <1>12, <1>13, <1>14, <1>15, <1>16, <1>17, <1>18, <1>19, <1>20, <1>21, <1>22 DEF Next

-----------------------------------------------------------------------------
(* IInv holds in every state of every behaviour of the pipeline.           *)
LEMMA InitIInv == Init => IInv
BY InitCore DEF Init, IInv, NoForbiddenHeaderLeak, RetryInv

LEMMA NextIInv == IInv /\ [Next]_vars => IInv'
BY NextCore, NextLeak, NextRetry DEF IInv

THEOREM FetchInvariant == Spec => []IInv
<1>1. Init => IInv
    BY InitIInv
<1>2. IInv /\ [Next]_vars => IInv'
    BY NextIInv
<1>3. QED
    BY <1>1, <1>2, PTL DEF Spec

(* Every variable of the fetch task keeps its type (TypeOK of Fetch),     *)
(* through every redirect, retry and abort.                                *)
THEOREM FetchTypeCorrect == Spec => []TypeOK
<1>1. IInv => TypeOK
    BY DEF IInv, CoreInv
<1>2. QED
    BY <1>1, FetchInvariant, PTL

(* main_fetch's port check (mod.rs 217-221) runs on every hop, so no      *)
(* request of any redirect chain goes to a port of BAD_PORTS.              *)
THEOREM BadPortNeverContacted == Spec => []NoBadPortContacted
<1>1. IInv => NoBadPortContacted
    BY DEF IInv, CoreInv, SentInv, Contract!Allowed, NoBadPortContacted, BadPort
<1>2. QED
    BY <1>1, FetchInvariant, PTL

(* http_redirect_fetch's credentials check (mod.rs 535-537), made with    *)
(* the taint of the hop before, keeps every cors redirect free of          *)
(* credentials in its URL.                                                 *)
THEOREM CorsRedirectNeverCredentialed == Spec => []NoCredentialedCorsRedirect
<1>1. IInv => NoCredentialedCorsRedirect
    BY DEF IInv, CoreInv, SentInv, Contract!Allowed, NoCredentialedCorsRedirect
<1>2. QED
    BY <1>1, FetchInvariant, PTL

(* The rewrite to GET in http_redirect_fetch (mod.rs 543-552) drops the    *)
(* body, so no GET or HEAD request is ever sent with one.                  *)
THEOREM GetOrHeadNeverHasBody == Spec => []NoBodyOnGetOrHead
<1>1. IInv => NoBodyOnGetOrHead
    BY DEF IInv, CoreInv, SentInv, Contract!Allowed, NoBodyOnGetOrHead
<1>2. QED
    BY <1>1, FetchInvariant, PTL

(* main_fetch's filter removes Set-Cookie on every arm, and the response   *)
(* handed to the script never changes afterwards.                          *)
THEOREM ForbiddenHeaderNeverLeaks == Spec => []NoForbiddenHeaderLeak
<1>1. IInv => NoForbiddenHeaderLeak
    BY DEF IInv
<1>2. QED
    BY <1>1, FetchInvariant, PTL

(* The `!is_new` guard of the 421 retry (mod.rs 498) lets a hop send its   *)
(* request at most twice.                                                  *)
THEOREM RetryHappensOnce == Spec => []RetryAtMostOnce
<1>1. IInv => RetryAtMostOnce
    BY DEF IInv, CoreInv, TypeOK, RetryInv, RetryAtMostOnce
<1>2. QED
    BY <1>1, FetchInvariant, PTL

-----------------------------------------------------------------------------
(***************************************************************************)
(* Refinement: the pipeline implements FetchContract.                      *)
(***************************************************************************)

(* A step of the task before it is done that settles nothing and sends    *)
(* nothing is a stutter of the contract: the script sees no response yet. *)
LEMMA InternalStep ==
    ASSUME CoreInv, phase # "done", UNCHANGED <<promise, aborted, sent>>
    PROVE  UNCHANGED Contract!vars
BY DEF CoreInv, PromiseInv, Contract!vars

(* Every step of the pipeline is a step of the contract or a stutter.      *)
LEMMA StepRefines ==
    IInv /\ IInv' /\ [Next]_vars => [Contract!Next]_Contract!vars
<1> SUFFICES ASSUME IInv, IInv', [Next]_vars
             PROVE  [Contract!Next]_Contract!vars
    OBVIOUS
<1>1. CoreInv /\ (phase # "done" => promise = "pending")
    BY DEF IInv, CoreInv, PromiseInv
<1>2. CASE Abort
    <2>1. Contract!Abort
        BY <1>2 DEF Abort, Contract!Abort
    <2>2. QED
        BY <2>1 DEF Contract!Next
<1>3. CASE FetchAlreadyAborted \/ PollAbort
    <2>1. Contract!RejectAbort
        BY <1>1, <1>3 DEF FetchAlreadyAborted, PollAbort, Contract!RejectAbort
    <2>2. QED
        BY <2>1 DEF Contract!Next
<1>4. CASE HttpNetworkFetchSend
    <2> DEFINE s0 == [url |-> req.url, hop |-> hops, taint |-> taint,
                      method |-> req.method, body |-> req.body]
    <2>1. s0 \in sent' /\ sent' = sent \cup {s0}
        BY <1>4 DEF HttpNetworkFetchSend
    <2>2. Contract!Allowed(s0)
        BY <2>1 DEF IInv, CoreInv, SentInv
    <2>3. Contract!Send(s0)
        BY <1>1, <1>4, <2>1, <2>2 DEF HttpNetworkFetchSend, Contract!Send
    <2>4. QED
        BY <2>1, <2>3 DEF Contract!Next
<1>5. CASE MainFetchFinish
    <2>1. CASE resp.kind = "error"
        <3>1. Contract!RejectType
            BY <1>1, <1>5, <2>1 DEF MainFetchFinish, Contract!RejectType
        <3>2. QED
            BY <3>1 DEF Contract!Next
    <2>2. CASE resp.kind # "error"
        <3>1. promise' = "fulfilled"
            BY <1>5, <2>2 DEF MainFetchFinish
        <3>2. resp'.names \cap FORBIDDEN_RESPONSE_HEADERS = {}
            BY <3>1 DEF IInv, NoForbiddenHeaderLeak
        <3>3. Contract!Fulfil
            BY <1>1, <1>5, <3>1, <3>2 DEF MainFetchFinish, Contract!Fulfil
        <3>4. QED
            BY <3>3 DEF Contract!Next
    <2>3. QED
        BY <2>1, <2>2
<1>6. CASE Next /\ ~Abort /\ ~FetchAlreadyAborted /\ ~PollAbort
           /\ ~HttpNetworkFetchSend /\ ~MainFetchFinish
    <2> USE <1>1
    <2>1. CASE FetchCall
        BY <2>1, InternalStep DEF FetchCall
    <2>2. CASE TaskStart
        BY <2>2, InternalStep DEF TaskStart
    <2>3. CASE MainFetchSameOrigin
        BY <2>3, InternalStep DEF MainFetchSameOrigin
    <2>4. CASE MainFetchScheme
        BY <2>4, InternalStep DEF MainFetchScheme
    <2>5. CASE MainFetchFile
        BY <2>5, InternalStep DEF MainFetchFile
    <2>6. CASE MainFetchHttp
        BY <2>6, InternalStep DEF MainFetchHttp
    <2>7. CASE MainFetchOther
        BY <2>7, InternalStep DEF MainFetchOther
    <2>8. CASE HttpNetworkFetchOnlyIfCached
        BY <2>8, InternalStep DEF HttpNetworkFetchOnlyIfCached
    <2>9. CASE TransportRespond
        BY <2>9, InternalStep DEF TransportRespond
    <2>10. CASE TransportFail
        BY <2>10, InternalStep DEF TransportFail
    <2>11. CASE FileReadDone
        BY <2>11, InternalStep DEF FileReadDone
    <2>12. CASE PollSend
        BY <2>12, InternalStep DEF PollSend
    <2>13. CASE HttpNetworkFetchRespond
        BY <2>13, InternalStep DEF HttpNetworkFetchRespond
    <2>14. CASE HttpFetch
        BY <2>14, InternalStep DEF HttpFetch
    <2>15. CASE HttpRedirectFetch
        BY <2>15, InternalStep DEF HttpRedirectFetch, RedirectFetchWith
    <2>16. QED
        BY <1>6, <2>1, <2>2, <2>3, <2>4, <2>5, <2>6, <2>7, <2>8, <2>9, <2>10,
           <2>11, <2>12, <2>13, <2>14, <2>15 DEF Next
<1>7. CASE UNCHANGED vars
    BY <1>7 DEF vars, Contract!vars
<1>8. QED
    BY <1>2, <1>3, <1>4, <1>5, <1>6, <1>7

(* The fetch pipeline implements FetchContract (FetchRefinesContract): the *)
(* promise of `fetch` settles once, with the abort reason only after an    *)
(* abort; every request is sent while it is pending and passes the         *)
(* standard's checks; a fulfilled response hides Set-Cookie.               *)
THEOREM FetchImplementsContract == Spec => FetchRefinesContract
<1>1. Init => Contract!Init
    BY DEF Init, Contract!Init
<1>2. IInv /\ IInv' /\ [Next]_vars => [Contract!Next]_Contract!vars
    BY StepRefines
<1>3. QED
    BY <1>1, <1>2, FetchInvariant, PTL
       DEF Spec, FetchRefinesContract, Contract!Spec

=============================================================================
