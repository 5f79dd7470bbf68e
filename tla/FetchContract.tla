--------------------------- MODULE FetchContract ---------------------------
(***************************************************************************)
(* What one call of `fetch` promises its caller, stated without the        *)
(* pipeline that keeps the promise (mod.rs: fetch, fetch_internal,         *)
(* main_fetch and the functions it calls).                                 *)
(*                                                                         *)
(* The promise starts pending and is settled once: fulfilled, rejected     *)
(* with a TypeError, or rejected with the abort reason, the last only      *)
(* after the signal was aborted.  While it is pending, requests may go out *)
(* to the network, each of them allowed by the fetch standard's checks:    *)
(* no bad port, a bounded number of redirects, no credentials in the URL   *)
(* of a cors redirect, no body on GET or HEAD.  Nothing is sent once the   *)
(* promise is settled.  A fulfilled promise hands the script a response    *)
(* whose header names hold no forbidden response header.                   *)
(***************************************************************************)
EXTENDS Naturals

CONSTANTS
    BadPorts,        \* ports a request may never be sent to
    RedirectLimit,   \* the most redirects a fetch follows
    ForbiddenNames   \* response headers the script may never see

VARIABLES
    promise,   \* "pending", "fulfilled", "rejected_type", "rejected_abort"
    aborted,   \* whether the AbortSignal has been aborted
    sent,      \* the requests handed to the network so far
    exposed    \* the header names of the response the script got

vars == <<promise, aborted, sent, exposed>>

(* A request the standard allows to go out: `hop` is the number of         *)
(* redirects followed before it, `taint` the response tainting of the      *)
(* fetch that sends it.                                                    *)
Allowed(s) ==
    /\ s.url.port \notin BadPorts
    /\ s.hop <= RedirectLimit
    /\ (s.hop > 0 /\ s.taint = "cors") => ~s.url.userinfo
    /\ s.method \in {"GET", "HEAD"} => ~s.body

Init ==
    /\ promise = "pending"
    /\ aborted = FALSE
    /\ sent = {}
    /\ exposed = {}

Abort ==
    /\ ~aborted
    /\ aborted' = TRUE
    /\ UNCHANGED <<promise, sent, exposed>>

(* A request goes out; if the signal is already aborted the promise may be *)
(* rejected in the same step.                                              *)
Send(s) ==
    /\ promise = "pending"
    /\ Allowed(s)
    /\ sent' = sent \cup {s}
    /\ \/ promise' = "pending"
       \/ aborted /\ promise' = "rejected_abort"
    /\ UNCHANGED <<aborted, exposed>>

RejectAbort ==
    /\ promise = "pending"
    /\ aborted
    /\ promise' = "rejected_abort"
    /\ UNCHANGED <<aborted, sent, exposed>>

RejectType ==
    /\ promise = "pending"
    /\ promise' = "rejected_type"
    /\ UNCHANGED <<aborted, sent, exposed>>

Fulfil ==
    /\ promise = "pending"
    /\ promise' = "fulfilled"
    /\ exposed' \cap ForbiddenNames = {}
    /\ UNCHANGED <<aborted, sent>>

Next ==
    \/ Abort
    \/ \E s \in sent' : Send(s)
    \/ RejectAbort
    \/ RejectType
    \/ Fulfil

Spec == Init /\ [][Next]_vars

=============================================================================
