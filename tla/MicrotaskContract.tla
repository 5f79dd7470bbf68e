-------------------------- MODULE MicrotaskContract --------------------------
(***************************************************************************)
(* What the microtask scheduler promises its callers (spec.md 4.2 and the  *)
(* ordering guarantee of section 5), with no drain loop and no flag:       *)
(*   - a deferred callback joins the tail of a FIFO of pending callbacks;  *)
(*   - callbacks run one at a time, always the head of that FIFO;          *)
(*   - run_jobs hands Ok or an error back to its caller only once every    *)
(*     callback enqueued so far, those enqueued during the drain           *)
(*     included, has run.                                                  *)
(* MicrotaskQueue instantiates it with its queue, its history of run       *)
(* microtasks and the value run_jobs last returned.                       *)
(***************************************************************************)
EXTENDS Sequences

CONSTANT Jobs          \* the deferred callbacks

VARIABLES
    pending,   \* callbacks enqueued and not yet run, oldest first
    done,      \* callbacks run so far, in the order they ran
    returned   \* what the last run_jobs call returned: "none", "ok", "err"

cvars == <<pending, done, returned>>

CInit ==
    /\ pending = <<>>
    /\ done = <<>>
    /\ returned = "none"

(* A callback is deferred: it joins the tail. *)
Add(j) ==
    /\ pending' = Append(pending, j)
    /\ UNCHANGED <<done, returned>>

(* The oldest pending callback runs. *)
RunHead ==
    /\ pending # <<>>
    /\ pending' = Tail(pending)
    /\ done' = Append(done, Head(pending))
    /\ UNCHANGED returned

(* A drain hands its result back, with nothing left pending. *)
Return(r) ==
    /\ pending = <<>>
    /\ returned' = r
    /\ UNCHANGED <<pending, done>>

CNext ==
    \/ \E j \in Jobs : Add(j)
    \/ RunHead
    \/ \E r \in {"ok", "err"} : Return(r)

CSpec == CInit /\ [][CNext]_cvars

=============================================================================
