--------------------------- MODULE MicrotaskQueue ---------------------------
(***************************************************************************)
(* The runtime's microtask queue, runtime/src/event_loop/microtasks.rs.    *)
(*                                                                         *)
(* MicrotaskQueue keeps a VecDeque of microtasks and a `draining` flag.    *)
(* `enqueue` pushes at the back and tells the engine that the queue may    *)
(* not be empty; `run_jobs` pops and runs microtasks until the queue is    *)
(* empty, then clears `draining` and tells the engine the queue is empty.  *)
(* A microtask runs JavaScript, which may enqueue further microtasks       *)
(* (promise reactions, queueMicrotask) before it returns, and a            *)
(* queueMicrotask callback may throw: `microtask.run(cx)?` then returns    *)
(* the error out of run_jobs at once.                                      *)
(*                                                                         *)
(* Everything runs on one thread.  `pc` is the position of that thread     *)
(* relative to run_jobs:                                                   *)
(*   "idle"  - outside run_jobs (the event loop, or a future completing);  *)
(*   "loop"  - at the head of run_jobs' `while let` loop;                  *)
(*   "run"   - inside `microtask.run(cx)` for the microtask `current`.     *)
(*                                                                         *)
(* Microtasks are model values; the same one may be queued twice, as a     *)
(* script may call queueMicrotask(f) twice with the same f.               *)
(***************************************************************************)
EXTENDS Naturals, Sequences

CONSTANTS
    PromiseJobs,   \* Microtask::Promise jobs: promise reaction jobs
    UserJobs,      \* Microtask::User jobs: queueMicrotask callbacks
    NoJob,         \* the value of `current` when no microtask is running
    MayThrow,      \* whether a queueMicrotask callback may throw
    MaxEnqueues    \* bound on the number of enqueue calls of a behaviour

Jobs == PromiseJobs \cup UserJobs

ASSUME JobsAssumption ==
    /\ PromiseJobs \cap UserJobs = {}
    /\ NoJob \notin Jobs
    /\ MayThrow \in BOOLEAN
    /\ MaxEnqueues \in Nat

VARIABLES
    queue,          \* MicrotaskQueue::queue
    draining,       \* MicrotaskQueue::draining
    pc,             \* where the thread is relative to run_jobs
    current,        \* the microtask being run when pc = "run"
    result,         \* what the last run_jobs call returned to its caller
    mayNotBeEmpty,  \* the engine's view: JobQueueMayNotBeEmpty/IsEmpty
    enqueued,       \* history: every microtask ever enqueued, in order
    ran             \* history: every microtask popped to run, in order

vars == <<queue, draining, pc, current, result, mayNotBeEmpty, enqueued, ran>>

TypeOK ==
    /\ queue \in Seq(Jobs)
    /\ draining \in BOOLEAN
    /\ pc \in {"idle", "loop", "run"}
    /\ current \in Jobs \cup {NoJob}
    /\ result \in {"none", "ok", "err"}
    /\ mayNotBeEmpty \in BOOLEAN
    /\ enqueued \in Seq(Jobs)
    /\ ran \in Seq(Jobs)

Init ==
    /\ queue = <<>>
    /\ draining = FALSE
    /\ pc = "idle"
    /\ current = NoJob
    /\ result = "none"
    /\ mayNotBeEmpty = FALSE
    /\ enqueued = <<>>
    /\ ran = <<>>

(***************************************************************************)
(* Mutants of enqueue (plausible slips in microtasks.rs 48-51): pushing at *)
(* the front, and forgetting to tell the engine.                           *)
(***************************************************************************)
EnqueueAtFront(j) ==
    /\ pc \in {"idle", "run"}
    /\ Len(enqueued) < MaxEnqueues
    /\ queue' = <<j>> \o queue
    /\ mayNotBeEmpty' = TRUE
    /\ enqueued' = Append(enqueued, j)
    /\ UNCHANGED <<draining, pc, current, result, ran>>

EnqueueSilently(j) ==
    /\ pc \in {"idle", "run"}
    /\ Len(enqueued) < MaxEnqueues
    /\ queue' = Append(queue, j)
    /\ enqueued' = Append(enqueued, j)
    /\ UNCHANGED <<draining, pc, current, result, ran, mayNotBeEmpty>>

(***************************************************************************)
(* MicrotaskQueue::enqueue, reached from enqueue_promise_job (the engine   *)
(* queueing a promise reaction) or from queueMicrotask.  It is called      *)
(* either from outside run_jobs or by the JavaScript of a running          *)
(* microtask; never between two statements of run_jobs itself.            *)
(***************************************************************************)
Enqueue(j) ==
    /\ pc \in {"idle", "run"}
    /\ Len(enqueued) < MaxEnqueues
    /\ queue' = Append(queue, j)
    /\ mayNotBeEmpty' = TRUE
    /\ enqueued' = Append(enqueued, j)
    /\ UNCHANGED <<draining, pc, current, result, ran>>

(***************************************************************************)
(* enqueue_promise_job, the engine's JobQueue trap for a promise reaction: *)
(* a non-null job is enqueued on the event loop's queue as                 *)
(* Microtask::Promise; a null job is skipped, which changes nothing, and   *)
(* the trap returns true either way.                                       *)
(***************************************************************************)
EnqueuePromiseJob(j) ==
    /\ j \in PromiseJobs
    /\ Enqueue(j)

(***************************************************************************)
(* run_jobs called by the event loop while `draining` is set: it returns   *)
(* Ok(()) at once without running anything.                               *)
(***************************************************************************)
RunJobsSkip ==
    /\ pc = "idle"
    /\ draining
    /\ result' = "ok"
    /\ UNCHANGED <<queue, draining, pc, current, mayNotBeEmpty, enqueued, ran>>

(***************************************************************************)
(* run_jobs called by the event loop with `draining` clear: it sets it and *)
(* enters the loop.                                                        *)
(***************************************************************************)
RunJobsStart ==
    /\ pc = "idle"
    /\ ~draining
    /\ draining' = TRUE
    /\ pc' = "loop"
    /\ UNCHANGED <<queue, current, result, mayNotBeEmpty, enqueued, ran>>

(***************************************************************************)
(* `while let Some(microtask) = self.queue.pop_front()`: pop the head and  *)
(* start running it.                                                       *)
(***************************************************************************)
PopMicrotask ==
    /\ pc = "loop"
    /\ queue # <<>>
    /\ current' = Head(queue)
    /\ queue' = Tail(queue)
    /\ ran' = Append(ran, Head(queue))
    /\ pc' = "run"
    /\ UNCHANGED <<draining, result, mayNotBeEmpty, enqueued>>

(***************************************************************************)
(* Microtask::run returned Ok: back to the head of the loop.              *)
(***************************************************************************)
MicrotaskReturns ==
    /\ pc = "run"
    /\ pc' = "loop"
    /\ current' = NoJob
    /\ UNCHANGED <<queue, draining, result, mayNotBeEmpty, enqueued, ran>>

(***************************************************************************)
(* Microtask::run returned Err (a queueMicrotask callback threw; a promise *)
(* job reports its exception through the promise instead).  The `?`       *)
(* returns the error from run_jobs, skipping `self.draining = false` and   *)
(* JobQueueIsEmpty.                                                        *)
(***************************************************************************)
MicrotaskThrows ==
    /\ pc = "run"
    /\ MayThrow
    /\ current \in UserJobs
    /\ pc' = "idle"
    /\ current' = NoJob
    /\ result' = "err"
    /\ UNCHANGED <<queue, draining, mayNotBeEmpty, enqueued, ran>>

(***************************************************************************)
(* Mutants of the end of run_jobs (microtasks.rs 60-67): leaving the loop  *)
(* while jobs remain (a drain over a snapshot of the queue), and not       *)
(* clearing `draining`.                                                    *)
(***************************************************************************)
DrainDoneEarly ==
    /\ pc = "loop"
    /\ draining' = FALSE
    /\ mayNotBeEmpty' = FALSE
    /\ result' = "ok"
    /\ pc' = "idle"
    /\ UNCHANGED <<queue, current, enqueued, ran>>

DrainDoneNoReset ==
    /\ pc = "loop"
    /\ queue = <<>>
    /\ mayNotBeEmpty' = FALSE
    /\ result' = "ok"
    /\ pc' = "idle"
    /\ UNCHANGED <<queue, draining, current, enqueued, ran>>

(***************************************************************************)
(* The loop finds the queue empty: clear `draining`, call JobQueueIsEmpty  *)
(* and return Ok(()).                                                      *)
(***************************************************************************)
DrainDone ==
    /\ pc = "loop"
    /\ queue = <<>>
    /\ draining' = FALSE
    /\ mayNotBeEmpty' = FALSE
    /\ result' = "ok"
    /\ pc' = "idle"
    /\ UNCHANGED <<queue, current, enqueued, ran>>

RunJobs == RunJobsSkip \/ RunJobsStart

Next ==
    \/ \E j \in PromiseJobs : EnqueuePromiseJob(j)
    \/ \E j \in UserJobs : Enqueue(j)
    \/ RunJobs
    \/ PopMicrotask
    \/ MicrotaskReturns
    \/ MicrotaskThrows
    \/ DrainDone

(***************************************************************************)
(* The event loop calls run_jobs on every turn while it runs, and the      *)
(* statements of run_jobs follow one another without waiting; a microtask  *)
(* is assumed to return.  Enqueueing is up to the script: no fairness.     *)
(***************************************************************************)
Fairness ==
    /\ WF_vars(RunJobs)
    /\ WF_vars(PopMicrotask)
    /\ WF_vars(MicrotaskReturns \/ MicrotaskThrows)
    /\ WF_vars(DrainDone)

Spec == Init /\ [][Next]_vars

FairSpec == Spec /\ Fairness

-----------------------------------------------------------------------------
(***************************************************************************)
(* Properties.                                                             *)
(***************************************************************************)

(***************************************************************************)
(* FIFO: the microtasks that have been popped, followed by those still     *)
(* queued, are exactly the microtasks enqueued, in enqueue order: enqueue  *)
(* from inside a running microtask never overtakes or drops a job, and     *)
(* an error escaping run_jobs loses nothing from the queue.               *)
(***************************************************************************)
FifoOrder == ran \o queue = enqueued

(***************************************************************************)
(* The engine is never told the queue is empty while it holds a job:       *)
(* JobQueueIsEmpty is only signalled when no microtask is left, and every  *)
(* enqueue re-arms JobQueueMayNotBeEmpty.                                  *)
(***************************************************************************)
EngineNotified == ~mayNotBeEmpty => queue = <<>>

(***************************************************************************)
(* A run_jobs call that returns Ok to the event loop has run every         *)
(* microtask enqueued so far, including those that microtasks of the same  *)
(* drain enqueued (the spec: "tasks enqueued during this same drain", and  *)
(* "a task that throws does not stop the drain of subsequent tasks").      *)
(***************************************************************************)
DrainCompletes ==
    [][(RunJobsSkip \/ DrainDone) => Len(ran') = Len(enqueued')]_vars

(***************************************************************************)
(* The queue implements the scheduler's contract (MicrotaskContract, from  *)
(* spec 4.2): `queue` is the FIFO of pending callbacks, the microtasks     *)
(* popped are those run, and the value run_jobs returns is the drain's     *)
(* result.  Every enqueue joins the tail, every pop runs the head, and     *)
(* run_jobs returns Ok or an error only with the queue empty; the steps    *)
(* inside run_jobs that touch none of these stutter.                       *)
(***************************************************************************)
Contract == INSTANCE MicrotaskContract
                WITH pending <- queue, done <- ran, returned <- result

QueueRefinesContract == Contract!CSpec

(***************************************************************************)
(* Every microtask that is enqueued is eventually run, under the event     *)
(* loop's repeated calls of run_jobs.                                      *)
(***************************************************************************)
EveryJobRuns ==
    \A n \in 1..MaxEnqueues : (Len(enqueued) >= n) ~> (Len(ran) >= n)

=============================================================================
