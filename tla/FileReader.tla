----------------------------- MODULE FileReader -----------------------------
(***************************************************************************)
(* FileReader, runtime/src/globals/file/reader.rs, and the bridge it       *)
(* reads through, future_to_promise in runtime/src/promise.rs.             *)
(*                                                                         *)
(* Each readAs* method first calls FileReaderState::validate, which throws *)
(* a TypeError if the reader is Loading and otherwise sets it Loading.     *)
(* It then calls future_to_promise with an async block that sets the       *)
(* reader's `result`.  future_to_promise creates a promise, spawns the     *)
(* block on the thread's LocalSet with spawn_local, and only then looks at *)
(* the event loop's futures queue: if there is one, the task's JoinHandle  *)
(* is enqueued on it and the promise returned; if not, the handle is       *)
(* dropped and None returned.  The readAs* methods ignore what it returns. *)
(*                                                                         *)
(* The four readAs* methods differ only in how the task turns the bytes    *)
(* into `result`; a result is therefore modelled as the kind of read that  *)
(* produced it.  Read number n (the n-th read that validate accepted) is   *)
(* identified by n: the task, its JoinHandle and its promise.              *)
(***************************************************************************)
EXTENDS Naturals, Sequences

CONSTANTS
    Readers,       \* FileReader objects of the script
    Kinds,         \* "ArrayBuffer", "BinaryString", "Text", "DataURL"
    FuturesQueue,  \* whether event_loop.futures is Some
    MaxReads       \* bound on the reads validate accepts in a behaviour

VARIABLES
    state,      \* FileReader::state of each reader
    result,     \* FileReader::result: "null" or the kind of read that set it
    log,        \* the accepted reads, in order: [reader, kind]
    tasks,      \* reads whose spawned task has not run yet
    finished,   \* reads whose task has returned; its output is in the handle
    handles,    \* reads whose JoinHandle is on the futures queue
    promises,   \* the state of each read's promise
    answer      \* what the last readAs* call returned: "none", "ok", "TypeError"

vars == <<state, result, log, tasks, finished, handles, promises, answer>>

Reads == 1..MaxReads

(* FileReaderState: EMPTY, LOADING and DONE.                               *)
ReaderStates == {"Empty", "Loading", "Done"}

TypeOK ==
    /\ state \in [Readers -> ReaderStates]
    /\ result \in [Readers -> {"null"} \cup Kinds]
    /\ log \in Seq([reader : Readers, kind : Kinds])
    /\ Len(log) <= MaxReads
    /\ tasks \subseteq Reads
    /\ finished \subseteq Reads
    /\ handles \subseteq Reads
    /\ promises \in [Reads -> {"none", "pending", "fulfilled"}]
    /\ answer \in {"none", "ok", "TypeError"}

(* FileReader::default: Empty, with a null result.                         *)
Init ==
    /\ state = [r \in Readers |-> "Empty"]
    /\ result = [r \in Readers |-> "null"]
    /\ log = << >>
    /\ tasks = {}
    /\ finished = {}
    /\ handles = {}
    /\ promises = [n \in Reads |-> "none"]
    /\ answer = "none"

(***************************************************************************)
(* future_to_promise for read n: Promise::new, spawn_local of the task,    *)
(* then the JoinHandle goes on the futures queue if there is one and is    *)
(* dropped otherwise.  Dropping a JoinHandle detaches the task; it still   *)
(* runs.                                                                   *)
(***************************************************************************)
FutureToPromise(n) ==
    /\ promises' = [promises EXCEPT ![n] = "pending"]
    /\ tasks' = tasks \cup {n}
    /\ handles' = IF FuturesQueue THEN handles \cup {n} ELSE handles

(* FileReaderState::validate, when it succeeds.                            *)
Validate(r) ==
    /\ state[r] # "Loading"
    /\ state' = [state EXCEPT ![r] = "Loading"]

(***************************************************************************)
(* readAs*(blob) on reader r.  validate either throws, leaving everything  *)
(* as it was, or sets Loading, after which the read is handed to           *)
(* future_to_promise and the method returns Ok(()).                       *)
(***************************************************************************)
ReadAsRejected(r) ==
    /\ state[r] = "Loading"
    /\ answer' = "TypeError"
    /\ UNCHANGED <<state, result, log, tasks, finished, handles, promises>>

ReadAs(r, k) ==
    /\ Len(log) < MaxReads
    /\ Validate(r)
    /\ log' = Append(log, [reader |-> r, kind |-> k])
    /\ FutureToPromise(Len(log) + 1)
    /\ answer' = "ok"
    /\ UNCHANGED <<result, finished>>

(***************************************************************************)
(* The executor polls the task of read n.  The async block has no await    *)
(* point, so one poll runs it to the end: get_private finds the reader     *)
(* (the TracedHeap keeps it alive), the bytes are converted and `result`   *)
(* is set.  The block returns Ok(()), which the JoinHandle holds.          *)
(***************************************************************************)
TaskRun(n) ==
    /\ n \in tasks
    /\ result' = [result EXCEPT ![log[n].reader] = log[n].kind]
    /\ tasks' = tasks \ {n}
    /\ finished' = finished \cup {n}
    /\ UNCHANGED <<state, log, handles, promises, answer>>

(***************************************************************************)
(* The event loop's futures queue finds the JoinHandle of read n ready and *)
(* resolves the read's promise with the task's Ok value.                  *)
(***************************************************************************)
SettlePromise(n) ==
    /\ n \in handles \cap finished
    /\ promises' = [promises EXCEPT ![n] = "fulfilled"]
    /\ handles' = handles \ {n}
    /\ UNCHANGED <<state, result, log, tasks, finished, answer>>

Next ==
    \/ \E r \in Readers : ReadAsRejected(r)
    \/ \E r \in Readers, k \in Kinds : ReadAs(r, k)
    \/ \E n \in Reads : TaskRun(n)
    \/ \E n \in Reads : SettlePromise(n)

Spec == Init /\ [][Next]_vars

-----------------------------------------------------------------------------
(***************************************************************************)
(* Properties.                                                             *)
(***************************************************************************)

(* Spec 4.3: "If no scheduler is active, spawn fails with                 *)
(* NoEventLoopError and produces no handle."  Without a futures queue the  *)
(* async computation a readAs* hands to future_to_promise should then      *)
(* never run, and no reader's result should ever be set.                   *)
SpawnFailsWithoutQueue ==
    ~FuturesQueue => \A r \in Readers : result[r] = "null"

(* A reader whose read has finished is no longer Loading, so it can read   *)
(* again: only a second read while the first is Loading is an error.       *)
ReaderLeavesLoading ==
    \A n \in finished : state[log[n].reader] # "Loading"

=============================================================================
