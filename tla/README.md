# TLA+ models of spiderfire's runtime

This directory holds TLA+ specifications of the parts of spiderfire (a
JavaScript runtime on SpiderMonkey, written in Rust) that are protocols or
state machines: the microtask queue the event loop drains, the `fetch`
pipeline, local-scheme fetching with byte ranges, the FileReader with the
future-to-promise bridge, and ion's arrays with the way they are printed.
Each module is translated from the code under `src/`. TLC model-checks every
module on small instances. TLAPS proves the main invariants of the microtask
queue, of the FileReader and of the fetch pipeline for every instance, and
that the fetch pipeline implements an abstract contract of `fetch`.

## The system and its parts

| Part | Source | What it does |
|---|---|---|
| Microtask queue | `runtime/src/event_loop/microtasks.rs` | A FIFO of promise jobs and `queueMicrotask` callbacks. `run_jobs` drains it under a `draining` flag and tells the engine when the queue is empty. |
| Future-to-promise bridge | `runtime/src/promise.rs` | `future_to_promise` spawns a task on the single-threaded executor and returns a promise the task settles. |
| Fetch pipeline | `runtime/src/globals/fetch/mod.rs` | `fetch` → `fetch_internal`, which races `main_fetch` against the AbortSignal → scheme dispatch, `http_fetch` → `http_network_fetch` (one 421 retry) and `http_redirect_fetch` (back into `main_fetch`). The outermost `main_fetch` filters the response by taint. |
| Local schemes and ranges | `runtime/src/globals/fetch/scheme.rs` | about:blank, blob, data and file fetches, and `get_ranged_bytes`. |
| Request bodies | `runtime/src/globals/fetch/body.rs` | `FetchBody` (none or bytes, with a kind that sets Content-Type). |
| FileReader | `runtime/src/globals/file/reader.rs` | The readyState machine and the `readAs*` methods, which spawn a task that sets `result`. |
| Arrays and their formatting | `ion/src/object/array.rs`, `ion/src/format/array.rs`, `ion/src/format/prefix.rs` | The `Array` wrapper (create, set, delete, length, descriptors, iterators) and `ArrayDisplay`, which prints an array for the console and the REPL. |
| Cache statistics | `cli/src/commands/cache.rs` | `format_size` prints a byte count with binary prefixes. |
| Other engine bindings, modules, CLI | the rest of `ion/`, `ion-proc/`, `modules/`, `cli/src/main.rs` | Wrappers over SpiderMonkey's API, the `path` and `assert` modules, and argument parsing. |

How the parts interact: everything runs on one thread. `fetch` and the
`readAs*` methods call `future_to_promise`, which spawns a task. The event
loop polls the tasks; a task that finishes settles its promise. Settling a
promise makes the engine call `enqueue_promise_job`, which puts a job on the
microtask queue. The event loop then calls `run_jobs`, which runs the
reactions. The only suspension points inside fetch are the transport call and
the file read. While the task is suspended, the script and the network act,
and either may abort the signal or deliver the response.

## Modules

### MicrotaskQueue (`MicrotaskQueue.tla`, `MicrotaskContract.tla`, `MicrotaskQueueProofs.tla`)

- **State.** The variables are `queue` and `draining`, which are the struct's
  fields. `pc` records where the single thread stands relative to `run_jobs`:
  outside it, at the loop head, or inside `Microtask::run`. `mayNotBeEmpty` is
  the engine's view as set by `JobQueueMayNotBeEmpty` and `JobQueueIsEmpty`.
  Two history variables record every microtask enqueued and every one run.
- **Actions.** `EnqueuePromiseJob` is the engine's `enqueue_promise_job`
  trap, which calls `enqueue` with a promise job (a null job changes
  nothing). `Enqueue` is `enqueue` itself, reached for a user job from
  `queueMicrotask`. It may happen outside `run_jobs` or from inside a
  running microtask. `RunJobsSkip` and `RunJobsStart` are the two branches of
  `run_jobs`' entry. `PopMicrotask` is the `while let` pop.
  `MicrotaskReturns` and `MicrotaskThrows` are the two outcomes of
  `microtask.run(cx)?`. Only `User` jobs throw: a promise job reports its
  exception through its promise. `DrainDone` is the end of the loop.
- **Fairness.** The event loop calls `run_jobs` on each turn, so `RunJobs`
  gets weak fairness. The steps inside `run_jobs` follow one another without
  waiting, so they get weak fairness too. The script decides whether to
  enqueue, so `Enqueue` gets none.
- **Contract.** `MicrotaskContract` is what spec 4.2 asks of the
  scheduler, with no loop and no flag. `pending` is a FIFO, `Add` appends
  to it, and `RunHead` runs its head. `Return(r)` hands a result back, and
  only when nothing is pending. `QueueRefinesContract` maps `pending` to
  `queue`, `done` to `ran`, and `returned` to `result`.

### Fetch (`Fetch.tla`, `FetchContract.tla`, `FetchProofs.tla`)

- **Scope.** The model covers one call of `fetch`. `phase` is how far the
  single fetch task has got; the module header lists the phases.
- **Data.** A URL is a record of its scheme, its port and whether it has
  credentials. Headers are sets of names. A body is either present or
  absent. A response also records how many Location values it has and the
  first one.
- **Actions.** Each action is one branch of one function: the gates of
  `main_fetch`, the sending and the answer of `http_network_fetch`,
  `http_fetch`'s redirect modes, and `http_redirect_fetch`'s checks and
  rewrite. The environment acts through three more actions:
  - `Abort`: the script aborts the signal;
  - `TransportRespond` / `TransportFail`: the network answers;
  - `FileReadDone`: the file system finishes a read.
- **The poll.** `PollSend` and `PollAbort` are the executor polling
  `select(send, signal)`. The fetch is polled first, so an abort wins only
  while nothing has arrived.
- **Nested calls and filtering.** A nested `main_fetch` (after a redirect)
  returns its response unfiltered. Only the outermost one filters, using its
  own taint (`taint0`).
- **Left out.**
  - `ResponseTaint::Opaque` is never assigned in this file, so the code that
    depends on it is dead and is left out.
  - The outgoing headers that `http_network_fetch` adds (Content-Length,
    Referer, User-Agent, cache headers, Host) are not tracked. No later
    decision of the pipeline reads them.
  - The Referrer-Policy update is also left out. It writes a field that
    nothing in the tree reads.
- **Types.** A request's method is one of `Methods` or the GET a redirect
  rewrites it to (`RequestValues`). A response's status is one the server
  may send, none, or the 200 of a local response.
- **Filtering.** `Filtered` is `if opaque_redirect { ... } else match taint`:
  an opaque redirect wins over the taint, as in the code.
- **The contract.** `FetchContract.tla` says what one call of `fetch`
  promises, with no pipeline in it. Its state is the promise, the abort
  flag, the set of requests sent and the header names the script sees. Its
  steps are:
  - `Abort`;
  - `Send(s)`: only while the promise is pending, and only a request that is
    `Allowed`: no bad port, at most `RedirectLimit` hops, no credentials on a
    cors redirect, no body on GET or HEAD;
  - `RejectAbort`: only after an abort;
  - `RejectType`;
  - `Fulfil`: with no forbidden header exposed.

  Once settled, the promise never changes. `Fetch` instantiates the contract
  with `exposed` mapped to the response's header names once the promise is
  fulfilled, and `{}` before. `FetchRefinesContract` (`Contract!Spec`) is
  checked by the two passing Fetch runs. Its mutant `PollAbortAfterSettled`
  lets the abort arm of the select reject a promise that has already been
  fulfilled.
- **No fairness.** No liveness property is checked. A single fetch
  terminates in every behaviour, because the redirect count and the retry
  flag bound it. The runs therefore set `CHECK_DEADLOCK FALSE`: the final
  state, with the promise settled, is a real end of the computation.

### SchemeFetch (`SchemeFetch.tla`, `SchemeFetchProofs.tla`)

- **Scope.** One call of `scheme_fetch` for about:blank, blob:, data:, file:
  and an unknown scheme. The only suspension is file_fetch's
  `read(path).await`, modelled by `FileFetchStart` and `FileReadDone`.
- **Data.** A body is its length. A Range header is absent, invalid, or
  `bytes=` with one or two specs whose bounds are Unbounded or a number up
  to one past the body. A response records its status, the slice of the
  stored bytes it carries, its Content-Range and how many headers went into
  the `ArrayVec` that builds its HeaderMap.
- **Ranges.** `GetRangedBytes` is `get_ranged_bytes`. An absent header
  gives the whole body. An invalid header, or one with no satisfiable
  range, gives a network error. Otherwise the first satisfiable range
  (`FirstSatisfiable`, the iterator's `.next()`) gives 206 with
  `Bytes::slice`. `len - 1` is
  computed with `WrappingDec` when the build has no overflow checks; with
  them it is a panic, an outcome of its own, as are a failed `slice`
  assertion and an `ArrayVec` overflow. `UsizeMax` is `usize::MAX` scaled
  down; it only has to exceed every length. The code writes no unit in
  the Content-Range it builds, and a response's `why` is set only for a
  panic. The model marks both fields with the string "none" in that case.
- **Assumed.** `satisfiable_ranges` comes from the headers crate, outside the
  tree. The model follows headers 0.4: a suffix `-n` becomes
  (len - n, Unbounded) and is dropped when len < n, `-` is dropped, and
  `a-b` is passed on unchanged whatever a, b and len are.

### FileReader (`FileReader.tla`, `FileReaderProofs.tla`)

- **State.** `state` and `result` of each reader, the log of accepted reads,
  the spawned tasks that have not run, those that have, the JoinHandles on
  the event loop's futures queue, and each read's promise. Read number n is
  its task, its handle and its promise.
- **Actions.** `ReadAs` is a `readAs*` method whose `validate` succeeds. It
  sets Loading and calls `future_to_promise` (`FutureToPromise`). That spawns
  the task, and enqueues the handle only if the event loop has a futures
  queue (`FuturesQueue`). The event loop is outside the tree and holds that
  queue as an `Option`, and the spec names the case where it is absent.
  `ReadAsRejected` is `validate` throwing on a
  Loading reader. `TaskRun` is the executor running the async block, which
  has no await and sets `result`. `SettlePromise` is the futures queue
  resolving the promise from a finished handle. The four `readAs*` methods
  differ only in how the bytes become `result`, so a result is the kind of
  read that produced it.
- **Properties.** No property is checked in a passing run. With a futures
  queue, settlement follows from the enqueue. With the code as written, a
  reader never leaves Loading, so no check on reads in flight can fail. The
  two runs check what the code gets wrong instead: the reader stuck in
  Loading, and the read that runs without a futures queue.

### FormatArray (`FormatArray.tla`)

- **State.** The array's length, the element or a hole at each index below
  `MaxLen`, the outcome of the last format, and the keys an `ArrayIter`
  still has to visit, with what its last `next` returned.
- **Engine semantics.** The wrapper's calls go to the engine. Their effect
  is taken from ECMAScript and from the tests in `array.rs`:
  - `set` past the end extends the length;
  - `delete` leaves a hole and keeps the length;
  - the key list an iterator walks is taken when the iterator is made.
- **Actions.** `NewWithLength`, `FromHandle`, `Set` and `Delete` change the
  array. `Iter` and `IterNext` iterate it. `Format` is `ArrayDisplay::fmt`:
  - `write_prefix` fails only through `get_tag`, when a Symbol.toStringTag
    getter throws;
  - past depth 4 it prints `[Array]`, and an empty array prints `[]`;
  - otherwise it unwraps the descriptor of each of the first 3 indices (100
    when multiline).

  The text (colours, indentation, constructor names) is left out: no
  property reads it.
- **MaxIntId** stands for the largest int jsid, 2^31 - 1. The MC module puts
  it below `MaxLen`, so that an element past it exists.

## Runs

| Run | cfg | Checks | Result |
|---|---|---|---|
| microtasks_nothrow | `MicrotaskQueue_nothrow.cfg` | DrainCompletes, EveryJobRuns, QueueRefinesContract under `FairSpec` | passes |
| microtasks_throw | `MicrotaskQueue_throw.cfg` | FifoOrder, EngineNotified with throwing callbacks | passes |
| microtasks_drain_after_throw | `MicrotaskQueue_drain.cfg` | DrainCompletes with throwing callbacks | **violated**: the `?` in `run_jobs` leaves `draining` set |
| fetch_redirects | `Fetch_redirects.cfg` | NoBadPortContacted, NoCredentialedCorsRedirect, NoBodyOnGetOrHead, RetryAtMostOnce, FetchRefinesContract (whose `Allowed` includes the redirect cap) | passes |
| fetch_gating | `Fetch_gating.cfg` | NoForbiddenHeaderLeak, FetchRefinesContract over every mode, scheme, cache mode and Access-Control-Allow-Headers value, with and without credentials | passes |
| fetch_head_303 | `Fetch_head303.cfg` | HeadHasNoBody | **violated**: the 303 rewrite's `method != GET \|\| method != HEAD` always holds |
| fetch_cors_filter | `Fetch_cors.cfg` | CorsExposesOnlyAllowed | **violated**: the cors filter removes the allowed headers |
| scheme_debug | `SchemeFetch_debug.cfg` | HeadersFit, ContentRangeMatchesBody | passes |
| scheme_range_panic | `SchemeFetch_panic.cfg` | RangeNeverPanics | **violated**: `bytes=-0` on an empty body underflows `len - 1` |
| filereader_no_queue | `FileReader_noqueue.cfg` | SpawnFailsWithoutQueue | **violated**: `future_to_promise` spawns the task before it finds there is no futures queue |
| filereader_stuck_loading | `FileReader_stuck.cfg` | ReaderLeavesLoading | **violated**: nothing sets Done, so a reader reads once |
| format_array_holes | `FormatArray_holes.cfg` | FormatNeverPanics | **violated**: a hole among the shown elements is unwrapped |

Every property of a passing run has a mutant in `PROJECT.json`: a plausible
bug in the code it is about (a dropped guard, an off-by-one, a missing
enqueue) that TLC then finds violates it.

`Fetch_abort.cfg` checks AbortBeforeResponseRejects and finds it violated.
An abort that happens before the response is polled loses, because
`select(send, signal)` polls the fetch first. It is kept as a hazard rather
than a run: the spec's wording, not the code, is the question there.

### Bounds

**MicrotaskQueue.** There is one promise job and one user job, with 4
enqueues. Four is enough for a throw, a skipped `run_jobs` and a later
enqueue to happen in one behaviour, and for a microtask to enqueue two more
during a drain.

**Fetch.** `RedirectLimit` stands for the literal 20. The runs use 1 or 2,
which is enough for a chain of hops to hit the cap. The cap check is a
comparison with the hop count, so the only behaviour that could differ at 20
is its off-by-one, and that shows at 2 as well.
- **Ports.** The ports are `{0, 25}`: 25 is a bad port and 0 is not.
- **Statuses.** 200, 301, 302, 303, 407 and 421 cover every branch that
  reads the status.
- **Constraint.** `MCConstraint` stops a behaviour that has gone past the
  limit. The code cannot reach such a state; the constraint only saves the
  check the work of exploring it.

**SchemeFetch.** Bodies of 0 to 2 bytes and bounds up to 3 reach every
comparison in `get_ranged_bytes`: empty, inside, at the end and past the
end. Every run is one call, so the final state is a real end
(`CHECK_DEADLOCK FALSE`).

**FileReader.** Two readers, two kinds and 3 reads. That is enough for
one reader to read, finish and try again, and for the other reader's read
to interleave with it. When the reads are used up, the script has nothing
left to do (`CHECK_DEADLOCK FALSE`).

**FormatArray.** Arrays of up to 4 elements, so that the one-line cap of 3
and a length past it both occur.

## Proofs

TLAPS checks every proof to the last leaf, for every value of the
constants that satisfies the module's ASSUME.

`MicrotaskQueueProofs.tla` proves:
- `TypeCorrect`: `Spec => []TypeOK`;
- `FifoInvariant`: `Spec => []FifoOrder`;
- `EngineNotifiedInvariant`: `Spec => []EngineNotified`.

Its inductive invariant is `TypeOK /\ FifoOrder /\ EngineNotified`:
- an enqueue appends to `ran \o queue` (lemma `AppendConcat`);
- a pop moves the head of `queue` to the end of `ran` (lemma `PopConcat`,
  from the associativity of `\o`);
- `PopMicrotask` needs a nonempty queue, and by the invariant a nonempty
  queue has `mayNotBeEmpty` set.

`FileReaderProofs.tla` proves:
- `FileReaderTypeCorrect`: `Spec => []TypeOK`;
- `ReaderSingleUse`: `Spec => []ReaderReadsOnce`. No reader appears twice
  in the log of accepted reads, so a FileReader is good for one read.

Both are proved from `FileReaderAssumption` (a number of reads in `Nat`, a
Boolean `FuturesQueue`), which is a hypothesis of the theorems. FileReader
has no passing run to evaluate an ASSUME.

ReaderReadsOnce is not inductive by itself, because it says nothing of the
state of a reader that has read. The invariant `IInv` adds:
- every task is an accepted read;
- the reader of every accepted read is Loading.

These facts hold because nothing ever moves a reader out of Loading. That
is the bug filereader_stuck_loading shows on one instance, and the theorem
carries it to every number of readers and reads.

`FetchProofs.tla` proves, for every set of bad ports, every redirect limit
and every set of forbidden headers allowed by `FetchAssumption`:
- `FetchTypeCorrect`: `Spec => []TypeOK`;
- `BadPortNeverContacted`, `CorsRedirectNeverCredentialed`,
  `GetOrHeadNeverHasBody`, `ForbiddenHeaderNeverLeaks` and
  `RetryHappensOnce`: each of the invariants of fetch_redirects and
  fetch_gating holds in every state;
- `FetchImplementsContract`: `Spec => FetchRefinesContract`.

None of these invariants is inductive as it stands. The code checks a
request at one step and sends it at a later one, so the invariant `IInv`
carries what holds in between:
- `ReqInv`: the request being worked on is valid, has followed at most
  `RedirectLimit` redirects, and a redirected cors request has no
  credentials. `http_redirect_fetch` makes the credentials check with the
  taint of the hop before, and that taint is fixed by the mode (`TaintOf`).
- `HttpInv`: from `main_fetch`'s port check until the next redirect, the
  port is not bad and the taint is the mode's.
- `PromiseInv`: the promise stays pending until the task is done, and the
  outermost taint is basic or cors, so `Filtered` takes one of its arms.
- `SentInv`: every request sent is `Allowed` by the contract.
- `RetryInv`: a hop counts its request about to be sent, and may send
  twice only after the 421 branch sets `is_new`.
- `NoForbiddenHeaderLeak` itself: the filtered response is stored once,
  and nothing changes it after the task is done.

Each action has a lemma (`<Action>Core`) that it preserves `CoreInv`. The
refinement proof maps each step of `Fetch` to a step of the contract or to
a stutter. Internal steps change none of the contract's variables. A send
is `Send` of the record it adds. An abort is `Abort`. A fetch on an
already aborted signal, or a poll that takes the abort arm, is
`RejectAbort`. The end of `fetch_internal` is `RejectType` for a network
error and `Fulfil` otherwise.

`MicrotaskQueueProofs.tla` also proves `DrainCompletesWithoutThrow`:
under `~MayThrow`, `Spec => DrainCompletes`. `DrainCompletes` is an action
property. The proof needs `DrainFlag`, which says `draining` is set exactly
while `pc` is inside `run_jobs`. That holds only if no callback throws: a
throw leaves `draining` set with `pc` idle, which is the bug that
microtasks_drain_after_throw shows. With `DrainFlag`, a `run_jobs` that
skips never starts while the queue is idle, so the skip runs nothing new.
`DrainDone` needs an empty queue, and `FifoOrder` then gives
`ran = enqueued`.

`QueueImplementsContract` proves, under `~MayThrow`,
`Spec => QueueRefinesContract`. Lemma `QueueStepRefines` maps each step:
- an enqueue is `Add`;
- a pop is `RunHead`;
- `DrainDone` is `Return("ok")`, since its guard is an empty queue;
- `RunJobsStart` and `MicrotaskReturns` are stutters;
- `RunJobsSkip` cannot happen, by `DrainFlag`;
- `MicrotaskThrows` cannot happen, by the hypothesis.

With throwing callbacks the refinement fails, and TLC finds this on
MicrotaskQueue_throw.cfg. The `?` returns an error while jobs are still
queued, which the contract forbids.

`SchemeFetchProofs.tla` proves, for every `UsizeMax`, capacity and set of
lengths allowed by the module's ASSUME:
- `SchemeTypeCorrect`: `Spec => []TypeOK`;
- `HeadersAlwaysFit`: `Spec => []HeadersFit`;
- `ContentRangeExact`: if `OverflowChecks` holds, then
  `Spec => []ContentRangeMatchesBody`.

The inductive invariant is `TypeOK /\ RespOk`. `RespOk` says that a
response, once set, is an `OutcomeOk`:
- its kind and status are among those the code produces;
- its header count is a natural number;
- it never records an `ArrayVec` overflow;
- under overflow checks, a 206 carries exactly the bytes its Content-Range
  names.

Lemma `RangedOutcome` shows that `get_ranged_bytes`, followed by the
header pushes of `Finish`, gives an `OutcomeOk`. The proof is field by
field, with the first satisfiable range typed by `FirstSatisfiableType`.
The capacity assumption (`HeaderCapacity >= 2` plus the pushes already
made) is what keeps the overflow out.

`ContentRangeExact` has the debug-build hypothesis because the property
does not hold without it. In a release build, `len - 1` wraps for an empty
body. A request `bytes=-0` on an empty body then gets a Content-Range
ending at `usize::MAX` over zero bytes. TLC finds this trace when
SchemeFetch_debug.cfg is run with `OverflowChecks = FALSE`. The same
underflow panics in a debug build, which is what scheme_range_panic
shows.

TLC alone checks the liveness property EveryJobRuns. TLAPS cannot prove it here because
it needs fairness and ENABLED.

## Not modelled

- **`body.rs`.** Converting a script value to bytes keeps no state past the
  call, so a request body is just present or absent.
- **`format_size` in `cache.rs`.** It is pure f64 arithmetic. Its prefix
  index reaches 6, past the 6-entry table, only for sizes of 2^60 - 1 or
  more.
- **The rest of `ion`, `ion-proc`, `modules` and `cli`.** These are thin
  wrappers over the engine, compile-time code generation, and stateless
  functions. The module loader is one of them.
- **Outside the tree.** The event loop's futures queue, `queueMicrotask`,
  the Request and Response classes and the headers crate are not in the
  tree. They are modelled from their documented behaviour, and the map
  marks them `spec_modelled`.

## Plan for later sittings

- Model `FileReader`'s text decoding (`encoding_from_string_mime`),
  `FileReaderSync`, and the `?` error paths of `get_descriptor`.
