------------------------- MODULE MC_MicrotaskQueue -------------------------
(***************************************************************************)
(* Model-checking instance of MicrotaskQueue: one promise job and one      *)
(* queueMicrotask callback, each of which may be queued repeatedly, and    *)
(* up to four enqueue calls, so that a microtask can enqueue while a       *)
(* drain is in progress and a queued job can sit behind a throwing one.    *)
(***************************************************************************)
EXTENDS MicrotaskQueue

CONSTANTS p1, u1

MCPromiseJobs == {p1}
MCUserJobs == {u1}
=============================================================================
