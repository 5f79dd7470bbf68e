------------------------ MODULE MicrotaskQueueProofs ------------------------
(***************************************************************************)
(* Proofs, for every value of the constants, of the invariants that the    *)
(* runs of MC_MicrotaskQueue check on small instances: the queue's type,   *)
(* FIFO order of the microtasks run, and the engine's emptiness flag.      *)
(***************************************************************************)
EXTENDS MicrotaskQueue, SequenceTheorems, TLAPS

(***************************************************************************)
(* The inductive invariant: the type invariant and the two safety          *)
(* invariants.  Each is inductive relative to TypeOK alone.                *)
(***************************************************************************)
IInv == TypeOK /\ FifoOrder /\ EngineNotified

(* Appending to the queue appends to `ran \o queue`.                       *)
LEMMA AppendConcat ==
    ASSUME NEW S, NEW r \in Seq(S), NEW q \in Seq(S), NEW x \in S
    PROVE  r \o Append(q, x) = Append(r \o q, x)
<1>1. Append(q, x) = q \o <<x>> /\ Append(r \o q, x) = (r \o q) \o <<x>>
  BY AppendIsConcat, ConcatProperties
<1>2. r \o (q \o <<x>>) = (r \o q) \o <<x>>
  BY ConcatAssociative
<1>. QED  BY <1>1, <1>2

(* AppendConcat for the microtask queue and the history of run jobs.       *)
LEMMA AppendConcatJobs ==
    ASSUME NEW j \in Jobs, ran \in Seq(Jobs), queue \in Seq(Jobs)
    PROVE  ran \o Append(queue, j) = Append(ran \o queue, j)
BY AppendConcat

(* Moving the head of a nonempty queue to the end of `ran` leaves          *)
(* `ran \o queue` unchanged.                                               *)
LEMMA PopConcat ==
    ASSUME NEW S, NEW r \in Seq(S), NEW q \in Seq(S), q # << >>
    PROVE  Append(r, Head(q)) \o Tail(q) = r \o q
<1>1. Head(q) \in S /\ Tail(q) \in Seq(S) /\ q = <<Head(q)>> \o Tail(q)
  BY HeadTailProperties, ConcatProperties, SMT
<1>2. Append(r, Head(q)) = r \o <<Head(q)>>
  BY <1>1, AppendIsConcat
<1>3. (r \o <<Head(q)>>) \o Tail(q) = r \o (<<Head(q)>> \o Tail(q))
  BY <1>1, ConcatAssociative
<1>. QED  BY <1>1, <1>2, <1>3

(* The initial state satisfies the inductive invariant.                   *)
LEMMA InitIInv == Init => IInv
<1> SUFFICES ASSUME Init PROVE IInv
  OBVIOUS
<1>1. TypeOK /\ EngineNotified
  BY EmptySeq DEF Init, TypeOK, EngineNotified
<1>2. FifoOrder
  BY ConcatEmptySeq DEF Init, FifoOrder
<1>. QED  BY <1>1, <1>2 DEF IInv

(* Every step of the queue, its drain loop and the microtasks it runs     *)
(* preserves the inductive invariant.                                     *)
LEMMA NextIInv == IInv /\ [Next]_vars => IInv'
<1> SUFFICES ASSUME IInv, [Next]_vars PROVE IInv'
  OBVIOUS
<1>. USE DEF IInv, TypeOK, FifoOrder, EngineNotified
<1>0. (\E j \in PromiseJobs : EnqueuePromiseJob(j)) \/ (\E j \in UserJobs : Enqueue(j))
        => \E j \in Jobs : Enqueue(j)
  BY DEF EnqueuePromiseJob, Jobs
<1>1. CASE \E j \in Jobs : Enqueue(j)
  <2>1. PICK j \in Jobs : Enqueue(j)
    BY <1>1
  <2>2. TypeOK'
    BY <2>1 DEF Enqueue
  <2>3. FifoOrder'
    <3>1. ran \o Append(queue, j) = Append(ran \o queue, j)
      BY AppendConcatJobs
    <3>. QED  BY <2>1, <3>1 DEF Enqueue
  <2>4. EngineNotified'
    BY <2>1 DEF Enqueue
  <2>. QED  BY <2>2, <2>3, <2>4
<1>2. CASE RunJobs
  BY <1>2 DEF RunJobs, RunJobsSkip, RunJobsStart
<1>3. CASE PopMicrotask
  <2>1. queue # << >> /\ Head(queue) \in Jobs /\ Tail(queue) \in Seq(Jobs)
    BY <1>3, HeadTailProperties DEF PopMicrotask
  <2>2. TypeOK'
    BY <1>3, <2>1 DEF PopMicrotask
  <2>3. FifoOrder'
    <3>1. Append(ran, Head(queue)) \o Tail(queue) = ran \o queue
      BY <2>1, PopConcat
    <3>. QED  BY <1>3, <3>1 DEF PopMicrotask
  <2>4. EngineNotified'
    BY <1>3 DEF PopMicrotask
  <2>. QED  BY <2>2, <2>3, <2>4
<1>4. CASE MicrotaskReturns
  BY <1>4 DEF MicrotaskReturns
<1>5. CASE MicrotaskThrows
  BY <1>5 DEF MicrotaskThrows
<1>6. CASE DrainDone
  BY <1>6 DEF DrainDone
<1>7. CASE UNCHANGED vars
  BY <1>7 DEF vars
<1>. QED  BY <1>0, <1>1, <1>2, <1>3, <1>4, <1>5, <1>6, <1>7 DEF Next

(* The queue always has its type: a Seq of microtasks, and `current` is a  *)
(* microtask exactly while one may be running.                            *)
THEOREM TypeCorrect == Spec => []TypeOK
<1>1. IInv => TypeOK
  BY DEF IInv
<1>. QED  BY InitIInv, NextIInv, <1>1, PTL DEF Spec

(* enqueue pushes at the back and run_jobs pops from the front, also when  *)
(* microtasks enqueue while the queue drains and when one throws: the      *)
(* microtasks run, followed by those queued, are those enqueued, in order. *)
THEOREM FifoInvariant == Spec => []FifoOrder
<1>1. IInv => FifoOrder
  BY DEF IInv
<1>. QED  BY InitIInv, NextIInv, <1>1, PTL DEF Spec

(* run_jobs signals JobQueueIsEmpty only with the queue empty, and every   *)
(* enqueue signals JobQueueMayNotBeEmpty: the engine is never told the     *)
(* queue is empty while it holds a microtask.                              *)
THEOREM EngineNotifiedInvariant == Spec => []EngineNotified
<1>1. IInv => EngineNotified
  BY DEF IInv
<1>. QED  BY InitIInv, NextIInv, <1>1, PTL DEF Spec

-----------------------------------------------------------------------------
(***************************************************************************)
(* When no queueMicrotask callback throws, run_jobs always reaches its end *)
(* (`self.draining = false`), so `draining` is set exactly while the       *)
(* thread is inside run_jobs.  That is what makes DrainCompletes hold: a   *)
(* call of run_jobs never finds `draining` set and returns early.          *)
(***************************************************************************)
DrainFlag == draining <=> pc # "idle"

(* Without a throwing callback, every step keeps `draining` in step with   *)
(* the thread being inside run_jobs.                                       *)
LEMMA NextDrainFlag ==
    ASSUME ~MayThrow
    PROVE  DrainFlag /\ [Next]_vars => DrainFlag'
<1> SUFFICES ASSUME DrainFlag, [Next]_vars PROVE DrainFlag'
  OBVIOUS
<1>1. CASE \E j \in PromiseJobs : EnqueuePromiseJob(j)
  BY <1>1 DEF EnqueuePromiseJob, Enqueue, DrainFlag
<1>2. CASE \E j \in UserJobs : Enqueue(j)
  BY <1>2 DEF Enqueue, DrainFlag
<1>3. CASE RunJobs
  BY <1>3 DEF RunJobs, RunJobsSkip, RunJobsStart, DrainFlag
<1>4. CASE PopMicrotask \/ MicrotaskReturns \/ DrainDone
  BY <1>4 DEF PopMicrotask, MicrotaskReturns, DrainDone, DrainFlag
<1>5. CASE MicrotaskThrows
  BY <1>5 DEF MicrotaskThrows
<1>6. CASE UNCHANGED vars
  BY <1>6 DEF vars, DrainFlag
<1>. QED  BY <1>1, <1>2, <1>3, <1>4, <1>5, <1>6 DEF Next

(* Under the invariants, a step that ends a run_jobs call with Ok has run  *)
(* every microtask enqueued: RunJobsSkip cannot happen, and DrainDone      *)
(* finds the queue empty, so by FIFO order `ran` is all of `enqueued`.     *)
LEMMA StepDrains ==
    IInv /\ DrainFlag /\ [Next]_vars
        => [(RunJobsSkip \/ DrainDone) => Len(ran') = Len(enqueued')]_vars
<1> SUFFICES ASSUME IInv, DrainFlag, [Next]_vars, RunJobsSkip \/ DrainDone
             PROVE  Len(ran') = Len(enqueued')
  OBVIOUS
<1>1. ~RunJobsSkip
  BY DEF RunJobsSkip, DrainFlag
<1>2. DrainDone
  BY <1>1
<1>3. ran \o queue = enqueued /\ ran \in Seq(Jobs) /\ queue = << >>
  BY <1>2 DEF IInv, TypeOK, FifoOrder, DrainDone
<1>4. ran = enqueued
  BY <1>3, ConcatEmptySeq
<1>. QED  BY <1>2, <1>4 DEF DrainDone

(* run_jobs' Ok means the drain is complete, whenever no queueMicrotask    *)
(* callback throws: every microtask enqueued so far, those enqueued by     *)
(* microtasks of the same drain included, has run.  microtasks_drain_after *)
(* _throw shows the hypothesis is needed: after a throw, run_jobs returns  *)
(* Ok at once with jobs still queued.                                      *)
THEOREM DrainCompletesWithoutThrow ==
    ASSUME ~MayThrow
    PROVE  Spec => DrainCompletes
<1>1. Init => IInv /\ DrainFlag
  BY InitIInv DEF Init, DrainFlag
<1>2. IInv /\ DrainFlag /\ [Next]_vars => (IInv /\ DrainFlag)'
  BY NextIInv, NextDrainFlag
<1>3. IInv /\ DrainFlag /\ [Next]_vars
        => [(RunJobsSkip \/ DrainDone) => Len(ran') = Len(enqueued')]_vars
  BY StepDrains
<1>. QED  BY <1>1, <1>2, <1>3, PTL DEF Spec, DrainCompletes


-----------------------------------------------------------------------------
(***************************************************************************)
(* Refinement of the scheduler contract.  With DrainFlag, run_jobs never   *)
(* takes its early return (nothing is draining while the thread is idle), *)
(* and without throwing callbacks it never returns an error; so an enqueue *)
(* is Add, a pop is RunHead, the end of the drain is Return("ok") with the *)
(* queue empty, and every other step leaves queue, ran and result alone.   *)
(***************************************************************************)
LEMMA QueueStepRefines ==
    ASSUME ~MayThrow
    PROVE  DrainFlag /\ [Next]_vars => [Contract!CNext]_Contract!cvars
<1> SUFFICES ASSUME DrainFlag, [Next]_vars
             PROVE  [Contract!CNext]_Contract!cvars
  OBVIOUS
<1>1. ASSUME NEW j \in Jobs, Enqueue(j) PROVE Contract!CNext
  <2>1. Contract!Add(j)
    BY <1>1 DEF Enqueue, Contract!Add
  <2>. QED  BY <2>1 DEF Contract!CNext
<1>2. CASE \E j \in PromiseJobs : EnqueuePromiseJob(j)
  BY <1>1, <1>2 DEF EnqueuePromiseJob, Jobs
<1>3. CASE \E j \in UserJobs : Enqueue(j)
  BY <1>1, <1>3 DEF Jobs
<1>4. CASE RunJobsSkip
  BY <1>4 DEF RunJobsSkip, DrainFlag
<1>5. CASE RunJobsStart \/ MicrotaskReturns
  BY <1>5 DEF RunJobsStart, MicrotaskReturns, Contract!cvars
<1>6. CASE PopMicrotask
  <2>1. Contract!RunHead
    BY <1>6 DEF PopMicrotask, Contract!RunHead
  <2>. QED  BY <2>1 DEF Contract!CNext
<1>7. CASE MicrotaskThrows
  BY <1>7 DEF MicrotaskThrows
<1>8. CASE DrainDone
  <2>1. Contract!Return("ok")
    BY <1>8 DEF DrainDone, Contract!Return
  <2>. QED  BY <2>1 DEF Contract!CNext
<1>9. CASE UNCHANGED vars
  BY <1>9 DEF vars, Contract!cvars
<1>. QED  BY <1>2, <1>3, <1>4, <1>5, <1>6, <1>7, <1>8, <1>9 DEF Next, RunJobs

(* When no queueMicrotask callback throws, the microtask queue implements  *)
(* the scheduler contract of spec 4.2: callbacks join the tail, run from   *)
(* the head one at a time, and run_jobs returns only once all of them,     *)
(* those enqueued during the drain included, have run.  microtasks.rs's    *)
(* `?` (line 61) is why the hypothesis is needed: a throw returns the      *)
(* error with jobs still queued, which the contract forbids.               *)
THEOREM QueueImplementsContract ==
    ASSUME ~MayThrow
    PROVE  Spec => QueueRefinesContract
<1>1. Init => Contract!CInit /\ DrainFlag
  BY DEF Init, Contract!CInit, DrainFlag
<1>2. DrainFlag /\ [Next]_vars => DrainFlag'
  BY NextDrainFlag
<1>3. DrainFlag /\ [Next]_vars => [Contract!CNext]_Contract!cvars
  BY QueueStepRefines
<1>. QED  BY <1>1, <1>2, <1>3, PTL DEF Spec, QueueRefinesContract, Contract!CSpec

=============================================================================
