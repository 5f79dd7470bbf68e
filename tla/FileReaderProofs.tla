--------------------------- MODULE FileReaderProofs ---------------------------
(***************************************************************************)
(* Proofs, for every set of readers and every bound, that FileReader is    *)
(* well typed and that, as the code stands, each reader reads only once.  *)
(***************************************************************************)
EXTENDS FileReader, SequenceTheorems, TLAPS

(* What the proofs need of the constants.                                  *)
FileReaderAssumption ==
    /\ FuturesQueue \in BOOLEAN
    /\ MaxReads \in Nat
    /\ "null" \notin Kinds

(* The reads accepted so far.                                              *)
Accepted == 1..Len(log)

(***************************************************************************)
(***************************************************************************)
(* No reader appears twice among the reads validate accepted.              *)
(***************************************************************************)
ReaderReadsOnce ==
    \A n, m \in Accepted : n # m => log[n].reader # log[m].reader

(***************************************************************************)
(* The inductive invariant.  ReaderReadsOnce is not inductive by itself:   *)
(* it says nothing of the state of a reader that has read.  What keeps a   *)
(* reader from reading again is that nothing ever moves it out of Loading  *)
(* (validate sets it at reader.rs 53, and no code sets Done): every reader *)
(* of an accepted read is Loading, so validate refuses it from then on.    *)
(***************************************************************************)
IInv ==
    /\ TypeOK
    /\ tasks \subseteq Accepted
    /\ \A n \in Accepted : state[log[n].reader] = "Loading"
    /\ ReaderReadsOnce

(* An accepted read names a reader and a kind.                             *)
LEMMA LogEntry ==
    ASSUME TypeOK, NEW n \in Accepted
    PROVE  log[n] \in [reader : Readers, kind : Kinds]
           /\ log[n].reader \in Readers /\ log[n].kind \in Kinds
<1>1. log[n] \in [reader : Readers, kind : Kinds]
  BY ElementOfSeq DEF TypeOK, Accepted
<1>. QED  BY <1>1

(* The initial state satisfies the inductive invariant.                   *)
LEMMA InitIInv ==
    ASSUME FileReaderAssumption
    PROVE  Init => IInv
<1> SUFFICES ASSUME Init PROVE IInv
  OBVIOUS
<1>1. TypeOK
  BY EmptySeq DEF FileReaderAssumption, Init, TypeOK, Reads, ReaderStates
<1>2. Accepted = {}
  BY EmptySeq DEF Init, Accepted
<1>. QED  BY <1>1, <1>2 DEF Init, IInv, ReaderReadsOnce

(* Every step preserves the inductive invariant.                          *)
LEMMA NextIInv ==
    ASSUME FileReaderAssumption
    PROVE  IInv /\ [Next]_vars => IInv'
<1> SUFFICES ASSUME IInv, [Next]_vars PROVE IInv'
  OBVIOUS
<1>. USE DEF FileReaderAssumption, ReaderReadsOnce
<1>1. CASE \E r \in Readers : ReadAsRejected(r)
  BY <1>1 DEF ReadAsRejected, IInv, TypeOK, Accepted
<1>2. CASE \E r \in Readers, k \in Kinds : ReadAs(r, k)
  <2>1. PICK r \in Readers, k \in Kinds : ReadAs(r, k)
    BY <1>2
  <2>. DEFINE e == [reader |-> r, kind |-> k]
  <2>2. /\ log' = Append(log, e)
        /\ Len(log') = Len(log) + 1
        /\ log'[Len(log) + 1] = e
        /\ \A n \in Accepted : log'[n] = log[n]
        /\ Accepted' = Accepted \cup {Len(log) + 1}
    BY <2>1, AppendProperties DEF ReadAs, IInv, TypeOK, Accepted
  <2>3. log'[Len(log) + 1].reader = r
    BY <2>2
  <2>4. \A n \in Accepted : log[n].reader # r
    BY <2>1 DEF ReadAs, Validate, IInv
  <2>5. Len(log) + 1 \in Reads /\ e \in [reader : Readers, kind : Kinds]
    BY <2>1 DEF ReadAs, IInv, TypeOK, Reads
  <2>6. log' \in Seq([reader : Readers, kind : Kinds]) /\ Len(log') <= MaxReads
    BY <2>1, <2>2, <2>5, AppendProperties DEF ReadAs, IInv, TypeOK
  <2>7. TypeOK'
    BY <2>1, <2>5, <2>6
       DEF ReadAs, Validate, FutureToPromise, IInv, TypeOK, ReaderStates
  <2>8. (tasks \subseteq Accepted)'
    BY <2>1, <2>2 DEF ReadAs, FutureToPromise, IInv
  <2>9. state' = [state EXCEPT ![r] = "Loading"] /\ state \in [Readers -> ReaderStates]
    BY <2>1 DEF ReadAs, Validate, IInv, TypeOK
  <2>10. (\A n \in Accepted : state[log[n].reader] = "Loading")'
    <3> SUFFICES ASSUME NEW n \in Accepted' PROVE state'[log'[n].reader] = "Loading"
      OBVIOUS
    <3>1. CASE n = Len(log) + 1
      BY <3>1, <2>3, <2>9
    <3>2. CASE n \in Accepted
      <4>1. log'[n] = log[n] /\ log[n].reader \in Readers
        BY <3>2, <2>2, LogEntry DEF IInv
      <4>. QED  BY <3>2, <4>1, <2>9 DEF IInv
    <3>. QED  BY <3>1, <3>2, <2>2
  <2>11. (\A n, m \in Accepted : n # m => log[n].reader # log[m].reader)'
    <3> SUFFICES ASSUME NEW n \in Accepted', NEW m \in Accepted', n # m
                 PROVE  log'[n].reader # log'[m].reader
      OBVIOUS
    <3>1. CASE n \in Accepted /\ m \in Accepted
      BY <3>1, <2>2 DEF IInv
    <3>2. CASE n = Len(log) + 1 /\ m \in Accepted
      BY <3>2, <2>2, <2>4, <2>3
    <3>3. CASE m = Len(log) + 1 /\ n \in Accepted
      BY <3>3, <2>2, <2>4, <2>3
    <3>. QED  BY <3>1, <3>2, <3>3, <2>2
  <2>. QED  BY <2>7, <2>8, <2>10, <2>11 DEF IInv
<1>3. CASE \E n \in Reads : TaskRun(n)
  <2>1. PICK n \in Reads : TaskRun(n)
    BY <1>3
  <2>2. log[n].reader \in Readers /\ log[n].kind \in Kinds
    BY <2>1, LogEntry DEF TaskRun, IInv
  <2>3. TypeOK'
    BY <2>1, <2>2 DEF TaskRun, IInv, TypeOK
  <2>. QED  BY <2>1, <2>3 DEF TaskRun, IInv, Accepted
<1>4. CASE \E n \in Reads : SettlePromise(n)
  BY <1>4 DEF SettlePromise, IInv, TypeOK, Accepted
<1>5. CASE UNCHANGED vars
  BY <1>5 DEF vars, IInv, TypeOK, Accepted
<1>. QED  BY <1>1, <1>2, <1>3, <1>4, <1>5 DEF Next

(* FileReader's state, result, read log and promises keep their types.     *)
THEOREM FileReaderTypeCorrect ==
    ASSUME FileReaderAssumption
    PROVE  Spec => []TypeOK
<1>1. IInv => TypeOK
  BY DEF IInv
<1>. QED  BY InitIInv, NextIInv, <1>1, PTL DEF Spec

(* A FileReader is good for one read.  validate sets Loading and no code   *)
(* sets Done (reader.rs 48-56), so for every number of readers and reads,  *)
(* no reader is ever accepted for a second readAs*: every later call on it *)
(* throws the TypeError that spec section 7 reserves for a read while one  *)
(* is in progress.  filereader_stuck_loading shows the first such refusal. *)
THEOREM ReaderSingleUse ==
    ASSUME FileReaderAssumption
    PROVE  Spec => []ReaderReadsOnce
<1>1. IInv => ReaderReadsOnce
  BY DEF IInv
<1>. QED  BY InitIInv, NextIInv, <1>1, PTL DEF Spec

=============================================================================
