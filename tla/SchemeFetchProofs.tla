-------------------------- MODULE SchemeFetchProofs --------------------------
(***************************************************************************)
(* Proofs about local-scheme fetching (SchemeFetch.tla) for every value of *)
(* its constants: the type invariant, that the response headers of a blob *)
(* or file fetch always fit their ArrayVec, and, in a build with overflow  *)
(* checks, that the Content-Range of a 206 response describes exactly the  *)
(* bytes it carries.                                                       *)
(*                                                                         *)
(* A fetch sets its outcome once, in the step that completes it, so both   *)
(* invariants come down to what get_ranged_bytes and the Content-Length    *)
(* push that follows it return for every Range header and body length.     *)
(***************************************************************************)
EXTENDS SchemeFetch, TLAPS

(* The Range specs a `bytes=` header carries in the model.                 *)
SpecSeqs == {<<s>> : s \in RangeSpecs} \cup {<<s, t>> : s, t \in RangeSpecs}

(* What ContentRangeMatchesBody says of the outcome `o`.                   *)
RangeMatches(o) ==
    (o.kind = "response" /\ o.ranged) =>
        /\ o.cr.start = o.begin
        /\ o.cr.end + 1 = o.end
        /\ o.cr.end < o.cr.total
        /\ o.cr.total = o.len

(* An outcome of a completed blob or file fetch: of the type, not a full   *)
(* ArrayVec, and, when overflow panics, with a matching Content-Range.     *)
OutcomeOk(o) ==
    /\ o.kind \in {"response", "error", "panic"}
    /\ o.status \in {0, 200, 206}
    /\ o.pushed \in Nat
    /\ o.why # "capacity"
    /\ OverflowChecks => RangeMatches(o)

(* If some spec survives satisfiable_ranges, the first one is a range      *)
(* whose start is a number and whose end is a bound of the header.         *)
LEMMA FirstSatisfiableType ==
    ASSUME NEW specs \in SpecSeqs, NEW len \in Nat, HasSatisfiable(specs, len)
    PROVE  /\ FirstSatisfiable(specs, len).start \in Nat
           /\ FirstSatisfiable(specs, len).end \in Bounds
<1> DEFINE First(i) == /\ Kept(specs[i], len)
                       /\ \A j \in 1..(i - 1) : ~Kept(specs[j], len)
<1>1. \E i \in DOMAIN specs : First(i)
    <2>1. CASE \E s \in RangeSpecs : specs = <<s>>
        <3>1. PICK s \in RangeSpecs : specs = <<s>>
            BY <2>1
        <3>2. Kept(specs[1], len)
            BY <3>1 DEF HasSatisfiable
        <3>3. QED
            BY <3>1, <3>2
    <2>2. CASE \E s, t \in RangeSpecs : specs = <<s, t>>
        <3>1. PICK s, t \in RangeSpecs : specs = <<s, t>>
            BY <2>2
        <3>2. CASE Kept(s, len)
            BY <3>1, <3>2
        <3>3. CASE ~Kept(s, len)
            <4>1. Kept(t, len)
                BY <3>1, <3>3 DEF HasSatisfiable
            <4>2. First(2)
                BY <3>1, <3>3, <4>1
            <4>3. QED
                BY <3>1, <4>2
        <3>4. QED
            BY <3>2, <3>3
    <2>3. QED
        BY <2>1, <2>2 DEF SpecSeqs
<1>2. PICK i \in DOMAIN specs : First(i) /\ FirstSatisfiable(specs, len) = AsSatisfiable(specs[i], len)
    BY <1>1 DEF FirstSatisfiable
<1>3. specs[i] \in RangeSpecs
    BY DEF SpecSeqs
<1>4. Kept(specs[i], len)
    BY <1>2
<1>5. QED
    BY <1>2, <1>3, <1>4, SchemeAssumption DEF AsSatisfiable, Kept, RangeSpecs, Bounds

(* get_ranged_bytes followed by the Content-Length push, with room for two *)
(* more headers (blob_fetch pushes Content-Type into a 3-entry ArrayVec    *)
(* first, file_fetch starts a 2-entry one empty), returns an outcome of    *)
(* the type that never overflows the ArrayVec, and whose Content-Range     *)
(* matches its slice when overflow panics: an open range on an empty body  *)
(* panics before its last byte `len - 1` is formatted.                     *)
LEMMA RangedOutcome ==
    ASSUME NEW range \in RangeHeaders, NEW n \in Nat,
           NEW p \in Nat, NEW cap \in Nat, p + 2 <= cap
    PROVE  OutcomeOk(Finish(GetRangedBytes(range, n, p, cap), cap))
<1> DEFINE g == GetRangedBytes(range, n, p, cap)
           q == Finish(g, cap)
<1>1. CASE range.kind = "absent"
    <2>1. g = Whole(n, p)
        BY <1>1 DEF GetRangedBytes
    <2>2. /\ q.kind = "response" /\ q.why = "none" /\ q.status = 200
          /\ q.pushed = p + 1 /\ q.ranged = FALSE
        BY <2>1 DEF Finish, Push, Whole, Outcome
    <2>3. QED
        BY <2>2 DEF OutcomeOk, RangeMatches
<1>2. CASE range.kind # "absent"
           /\ (range.kind = "invalid" \/ ~HasSatisfiable(range.specs, n))
    <2>1. g = NetworkError
        BY <1>2 DEF GetRangedBytes
    <2>2. /\ q.kind = "error" /\ q.why = "none" /\ q.status = 0
          /\ q.pushed = 0 /\ q.ranged = FALSE
        BY <2>1 DEF Finish, NetworkError, Outcome
    <2>3. QED
        BY <2>2 DEF OutcomeOk, RangeMatches
<1>3. CASE range.kind # "absent" /\ range.kind # "invalid"
           /\ HasSatisfiable(range.specs, n)
    <2> DEFINE r == FirstSatisfiable(range.specs, n)
               last == IF r.end = Unb THEN WrappingDec(n) ELSE r.end
               cr == [unit |-> "none", start |-> r.start, end |-> last, total |-> n,
                      present |-> TRUE]
               o == Outcome("response", "none", 206, n, r.start, SliceEnd(r, n),
                            cr, p, TRUE)
    <2>1. range.specs \in SpecSeqs
        BY <1>3 DEF RangeHeaders, SpecSeqs
    <2>2. r.start \in Nat /\ r.end \in Bounds
        BY <1>3, <2>1, FirstSatisfiableType
    <2>3. CASE ~SliceOk(r, n) \/ (r.end = Unb /\ n = 0 /\ OverflowChecks)
        <3>1. g \in {Panic("slice"), Panic("overflow")}
            BY <1>3, <2>3 DEF GetRangedBytes
        <3>2. /\ q.kind = "panic" /\ q.why \in {"slice", "overflow"}
              /\ q.status = 0 /\ q.pushed = 0
            BY <3>1 DEF Finish, Panic, Outcome
        <3>3. QED
            BY <3>2 DEF OutcomeOk, RangeMatches
    <2>4. CASE SliceOk(r, n) /\ ~(r.end = Unb /\ n = 0 /\ OverflowChecks)
        <3>1. g = Push(o, cap)
            BY <1>3, <2>4 DEF GetRangedBytes
        <3>2. /\ g.kind = "response" /\ g.why = "none" /\ g.status = 206
              /\ g.len = n /\ g.begin = r.start /\ g.end = SliceEnd(r, n)
              /\ g.cr = cr /\ g.pushed = p + 1 /\ g.ranged = TRUE
            BY <3>1 DEF Push, Outcome
        <3>3. /\ q.kind = "response" /\ q.why = "none" /\ q.status = 206
              /\ q.len = n /\ q.begin = r.start /\ q.end = SliceEnd(r, n)
              /\ q.cr = cr /\ q.pushed = p + 2 /\ q.ranged = TRUE
            BY <3>2 DEF Finish, Push
        <3>4. OverflowChecks => (last + 1 = SliceEnd(r, n) /\ last < n)
            BY <2>2, <2>4, SchemeAssumption
               DEF SliceOk, SliceEnd, WrappingDec, Bounds
        <3>5. QED
            BY <3>3, <3>4 DEF OutcomeOk, RangeMatches
    <2>5. QED
        BY <2>3, <2>4
<1>4. QED
    BY <1>1, <1>2, <1>3

-----------------------------------------------------------------------------
(* The outcome is not yet set, or is one a completed fetch can have.       *)
RespOk == resp = NotYet \/ OutcomeOk(resp)

(* The inductive invariant.  HeadersFit and ContentRangeMatchesBody are    *)
(* facts about `resp` alone, and each step that completes a fetch writes   *)
(* `resp` once; RespOk says what every such write produces.                *)
IInv == TypeOK /\ RespOk

(* Every request carries a Range header of the model and a blob reference, *)
(* NoRange and NoBlob for the schemes that read neither.                   *)
LEMMA RequestFields ==
    ASSUME NEW r \in Requests
    PROVE  r.range \in RangeHeaders /\ r.blob \in BlobRefs
<1>1. NoRange \in RangeHeaders
    BY DEF NoRange, RangeHeaders
<1>2. NoBlob \in BlobRefs
    BY SchemeAssumption DEF NoBlob, BlobRefs, Lengths
<1>3. QED
    BY <1>1, <1>2 DEF Requests

(* The outcomes an about:, data: or failed fetch sets.                     *)
LEMMA SimpleOutcomes ==
    ASSUME NEW n \in Nat
    PROVE  OutcomeOk(NetworkError) /\ OutcomeOk(Whole(n, 0))
BY DEF OutcomeOk, RangeMatches, NetworkError, Whole, Outcome

(* RespOk gives the type of `resp`.                                        *)
LEMMA RespType ==
    ASSUME NEW o, o = NotYet \/ OutcomeOk(o)
    PROVE  /\ o.kind \in {"none", "response", "error", "panic"}
           /\ o.status \in {0, 200, 206}
           /\ o.pushed \in Nat
BY DEF OutcomeOk, NotYet, Outcome

LEMMA InitIInv == Init => IInv
<1> SUFFICES ASSUME Init PROVE IInv
    OBVIOUS
<1>1. RespOk
    BY DEF Init, RespOk
<1>2. QED
    BY <1>1, RespType DEF Init, IInv, TypeOK, RespOk

LEMMA NextIInv == IInv /\ [Next]_vars => IInv'
<1> SUFFICES ASSUME IInv, [Next]_vars PROVE IInv'
    OBVIOUS
<1>1. req \in Requests /\ req.range \in RangeHeaders /\ req.blob \in BlobRefs
    BY RequestFields DEF IInv, TypeOK
<1>2. RespOk'
    <2>1. CASE AboutBlankFetch
        BY <2>1, SimpleOutcomes DEF AboutBlankFetch, RespOk
    <2>2. CASE DataFetch
        BY <2>2, SimpleOutcomes, SchemeAssumption DEF DataFetch, RespOk, Lengths
    <2>3. CASE BlobFetch
        <3>1. req.blob.len \in Nat
            BY <1>1, SchemeAssumption DEF BlobRefs, Lengths
        <3>2. OutcomeOk(Finish(GetRangedBytes(req.range, req.blob.len, 1, BlobHeaderCapacity),
                               BlobHeaderCapacity))
            BY <1>1, <3>1, RangedOutcome DEF BlobHeaderCapacity
        <3>3. QED
            BY <2>3, <3>2, SimpleOutcomes DEF BlobFetch, RespOk
    <2>4. CASE FileFetchStart
        BY <2>4, SimpleOutcomes DEF FileFetchStart, IInv, RespOk
    <2>5. CASE FileReadDone
        <3>1. ASSUME NEW n \in Lengths
              PROVE  OutcomeOk(Finish(GetRangedBytes(req.range, n, 0, FileHeaderCapacity),
                                      FileHeaderCapacity))
            BY <1>1, SchemeAssumption, RangedOutcome DEF FileHeaderCapacity, Lengths
        <3>2. QED
            BY <2>5, <3>1, SimpleOutcomes DEF FileReadDone, RespOk
    <2>6. CASE SchemeOther
        BY <2>6, SimpleOutcomes DEF SchemeOther, RespOk
    <2>7. CASE UNCHANGED vars
        BY <2>7 DEF vars, IInv, RespOk
    <2>8. QED
        BY <2>1, <2>2, <2>3, <2>4, <2>5, <2>6, <2>7 DEF Next
<1>3. /\ phase' \in {"call", "read", "done"}
      /\ req' \in Requests
      /\ ranged' \in Lengths \cup {-1}
    <2>1. req.blob.len \in Lengths
        BY <1>1 DEF BlobRefs
    <2>2. QED
        BY <1>1, <2>1 DEF IInv, TypeOK, Next, vars, AboutBlankFetch, DataFetch,
              BlobFetch, FileFetchStart, FileReadDone, SchemeOther
<1>4. /\ resp'.kind \in {"none", "response", "error", "panic"}
      /\ resp'.status \in {0, 200, 206}
      /\ resp'.pushed \in Nat
    BY <1>2, RespType DEF RespOk
<1>5. QED
    BY <1>2, <1>3, <1>4 DEF IInv, TypeOK

(* The invariant holds in every state of every behaviour.                  *)
THEOREM SchemeInvariant == Spec => []IInv
<1>1. Init => IInv
    BY InitIInv
<1>2. IInv /\ [Next]_vars => IInv'
    BY NextIInv
<1>3. QED
    BY <1>1, <1>2, PTL DEF Spec

(* Type correctness of scheme_fetch's state, for every bound and build.    *)
THEOREM SchemeTypeCorrect == Spec => []TypeOK
<1>1. IInv => TypeOK
    BY DEF IInv
<1>2. QED
    BY <1>1, SchemeInvariant, PTL

(* blob_fetch and file_fetch never push more headers than their ArrayVec   *)
(* holds (scheme.rs 78 and 142), whatever the Range header, the body       *)
(* length and the build: no fetch of a local resource panics in push.     *)
THEOREM HeadersAlwaysFit == Spec => []HeadersFit
<1>1. IInv => HeadersFit
    BY DEF IInv, RespOk, OutcomeOk, HeadersFit, NotYet, Outcome
<1>2. QED
    BY <1>1, SchemeInvariant, PTL

(* In a build with overflow checks (a debug build), every 206 response's   *)
(* Content-Range names exactly the bytes it carries, for every Range       *)
(* header and body length: an open range on an empty body panics instead   *)
(* of wrapping `len - 1` (scheme.rs 181).  A release build is not covered: *)
(* there the wrapped value breaks the property.                            *)
THEOREM ContentRangeExact ==
    ASSUME OverflowChecks
    PROVE  Spec => []ContentRangeMatchesBody
<1>1. IInv => ContentRangeMatchesBody
    BY DEF IInv, RespOk, OutcomeOk, RangeMatches, ContentRangeMatchesBody, NotYet, Outcome
<1>2. QED
    BY <1>1, SchemeInvariant, PTL

=============================================================================
