----------------------------- MODULE SchemeFetch -----------------------------
(***************************************************************************)
(* Fetching the local schemes, runtime/src/globals/fetch/scheme.rs:        *)
(* scheme_fetch dispatches about:blank, blob:, data: and file: URLs; blob  *)
(* and file fetches serve a Range header through get_ranged_bytes.         *)
(*                                                                         *)
(* One call of scheme_fetch.  It completes without suspending except in    *)
(* file_fetch's `read(path).await`, where the file system answers          *)
(* (`phase` = "read").  A body is abstracted to its length; a response     *)
(* records its status, the slice [begin, end) of the stored bytes it       *)
(* carries, its Content-Range header and how many headers were pushed      *)
(* into the ArrayVec that builds its HeaderMap.  A panic (an assertion of  *)
(* Bytes::slice, an ArrayVec overflow, an arithmetic overflow under        *)
(* overflow checks) is an outcome of its own: it takes the runtime down.   *)
(***************************************************************************)
EXTENDS Integers, Sequences

CONSTANTS
    Methods,         \* request methods the script may use
    Schemes,         \* URL schemes scheme_fetch is called with
    MaxLen,          \* largest body length of a blob or file
    UsizeMax,        \* usize::MAX, scaled down: larger than every length
    OverflowChecks,  \* whether the build panics on integer overflow
    Unb              \* Bound::Unbounded

ASSUME SchemeAssumption ==
    /\ Methods \subseteq {"GET", "HEAD", "POST"}
    /\ Schemes \subseteq {"about", "blob", "data", "file", "ftp"}
    /\ MaxLen \in Nat /\ UsizeMax \in Nat /\ MaxLen < UsizeMax
    /\ OverflowChecks \in BOOLEAN
    /\ Unb \notin Nat

Lengths == 0..MaxLen

(* A bound of a range spec as parse_bound reads it: empty is Unbounded,   *)
(* digits are Included(n).  Numbers just past the body are enough to reach *)
(* every comparison the code makes.                                        *)
Bounds == {Unb} \cup 0..(MaxLen + 1)

(* One comma-separated spec of a `Range: bytes=...` value.  A spec that    *)
(* does not parse is dropped by satisfiable_ranges exactly like `-`        *)
(* (both bounds Unbounded), which stands for it.                           *)
RangeSpecs == [start : Bounds, end : Bounds]

(* The Range header: absent, present without the `bytes=` prefix (the     *)
(* typed decode fails), or `bytes=` followed by one or two specs.          *)
RangeHeaders ==
    [kind : {"absent", "invalid"}, specs : {<< >>}]
    \cup [kind : {"bytes"}, specs : {<<s>> : s \in RangeSpecs}
                                     \cup {<<s, t>> : s, t \in RangeSpecs}]

NoRange == [kind |-> "absent", specs |-> << >>]

(* A Content-Range value as get_ranged_bytes formats it: the code writes  *)
(* no unit before the range ("none").  An outcome's `why` is "none" unless *)
(* it is a panic.                                                          *)
NoContentRange == [unit |-> "none", start |-> 0, end |-> 0, total |-> 0, present |-> FALSE]

(* The blob a blob: URL names: whether a UUID parses from its path,        *)
(* whether the blob store holds it, whether its type is a valid header     *)
(* value, and its length.                                                  *)
BlobRefs == [uuid : BOOLEAN, stored : BOOLEAN, kindOk : BOOLEAN, len : Lengths]

NoBlob == [uuid |-> FALSE, stored |-> FALSE, kindOk |-> FALSE, len |-> 0]

Requests ==
    [method : Methods, scheme : Schemes \ {"blob", "file"}, range : {NoRange},
     blob : {NoBlob}, pathOk : {TRUE}]
    \cup [method : Methods, scheme : {"blob"} \cap Schemes, range : RangeHeaders,
          blob : BlobRefs, pathOk : {TRUE}]
    \cup [method : Methods, scheme : {"file"} \cap Schemes, range : RangeHeaders,
          blob : {NoBlob}, pathOk : BOOLEAN]

(* Outcomes.  `len` is the length of the stored bytes the slice is of.     *)
Outcome(k, w, st, n, b, e, c, p, rg) ==
    [kind |-> k, why |-> w, status |-> st, len |-> n, begin |-> b,
     end |-> e, cr |-> c, pushed |-> p, ranged |-> rg]

NetworkError == Outcome("error", "none", 0, 0, 0, 0, NoContentRange, 0, FALSE)

Panic(why) == Outcome("panic", why, 0, 0, 0, 0, NoContentRange, 0, FALSE)

NotYet == Outcome("none", "none", 0, 0, 0, 0, NoContentRange, 0, FALSE)

(* A 200 response built by Response::new_from_bytes with the whole body.   *)
Whole(n, p) == Outcome("response", "none", 200, n, 0, n, NoContentRange, p, FALSE)

-----------------------------------------------------------------------------
(***************************************************************************)
(* The headers crate's Range::satisfiable_ranges(len) (headers 0.4, not   *)
(* in this tree) yields, in order, every spec with both bounds parsed,     *)
(* except that a suffix `-n` becomes (Included(len - n), Unbounded) and is *)
(* dropped when len < n, and `-` is dropped.  A spec `a-b` is passed on as *)
(* it is, whatever a, b and len are.  get_ranged_bytes takes only the      *)
(* first range the iterator yields (`.next()`).                            *)
(***************************************************************************)
Kept(s, len) == s.start # Unb \/ (s.end # Unb /\ len >= s.end)

AsSatisfiable(s, len) ==
    IF s.start = Unb THEN [start |-> len - s.end, end |-> Unb] ELSE s

(* `satisfiable_ranges(len).next()` is Some.                               *)
HasSatisfiable(specs, len) == \E i \in DOMAIN specs : Kept(specs[i], len)

(* The range `satisfiable_ranges(len).next()` yields: the first kept spec. *)
FirstSatisfiable(specs, len) ==
    LET i == CHOOSE i \in DOMAIN specs :
                 /\ Kept(specs[i], len)
                 /\ \A j \in 1..(i - 1) : ~Kept(specs[j], len)
    IN  AsSatisfiable(specs[i], len)

(* Bytes::slice((start, end)) on `len` bytes: an Included end is end + 1   *)
(* (checked_add: it cannot overflow for the bounds the model has), and    *)
(* the slice asserts begin <= end <= len.                                  *)
SliceEnd(r, len) == IF r.end = Unb THEN len ELSE r.end + 1

SliceOk(r, len) == r.start <= SliceEnd(r, len) /\ SliceEnd(r, len) <= len

(* `len - 1` on usize: wraps to usize::MAX at 0 without overflow checks.   *)
WrappingDec(n) == IF n = 0 THEN UsizeMax ELSE n - 1

(* The capacities of the ArrayVecs blob_fetch and file_fetch collect       *)
(* their response headers in (scheme.rs 78, 142); ArrayVec::push panics   *)
(* when the vector is full.                                                *)
BlobHeaderCapacity == 3

FileHeaderCapacityShort == 1

FileHeaderCapacity == 2

Push(o, cap) ==
    IF o.pushed < cap THEN [o EXCEPT !.pushed = @ + 1] ELSE Panic("capacity")

(* Mutant of get_ranged_bytes: the last byte of an open range taken as     *)
(* `len` instead of `len - 1`.                                             *)
GetRangedBytesLastIsLen(range, len, pushed, cap) ==
    IF range.kind = "absent" THEN Whole(len, pushed)
    ELSE IF range.kind = "invalid" \/ ~HasSatisfiable(range.specs, len) THEN NetworkError
    ELSE LET r == FirstSatisfiable(range.specs, len)
             last == IF r.end = Unb THEN len ELSE r.end
             cr == [unit |-> "none", start |-> r.start, end |-> last, total |-> len,
                    present |-> TRUE]
         IN  IF ~SliceOk(r, len) THEN Panic("slice")
             ELSE Push(Outcome("response", "none", 206, len, r.start, SliceEnd(r, len),
                               cr, pushed, TRUE), cap)

(* get_ranged_bytes(headers, bytes, response_headers), scheme.rs 169-199, *)
(* for a body of `len` bytes with `pushed` headers already in the          *)
(* ArrayVec of capacity `cap`: no Range header gives 200 and the whole     *)
(* body; a Range header that does not decode, or none of whose specs is    *)
(* satisfiable, gives a network error; otherwise the body is sliced to the *)
(* first satisfiable range (Bytes::slice asserting its bounds), its last   *)
(* byte is computed (`len - 1` for an open range), and Content-Range       *)
(* "{start}-{end}/{len}" is pushed, with status 206.                       *)
GetRangedBytes(range, len, pushed, cap) ==
    IF range.kind = "absent" THEN Whole(len, pushed)
    ELSE IF range.kind = "invalid" \/ ~HasSatisfiable(range.specs, len) THEN NetworkError
    ELSE LET r == FirstSatisfiable(range.specs, len)
             last == IF r.end = Unb THEN WrappingDec(len) ELSE r.end
             cr == [unit |-> "none", start |-> r.start, end |-> last, total |-> len,
                    present |-> TRUE]
         IN  IF ~SliceOk(r, len) THEN Panic("slice")
             ELSE IF r.end = Unb /\ len = 0 /\ OverflowChecks THEN Panic("overflow")
             ELSE Push(Outcome("response", "none", 206, len, r.start, SliceEnd(r, len),
                               cr, pushed, TRUE), cap)

(* The tail shared by blob_fetch and file_fetch after get_ranged_bytes:    *)
(* an error returns as it is; otherwise Content-Length is pushed.          *)
Finish(o, cap) == IF o.kind = "response" THEN Push(o, cap) ELSE o

-----------------------------------------------------------------------------
VARIABLES
    phase,   \* "call", "read" (suspended in read(path).await) or "done"
    req,     \* the request scheme_fetch was called with
    resp,    \* the outcome
    ranged   \* history: the body length get_ranged_bytes was called with,
             \* or -1 before it is called

vars == <<phase, req, resp, ranged>>

TypeOK ==
    /\ phase \in {"call", "read", "done"}
    /\ req \in Requests
    /\ resp.kind \in {"none", "response", "error", "panic"}
    /\ resp.status \in {0, 200, 206}
    /\ resp.pushed \in Nat
    /\ ranged \in Lengths \cup {-1}

Init ==
    /\ phase = "call"
    /\ req \in Requests
    /\ resp = NotYet
    /\ ranged = -1

(* scheme_fetch (scheme.rs 29-37) and about_blank_fetch (39-51): an about: *)
(* URL (the model's are all about:blank) gives an empty 200 response whose *)
(* one Content-Type header is built without an ArrayVec.                  *)
AboutBlankFetch ==
    /\ phase = "call"
    /\ req.scheme = "about"
    /\ resp' = Whole(0, 0)
    /\ phase' = "done"
    /\ UNCHANGED <<req, ranged>>

(* data_fetch (scheme.rs 106-127): the URL may fail to process or decode;  *)
(* otherwise a 200 response with the decoded bytes.                        *)
DataFetch ==
    /\ phase = "call"
    /\ req.scheme = "data"
    /\ resp' \in {NetworkError} \cup {Whole(n, 0) : n \in Lengths}
    /\ phase' = "done"
    /\ UNCHANGED <<req, ranged>>

(* blob_fetch (scheme.rs 53-104): GET only; the UUID must parse from the   *)
(* path, the blob store must hold it and its type must be a valid header   *)
(* value; Content-Type is pushed, then get_ranged_bytes runs and           *)
(* Content-Length is pushed.                                               *)
BlobFetch ==
    /\ phase = "call"
    /\ req.scheme = "blob"
    /\ LET b == req.blob
           ok == req.method = "GET" /\ b.uuid /\ b.stored /\ b.kindOk
       IN  /\ resp' = IF ok
                      THEN Finish(GetRangedBytes(req.range, b.len, 1, BlobHeaderCapacity),
                                  BlobHeaderCapacity)
                      ELSE NetworkError
           /\ ranged' = IF ok THEN b.len ELSE ranged
    /\ phase' = "done"
    /\ UNCHANGED req

(* file_fetch (scheme.rs 129-135): GET only, and the URL must convert to a *)
(* path; then suspend in read(path).await.                                 *)
FileFetchStart ==
    /\ phase = "call"
    /\ req.scheme = "file"
    /\ IF req.method = "GET" /\ req.pathOk
       THEN /\ phase' = "read"
            /\ UNCHANGED resp
       ELSE /\ resp' = NetworkError
            /\ phase' = "done"
    /\ UNCHANGED <<req, ranged>>

(* The read completes (scheme.rs 135-166): an error is a network error;    *)
(* the bytes go through get_ranged_bytes, then Content-Length is pushed.   *)
FileReadDone ==
    /\ phase = "read"
    /\ \/ /\ resp' = NetworkError
          /\ UNCHANGED ranged
       \/ \E n \in Lengths :
            /\ resp' = Finish(GetRangedBytes(req.range, n, 0, FileHeaderCapacity),
                              FileHeaderCapacity)
            /\ ranged' = n
    /\ phase' = "done"
    /\ UNCHANGED req

(* scheme_fetch, scheme.rs 35: any other scheme is a network error.        *)
SchemeOther ==
    /\ phase = "call"
    /\ req.scheme \notin {"about", "blob", "data", "file"}
    /\ resp' = NetworkError
    /\ phase' = "done"
    /\ UNCHANGED <<req, ranged>>

Next ==
    \/ AboutBlankFetch
    \/ DataFetch
    \/ BlobFetch
    \/ FileFetchStart
    \/ FileReadDone
    \/ SchemeOther

Spec == Init /\ [][Next]_vars

-----------------------------------------------------------------------------
(***************************************************************************)
(* Properties.                                                             *)
(***************************************************************************)

(* The response headers of blob_fetch and file_fetch (Content-Type,        *)
(* Content-Range, Content-Length) always fit the fixed-capacity ArrayVec   *)
(* they are collected in: no ranged or unranged fetch panics in push.      *)
HeadersFit == resp.why # "capacity"

(* The Content-Range header of a 206 response describes exactly the bytes  *)
(* it carries: its first and last byte bound the served slice and its      *)
(* total is the stored length, with the last byte inside the body.         *)
ContentRangeMatchesBody ==
    (resp.kind = "response" /\ resp.ranged) =>
        /\ resp.cr.start = resp.begin
        /\ resp.cr.end + 1 = resp.end
        /\ resp.cr.end < resp.cr.total
        /\ resp.cr.total = resp.len

(* Spec 4.8 and 6: serving a local file or blob never brings the runtime   *)
(* down: an unsatisfiable range is a network error.                        *)
RangeNeverPanics == resp.kind # "panic"

=============================================================================
