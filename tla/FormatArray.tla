---------------------------- MODULE FormatArray ----------------------------
(***************************************************************************)
(* Arrays as ion exposes them, ion/src/object/array.rs, and how ion's      *)
(* value formatter prints them, ion/src/format/array.rs (format_array and  *)
(* the Display impl of ArrayDisplay).                                      *)
(*                                                                         *)
(* An Array is an engine object; the wrapper's methods call the engine.    *)
(* The model keeps what formatting reads of it: its `length` and, for each *)
(* index below the bound, the element there or a hole (no own property).  *)
(* Engine semantics of those calls are modelled from ECMAScript: setting   *)
(* an index at or past the length extends the length, deleting an element  *)
(* leaves a hole and keeps the length.                                     *)
(*                                                                         *)
(* Formatting writes a prefix (write_prefix), then "[Array]" beyond depth  *)
(* 4, "[]" for length 0, or the first min(length, 3) elements on one line  *)
(* (min(length, 100) when multiline), each through                         *)
(* `get_descriptor(index)?.unwrap()`, followed by the count of elements    *)
(* not shown.  Colours, indentation and the prefix's text are left out:    *)
(* no property reads them; write_prefix's one failure, get_tag's error, is *)
(* kept.  Array::iter is modelled too: ArrayIndicesIter yields only the    *)
(* keys that are int jsids, and ArrayIter unwraps each element it reads.   *)
(* MaxIntId stands for JSID_INT_MAX; the MC module scales it below MaxLen  *)
(* so that an index past it exists.                                        *)
(***************************************************************************)
EXTENDS Naturals

(* Hole is not one of Values; MaxLen is a positive natural.                *)
CONSTANTS
    Values,     \* element values a script may store
    Hole,       \* no element at an index (get_descriptor returns None)
    MaxLen,     \* bound on the length of the array
    MaxIntId    \* largest index that is an int jsid (JSID_INT_MAX, 2^31 - 1)

Indices == 0..(MaxLen - 1)

Lengths == 0..MaxLen

VARIABLES
    len,    \* the array's length (GetArrayLength)
    elems,  \* the element at each index below MaxLen, or Hole
    out,    \* what the last format_array call printed
    keys,   \* the own keys an ArrayIndicesIter has still to visit
    iterOut \* "none" if there is no iterator, "fresh" if next was not called
            \* since it was made, or what the last ArrayIter::next returned

vars == <<len, elems, out, keys, iterOut>>

(* What the Display impl produces; "error" is an Err(fmt::Error) returned  *)
(* to the caller, "panic" the unwrap of a None descriptor, which aborts    *)
(* the formatting and the runtime with it.                                 *)
Outputs ==
    [kind : {"none", "error", "nested", "empty", "items", "panic"},
     shown : Lengths, remaining : Lengths]

NoOutput == [kind |-> "none", shown |-> 0, remaining |-> 0]

TypeOK ==
    /\ len \in Lengths
    /\ elems \in [Indices -> Values \cup {Hole}]
    /\ \A i \in Indices : i >= len => elems[i] = Hole
    /\ out \in Outputs
    /\ keys \subseteq Indices
    /\ iterOut \in {"none", "fresh", "some", "done", "panic"}

Lesser(a, b) == IF a < b THEN a ELSE b

(* Array::new_with_length(n) (Array::new is n = 0): NewArrayObject1       *)
(* makes a length-n array with no elements.  The model follows one array  *)
(* at a time: the iterator of the previous one is dropped.                 *)
NewWithLength(n) ==
    /\ len' = n
    /\ elems' = [i \in Indices |-> Hole]
    /\ out' = NoOutput
    /\ keys' = {}
    /\ iterOut' = "none"

(* Array::from_handle / from_rooted_vec: NewArrayObject on a list of       *)
(* values makes a dense array of their count.                              *)
FromHandle(vals) ==
    /\ len' = vals
    /\ elems' = [i \in Indices |-> IF i < vals THEN CHOOSE v \in Values : TRUE ELSE Hole]
    /\ out' = NoOutput
    /\ keys' = {}
    /\ iterOut' = "none"

(* Array::set(index, value): an element at index; the length grows to     *)
(* index + 1 if it was shorter.                                           *)
Set(i, v) ==
    /\ elems' = [elems EXCEPT ![i] = v]
    /\ len' = IF i >= len THEN i + 1 ELSE len
    /\ UNCHANGED <<out, keys, iterOut>>

(* Array::delete(index): the element is removed and the length kept.     *)
Delete(i) ==
    /\ i < len
    /\ elems' = [elems EXCEPT ![i] = Hole]
    /\ UNCHANGED <<len, out, keys, iterOut>>

(* Array::len: GetArrayLength.                                             *)
ArrayLen == len

(* Array::get_descriptor(index): Ok(None) where the array has no element.  *)
GetDescriptor(i) == IF elems[i] = Hole THEN "None" ELSE elems[i]

(***************************************************************************)
(* How reading the array's own Symbol.toStringTag goes: "absent" (no own   *)
(* property), "string" (a value the conversion accepts) or "throws" (its   *)
(* getter throws).  get_tag returns the error of the read with `?`.        *)
(***************************************************************************)
TagReads == {"absent", "string", "throws"}

GetTagFails(tagRead) == tagRead = "throws"

(* write_prefix: the constructor name and the prototype only choose the    *)
(* text written; the one way it fails is get_tag's error.                  *)
WritePrefixFails(tagRead) == GetTagFails(tagRead)

(* The multiline or one-line cap on the elements printed.                  *)
ShownCap(multiline) == IF multiline THEN 100 ELSE 3

(***************************************************************************)
(* ArrayDisplay::fmt at nesting depth `depth`.  write_prefix runs first   *)
(* and its error is returned with `?`.  The loop over the shown            *)
(* indices stops at the first hole: get_descriptor returns Ok(None) there  *)
(* and unwrap panics.                                                      *)
(***************************************************************************)
FormatArrayDisplay(depth, multiline, tagRead) ==
    LET length == ArrayLen
        shown == Lesser(length, ShownCap(multiline))
    IN  out' = CASE WritePrefixFails(tagRead) -> [NoOutput EXCEPT !.kind = "error"]
                 [] depth > 4 -> [NoOutput EXCEPT !.kind = "nested"]
                 [] length = 0 -> [NoOutput EXCEPT !.kind = "empty"]
                 [] \E i \in 0..(shown - 1) : GetDescriptor(i) = "None" ->
                      [NoOutput EXCEPT !.kind = "panic"]
                 [] OTHER -> [kind |-> "items", shown |-> shown,
                              remaining |-> length - shown]

Format(depth, multiline, tagRead) ==
    /\ FormatArrayDisplay(depth, multiline, tagRead)
    /\ UNCHANGED <<len, elems, keys, iterOut>>

(***************************************************************************)
(* Array::iter (and Array::indices): ArrayIndicesIter wraps the iterator   *)
(* over the object's own keys, which the engine lists when the iterator is *)
(* made, array indices first and in ascending order.                       *)
(***************************************************************************)
Iter ==
    /\ keys' = {i \in Indices : elems[i] # Hole}
    /\ iterOut' = "fresh"
    /\ UNCHANGED <<len, elems, out>>

(***************************************************************************)
(* ArrayIter::next: ArrayIndicesIter::next skips the keys that are not int *)
(* jsids and yields the first that is, or ends the iteration; the value   *)
(* is then read with `get(index).transpose().unwrap()`, which panics if   *)
(* the element is gone.                                                    *)
(***************************************************************************)
IterNext ==
    LET ints == {k \in keys : k <= MaxIntId}
        i == CHOOSE k \in ints : \A m \in ints : k <= m
    IN  /\ iterOut # "none"
        /\ \/ /\ ints = {}
              /\ keys' = {}
              /\ iterOut' = "done"
           \/ /\ ints # {}
              /\ keys' = {k \in keys : k > i}
              /\ iterOut' = IF GetDescriptor(i) = "None" THEN "panic" ELSE "some"
        /\ UNCHANGED <<len, elems, out>>

(* Array::new: an empty array.                                             *)
Init ==
    /\ len = 0
    /\ elems = [i \in Indices |-> Hole]
    /\ out = NoOutput
    /\ keys = {}
    /\ iterOut = "none"

Next ==
    \/ \E n \in Lengths : NewWithLength(n)
    \/ \E n \in Lengths : FromHandle(n)
    \/ \E i \in Indices, v \in Values : Set(i, v)
    \/ \E i \in Indices : Delete(i)
    \/ \E depth \in 0..5, multiline \in BOOLEAN, tagRead \in TagReads :
           Format(depth, multiline, tagRead)
    \/ Iter
    \/ IterNext

Spec == Init /\ [][Next]_vars

-----------------------------------------------------------------------------
(* Printing an array (console.log, the REPL) never panics, whatever the    *)
(* script put in it: get_descriptor is documented to return None for an    *)
(* index with no value, so a hole must be printed, not unwrapped.          *)
FormatNeverPanics == out.kind # "panic"

=============================================================================
