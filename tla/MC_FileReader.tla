---------------------------- MODULE MC_FileReader ----------------------------
(* Instantiation of FileReader for TLC: two readers, two kinds of read.    *)
EXTENDS FileReader

CONSTANTS r1, r2

MCReaders == {r1, r2}

MCKinds == {"ArrayBuffer", "Text"}

=============================================================================
