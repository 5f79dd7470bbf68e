--------------------------- MODULE MC_FormatArray ---------------------------
(* Two element values and the hole as model values.                        *)
EXTENDS FormatArray

CONSTANTS v1, v2, hole

MCValues == {v1, v2}

=============================================================================
