------------------------------- MODULE MCCopyScan -------------------------------
(* CopyScan for TLC: an INT32 and a VARCHAR column, returned in the other order. *)
EXTENDS CopyScan

ASSUME RowsPerPage(8192, 8) = 1984

(* Pages of 20 bytes hold three rows of an INT32 column without NULLs, and  *)
(* 16 bytes of a long text.                                                 *)
MCLength == (100 :> 3) @@ (101 :> 40)
MCTypes == <<"int", "text">>
MCColumnValues == <<{1, 2}, {100, 101}>>
MCOutputAttrs == <<2, 1>>
=============================================================================
