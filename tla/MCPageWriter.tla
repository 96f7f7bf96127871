----------------------------- MODULE MCPageWriter -----------------------------
(* Small instances of PageWriter: values for its constants. *)
EXTENDS PageWriter

(* Pages of 20 bytes: strings of a few characters, a string that is the      *)
(* longest to share a page with others, the shortest that may not, one that  *)
(* ends exactly with a page and one that needs three.                        *)
MCLength == [s \in Strings |-> CASE s = 100 -> 0 [] s = 101 -> 3 [] s = 102 -> PageSize - 7
                                 [] s = 103 -> PageSize - 6 [] s = 104 -> 2 * (PageSize - 4)
                                 [] OTHER -> 2 * (PageSize - 4) + 1]

(* Every type through either writer, but for wide values through a          *)
(* ColumnInserter, which have an instance of their own.                     *)
MCWideKinds == {<<"wide", "inserter">>}
MCKinds == ({"int32", "wide", "text"} \X {"buffer", "inserter"}) \ MCWideKinds
=============================================================================
