------------------------------ MODULE MCCSVParser ------------------------------
(* Small instances of CSVParser: values for its constants. *)
EXTENDS CSVParser

(* Texts of up to five characters; a digit would be read as a letter is. *)
MCCharacters == Characters \ Digits
MCFiles == UNION {[1 .. n -> MCCharacters] : n \in 0 .. 5}

(* Two columns, and up to two records: a number, and a text that may hold    *)
(* what separates, quotes or escapes; NULLs in either.                       *)
MCTypes == <<"int", "text">>
MCNumbers == {<<d>> : d \in Digits} \cup {Null}
MCTexts == {<<c>> : c \in MCCharacters} \cup {<<Backslash, Quote>>, <<CR, LF>>, Null}
MCRecords == {<<n, t>> : n \in MCNumbers, t \in MCTexts}
MCTables == {<<r>> : r \in MCRecords} \cup {<<r, s>> : r \in MCRecords, s \in MCRecords}
=============================================================================
