--------------------------- MODULE MCIndexStore ---------------------------
(* An instance of IndexStore for TLC.                                      *)
EXTENDS IndexStore

\* main imports lib.
MainImportsLib == {<<"main", "lib">>}
OnlyMain == {{"main"}}
=============================================================================
