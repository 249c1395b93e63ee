---------------------------- MODULE MCImportExport ----------------------------
(* Small instances of ImportExport.                                        *)
EXTENDS ImportExport, TLC

Symmetry == Permutations(Caps) \cup Permutations(Clients)
===============================================================================
