--------------------------- MODULE MC_ScanLibrary ---------------------------
(* The two libraries of the move map.                                      *)
EXTENDS ScanLibrary

CONSTANTS movies, shows

MCLibs == {movies, shows}
=============================================================================
