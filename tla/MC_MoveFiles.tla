---------------------------- MODULE MC_MoveFiles ----------------------------
(* Two pairs of directories, each with a movie directory and a loose file  *)
(* beside it: the movie of the deep one has a directory of subtitles in it, *)
(* that of the flat one two files.                                         *)
EXTENDS MoveFiles

CONSTANTS root, movie, subs, film, en, loose

DeepDirs == {movie, subs}
DeepFiles == {en, loose}
DeepParent == [n \in DeepDirs \cup DeepFiles |->
    CASE n \in {movie, loose} -> root
      [] n = subs -> movie
      [] n = en -> subs]

FlatDirs == {movie}
FlatFiles == {film, en, loose}
FlatParent == [n \in FlatDirs \cup FlatFiles |->
    IF n \in {movie, loose} THEN root ELSE movie]
=============================================================================
