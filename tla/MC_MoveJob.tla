----------------------------- MODULE MC_MoveJob -----------------------------
(* The three callers of the server: the listener, whose clients ask to start *)
(* and for the status, the scan job, and the updater (main.rs:107-128).      *)
EXTENDS MoveJob

CONSTANTS listener, scan, updater

MCCallers == {listener, scan, updater}
MCAsks == [c \in MCCallers |->
             CASE c = listener -> {"Start", "StatusRequest"}
               [] c = scan -> {"StatusRequest"}
               [] c = updater -> {"Stop"}]
=============================================================================
