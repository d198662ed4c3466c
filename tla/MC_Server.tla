----------------------------- MODULE MC_Server -----------------------------
(* Two clients. *)
EXTENDS Server

CONSTANTS c1, c2

MCClients == {c1, c2}
=============================================================================
